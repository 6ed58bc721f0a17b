--------------------------- MODULE DeliveryProofs ---------------------------
(***************************************************************************)
(* Proofs about Delivery for every value of its constants: type            *)
(* correctness, no loss of a committed event, no delivery across bindings, *)
(* no lost wake, and the implementation of EventCustody.                   *)
(*                                                                         *)
(* The argument: every action but an enqueue and a reception is a "Shift"  *)
(* of custody.  Rows only leave the queue, and those that leave are kept   *)
(* or were received by their owner.  For the settlement of an answer this  *)
(* needs to know what a request in flight may hold: events of the account  *)
(* that signed it (OwnRequest), each still queued or kept (SafeRequest).   *)
(***************************************************************************)
EXTENDS Delivery, TLAPS

(* A credential is active only for some installation.                      *)
ActiveBound == active => binding \in Installation

(* A request exists only while its flight does.                            *)
RequestPhase ==
  /\ phase = "idle" => request = NoRequest
  /\ phase # "idle" => request.installation \in Installation

OwnRequest == \A e \in request.events : Owner[e] = request.installation

SafeRequest == request.events \subseteq rows \cup Kept

RequestInv == ActiveBound /\ RequestPhase /\ OwnRequest /\ SafeRequest

IInv == TypeOK /\ RequestInv /\ NoCrossBinding /\ NoLoss /\ WakeArmed

(* What a step does to an event's place, unless it commits or receives     *)
(* events or finds the database damaged.                                   *)
Shift ==
  /\ rows' \subseteq rows
  /\ Kept \subseteq Kept'
  /\ Kept' \subseteq rows \cup Kept
  /\ rows \subseteq rows' \cup Kept' \cup ReceivedByOwner
  /\ UNCHANGED <<received, committed, lost>>

-----------------------------------------------------------------------------
(* The rows an upload takes are rows of the current binding.               *)
LEMMA BatchOwn ==
  ASSUME TypeOK
  PROVE  /\ OwnRows \subseteq rows
         /\ Batch \subseteq OwnRows
         /\ \A e \in OwnRows : Owner[e] = binding
BY DEF OwnRows, Batch, Pending, Foreign

(* Stamps and dead letters keep their types whatever the set of rows.      *)
LEMMA TableTypes ==
  ASSUME TypeOK, NEW S, NEW reason \in Reason
  PROVE  /\ Stamps(S) \in [Event -> Nat]
         /\ DeadLettered(S, reason) \in [Event -> Reason]
BY DEF TypeOK, SpoolTypeOK, Stamps, DeadLettered

LEMMA InitInv == Init => IInv
<1> SUFFICES ASSUME Init PROVE IInv
  OBVIOUS
<1>1. TypeOK
  <2>1. SpoolTypeOK
    BY DEF Init, SpoolInit, SpoolTypeOK, Reason
  <2>2. binding \in 0..MaxBinding /\ healthy \in 0..MaxBinding
    BY SpoolAssumption DEF Init
  <2>3. request \in [installation : 0..MaxBinding, events : SUBSET Event]
    BY SpoolAssumption DEF Init, NoRequest
  <2> QED
    BY <2>1, <2>2, <2>3 DEF Init, TypeOK, ServiceState, Phase
<1>2. RequestInv
  BY DEF Init, RequestInv, ActiveBound, RequestPhase, OwnRequest, SafeRequest,
         NoRequest
<1>3. NoCrossBinding /\ NoLoss /\ WakeArmed
  BY DEF Init, NoCrossBinding, NoLoss, WakeArmed
<1> QED
  BY <1>1, <1>2, <1>3 DEF IInv

-----------------------------------------------------------------------------
(* The part of the invariant that each action is checked against; the rest *)
(* follows from Shift.                                                     *)
Steady == Shift /\ TypeOK' /\ RequestInv' /\ WakeArmed'

(* Quarantining for the current binding is a shift of custody.             *)
LEMMA QuarantineShift ==
  ASSUME TypeOK, Quarantine, UNCHANGED <<received, committed>>
  PROVE  Shift /\ SpoolTypeOK' /\ rows \subseteq rows' \cup Kept'
<1>1. SpoolTypeOK'
  <2>1. createdAt' \in [Event -> Nat]
    BY TableTypes DEF Quarantine, Reason
  <2> QED
    BY <2>1 DEF Quarantine, TypeOK, SpoolTypeOK, OwnRows, Foreign
<1>2. Kept' = Kept \cup Foreign(binding)
  BY DEF Quarantine, Kept
<1>3. /\ rows' = rows \ Foreign(binding) /\ Foreign(binding) \subseteq rows
      /\ lost' = lost
  BY DEF Quarantine, OwnRows, Foreign
<1> QED
  BY <1>1, <1>2, <1>3 DEF Shift

(* An upload up to its fetch, whoever started it.                          *)
LEMMA PerformSendSteady ==
  ASSUME IInv, PerformSend, UNCHANGED <<received, committed>>
  PROVE  /\ Shift /\ SpoolTypeOK' /\ RequestInv'
         /\ phase' \in {"idle", "fetching"} /\ stalled' \in BOOLEAN
         /\ request' \in [installation : 0..MaxBinding, events : SUBSET Event]
         /\ rows' # {} /\ phase' = "idle" => stalled'
<1>1. phase = "idle" /\ request = NoRequest /\ UNCHANGED <<binding, active>>
  BY DEF IInv, RequestInv, RequestPhase, PerformSend, bindingVars
<1>2. TypeOK /\ ActiveBound
  BY DEF IInv, RequestInv
<1>3. CASE SendDisabled
  BY <1>1, <1>2, <1>3
     DEF SendDisabled, Shift, spoolVars, Kept, TypeOK, SpoolTypeOK, RequestInv,
         ActiveBound, RequestPhase, OwnRequest, SafeRequest, NoRequest
<1>4. CASE SendNothing
  <2>1. Shift /\ SpoolTypeOK'
    BY <1>2, <1>4, QuarantineShift DEF SendNothing
  <2>2. UNCHANGED <<phase, request>> /\ stalled' = TRUE
    BY <1>4 DEF SendNothing
  <2> QED
    BY <1>1, <1>2, <2>1, <2>2
       DEF TypeOK, RequestInv, ActiveBound, RequestPhase, OwnRequest,
           SafeRequest, NoRequest
<1>5. CASE SendOversized
  <2>1. PICK h \in OwnRows :
          /\ rows' = OwnRows \ {h}
          /\ createdAt' = Stamps(OwnRows \ {h})
          /\ deadLetters' = DeadLettered({h}, "batch-event-too-large")
    BY <1>5 DEF SendOversized
  <2>2. /\ archive' = archive \cup Foreign(binding)
        /\ UNCHANGED <<setAside, lost, phase, request>> /\ stalled' = TRUE
    BY <1>5 DEF SendOversized
  <2>3. OwnRows = rows \ Foreign(binding) /\ Foreign(binding) \subseteq rows
    BY DEF OwnRows, Foreign
  <2>4. SpoolTypeOK'
    <3>1. deadLetters' \in [Event -> Reason]
      BY <1>2, <2>1, TableTypes DEF Reason
    <3>2. createdAt' \in [Event -> Nat]
      BY <1>2, <2>1, TableTypes DEF Reason
    <3> QED
      BY <1>2, <2>1, <2>2, <2>3, <3>1, <3>2 DEF TypeOK, SpoolTypeOK
  <2>5. Kept' = Kept \cup {h} \cup Foreign(binding)
    BY <1>2, <2>1, <2>2, <2>3 DEF Kept, DeadLettered, TypeOK, SpoolTypeOK
  <2>6. Shift
    BY <2>1, <2>2, <2>3, <2>5 DEF Shift
  <2> QED
    BY <1>1, <1>2, <2>2, <2>4, <2>6
       DEF TypeOK, RequestInv, ActiveBound, RequestPhase, OwnRequest,
           SafeRequest, NoRequest
<1>6. CASE SendBatch
  <2>1. Shift /\ SpoolTypeOK'
    BY <1>2, <1>6, QuarantineShift DEF SendBatch
  <2>2. /\ phase' = "fetching"
        /\ request' = [installation |-> binding, events |-> Batch]
        /\ rows' = OwnRows /\ active /\ UNCHANGED stalled
    BY <1>6 DEF SendBatch, Quarantine
  <2>3. binding \in Installation /\ Batch \subseteq rows'
        /\ \A e \in Batch : Owner[e] = binding
    BY <1>2, <2>2, BatchOwn DEF ActiveBound
  <2>4. request' \in [installation : 0..MaxBinding, events : SUBSET Event]
    BY <1>2, <2>2, BatchOwn DEF TypeOK, SpoolTypeOK
  <2> QED
    BY <1>1, <1>2, <2>1, <2>2, <2>3, <2>4
       DEF TypeOK, RequestInv, ActiveBound, RequestPhase, OwnRequest, SafeRequest
<1> QED
  BY <1>3, <1>4, <1>5, <1>6 DEF PerformSend

LEMMA WakeSteady == ASSUME IInv, Wake PROVE Steady
<1>1. /\ Shift /\ SpoolTypeOK' /\ RequestInv'
      /\ phase' \in {"idle", "fetching"} /\ stalled' \in BOOLEAN
      /\ request' \in [installation : 0..MaxBinding, events : SUBSET Event]
      /\ rows' # {} /\ phase' = "idle" => stalled'
  BY PerformSendSteady DEF Wake, PerformSend
<1>2. /\ pumpPending' = FALSE /\ pumpTimer' = FALSE
      /\ UNCHANGED <<service, healthy, binding, active, received, committed>>
  BY DEF Wake, PerformSend, bindingVars
<1> QED
  BY <1>1, <1>2 DEF Steady, IInv, TypeOK, WakeArmed, Phase

LEMMA LastDrainSteady == ASSUME IInv, LastDrain PROVE Steady
<1>1. /\ Shift /\ SpoolTypeOK' /\ RequestInv'
      /\ phase' \in {"idle", "fetching"} /\ stalled' \in BOOLEAN
      /\ request' \in [installation : 0..MaxBinding, events : SUBSET Event]
  BY PerformSendSteady DEF LastDrain, PerformSend
<1>2. /\ service' = "draining"
      /\ UNCHANGED <<pumpVars, healthy, binding, active, received, committed>>
  BY DEF LastDrain, PerformSend, bindingVars
<1> QED
  BY <1>1, <1>2
     DEF Steady, IInv, TypeOK, WakeArmed, Phase, ServiceState, pumpVars

(* The end of a flight keeps the pump's part of the invariant.             *)
LEMMA FlightOverTypes ==
  ASSUME IInv, NEW sent, FlightOver(sent), UNCHANGED service
  PROVE  /\ phase' = "idle" /\ request' = NoRequest /\ stalled' \in BOOLEAN
         /\ pumpPending' \in BOOLEAN /\ pumpTimer' \in BOOLEAN
         /\ WakeArmed'
BY DEF IInv, TypeOK, FlightOver, WakeArmed, pumpVars

(* Events in flight are the sender's; those the server confirms have been  *)
(* received by their owner, and those it rejects become dead letters.      *)
LEMMA SettleAnswerSteady ==
  ASSUME IInv, NEW acks, NEW rejects, SettleAnswer(acks, rejects)
  PROVE  Steady
<1> DEFINE sent == acks \cap request.events
           dead == rejects \cap request.events
<1>1. /\ rows' = rows \ (sent \cup dead)
      /\ createdAt' = Stamps(rows \ (sent \cup dead))
      /\ deadLetters' = DeadLettered(dead, "rejected")
      /\ healthy' = IF sent \cap Health # {}
                    THEN request.installation ELSE healthy
      /\ FlightOver(sent)
      /\ acks \subseteq ServerEvents(request.installation)
      /\ UNCHANGED <<archive, setAside, lost, binding, active, service,
                     received, committed>>
  BY DEF SettleAnswer, bindingVars
<1>2. TypeOK /\ RequestInv
  BY DEF IInv
<1>3. request.events \subseteq Event /\ request.installation \in 0..MaxBinding
  BY <1>2 DEF TypeOK
<1>4. SpoolTypeOK'
  <2>1. createdAt' \in [Event -> Nat] /\ deadLetters' \in [Event -> Reason]
    BY <1>1, <1>2, TableTypes DEF Reason
  <2> QED
    BY <1>1, <1>2, <2>1 DEF TypeOK, SpoolTypeOK
<1>5. sent \subseteq ReceivedByOwner
  BY <1>1, <1>2, <1>3
     DEF RequestInv, OwnRequest, ServerEvents, ReceivedByOwner
<1>6. Kept' = Kept \cup dead
  BY <1>1, <1>2, <1>3 DEF Kept, DeadLettered, TypeOK, SpoolTypeOK
<1>7. Shift
  BY <1>1, <1>2, <1>5, <1>6 DEF Shift, RequestInv, SafeRequest
<1>8. /\ phase' = "idle" /\ request' = NoRequest /\ stalled' \in BOOLEAN
      /\ pumpPending' \in BOOLEAN /\ pumpTimer' \in BOOLEAN
      /\ WakeArmed'
  BY <1>1, FlightOverTypes
<1>9. TypeOK'
  <2>1. request' \in [installation : 0..MaxBinding, events : SUBSET Event]
    BY <1>8, SpoolAssumption DEF NoRequest
  <2>2. healthy' \in 0..MaxBinding
    BY <1>1, <1>2, <1>3 DEF TypeOK
  <2> QED
    BY <1>1, <1>2, <1>4, <1>8, <2>1, <2>2 DEF TypeOK, Phase
<1>10. RequestInv'
  BY <1>1, <1>2, <1>8
     DEF RequestInv, ActiveBound, RequestPhase, OwnRequest, SafeRequest,
         NoRequest
<1> QED
  BY <1>7, <1>8, <1>9, <1>10 DEF Steady

(* A flight that ends, or goes on to sleep, without touching the queue.    *)
LEMMA FlightSteady ==
  ASSUME IInv, SettleRefused \/ SettleRetry \/ BackoffOver
  PROVE  Steady
<1>1. TypeOK /\ RequestInv
  BY DEF IInv
<1>2. /\ rows' = rows
      /\ UNCHANGED <<createdAt, deadLetters, archive, setAside, lost, healthy,
                     binding, active, service, received, committed>>
  BY DEF SettleRefused, SettleRetry, BackoffOver, spoolVars, bindingVars
<1>3. Shift /\ SpoolTypeOK' /\ Kept' = Kept
  BY <1>1, <1>2 DEF Shift, Kept, TypeOK, SpoolTypeOK
<1>4. CASE FlightOver({})
  <2>1. /\ phase' = "idle" /\ request' = NoRequest /\ stalled' \in BOOLEAN
        /\ pumpPending' \in BOOLEAN /\ pumpTimer' \in BOOLEAN
        /\ WakeArmed'
    BY <1>2, <1>4, FlightOverTypes
  <2>2. request' \in [installation : 0..MaxBinding, events : SUBSET Event]
    BY <2>1, SpoolAssumption DEF NoRequest
  <2> QED
    BY <1>1, <1>2, <1>3, <2>1, <2>2
       DEF Steady, TypeOK, Phase, RequestInv, ActiveBound, RequestPhase,
           OwnRequest, SafeRequest, NoRequest
<1>5. CASE SettleRetry
  <2>1. /\ phase = "fetching" /\ phase' = "sleeping"
        /\ UNCHANGED <<request, pumpPending, pumpTimer, stalled>>
    BY <1>5 DEF SettleRetry, pumpVars
  <2> QED
    BY <1>1, <1>2, <1>3, <2>1
       DEF Steady, TypeOK, Phase, RequestInv, ActiveBound, RequestPhase,
           OwnRequest, SafeRequest, WakeArmed
<1> QED
  BY <1>4, <1>5 DEF SettleRefused, BackoffOver

(* The steps that leave the queue alone.                                   *)
LEMMA IdleSteady ==
  ASSUME IInv, Interval \/ Rebind \/ Revoke \/ Readmit \/ Stop \/ Close
  PROVE  Steady
<1>1. TypeOK /\ RequestInv /\ WakeArmed
  BY DEF IInv
<1>2. UNCHANGED <<spoolVars, uploadVars, received, committed, stalled>>
  BY DEF Interval, Rebind, Revoke, Readmit, Stop, Close
<1>3. Shift /\ SpoolTypeOK' /\ Kept' = Kept
  BY <1>1, <1>2 DEF Shift, Kept, TypeOK, SpoolTypeOK, spoolVars
<1>4. /\ binding' \in 0..MaxBinding /\ active' \in BOOLEAN
      /\ active' => binding' \in Installation
  <2>1. CASE Rebind
    <3>1. binding' \in 1..MaxBinding
      BY <1>1, <2>1, SpoolAssumption DEF Rebind, TypeOK
    <3>2. binding' \in 0..MaxBinding
      BY <3>1, SpoolAssumption
    <3> QED
      BY <2>1, <3>1, <3>2 DEF Rebind, Installation
  <2>2. CASE UNCHANGED binding /\ (active' = active \/ active' = FALSE)
    <3>1. binding \in 0..MaxBinding /\ active \in BOOLEAN
      BY <1>1 DEF TypeOK
    <3>2. active => binding \in Installation
      BY <1>1 DEF RequestInv, ActiveBound
    <3>3. binding' = binding
      BY <2>2
    <3>4. CASE active' = active
      BY <3>1, <3>2, <3>3, <3>4
    <3>5. CASE active' = FALSE
      BY <3>1, <3>3, <3>5
    <3> QED
      BY <2>2, <3>4, <3>5
  <2>3. CASE Readmit
    <3>1. binding' = binding /\ binding \in 0..MaxBinding /\ binding # 0
      BY <1>1, <2>3 DEF Readmit, TypeOK
    <3>2. binding \in Installation
      BY <3>1, SpoolAssumption DEF Installation
    <3> QED
      BY <2>3, <3>1, <3>2 DEF Readmit
  <2> QED
    BY <2>1, <2>2, <2>3 DEF Interval, Revoke, Stop, Close, bindingVars
<1>5. RequestInv'
  BY <1>1, <1>2, <1>3, <1>4
     DEF RequestInv, ActiveBound, RequestPhase, OwnRequest, SafeRequest,
         spoolVars, uploadVars, NoRequest
<1>6. /\ service' \in ServiceState
      /\ pumpPending' \in BOOLEAN /\ pumpTimer' \in BOOLEAN
      /\ WakeArmed'
  <2>1. UNCHANGED <<rows, phase, stalled>>
    BY <1>2 DEF spoolVars, uploadVars
  <2>2. CASE Interval
    BY <1>1, <2>1, <2>2 DEF Interval, PumpRequest, TypeOK, WakeArmed
  <2>3. CASE Rebind \/ Revoke \/ Readmit
    BY <1>1, <2>1, <2>3 DEF Rebind, Revoke, Readmit, pumpVars, TypeOK, WakeArmed
  <2>4. CASE Stop \/ Close
    BY <1>1, <2>1, <2>4
       DEF Stop, Close, pumpVars, TypeOK, WakeArmed, ServiceState
  <2> QED
    BY <2>2, <2>3, <2>4
<1> QED
  BY <1>1, <1>2, <1>3, <1>4, <1>5, <1>6 DEF Steady, TypeOK, uploadVars

LEMMA HeartbeatQuarantineSteady ==
  ASSUME IInv, HeartbeatQuarantine
  PROVE  Steady
<1>1. TypeOK /\ RequestInv /\ WakeArmed
  BY DEF IInv
<1>2. /\ Quarantine
      /\ UNCHANGED <<uploadVars, pumpVars, bindingVars, service, received,
                     committed, stalled>>
  BY DEF HeartbeatQuarantine
<1>3. Shift /\ SpoolTypeOK' /\ rows \subseteq rows' \cup Kept'
  BY <1>1, <1>2, QuarantineShift
<1>4. RequestInv'
  BY <1>1, <1>2, <1>3
     DEF RequestInv, ActiveBound, RequestPhase, OwnRequest, SafeRequest,
         uploadVars, bindingVars, Shift
<1> QED
  BY <1>1, <1>2, <1>3, <1>4
     DEF Steady, TypeOK, WakeArmed, Shift, uploadVars, pumpVars, bindingVars

(* A process that starts or dies has no request in flight.                 *)
LEMMA FreshSteady ==
  ASSUME IInv, Shift, SpoolTypeOK',
         phase' = "idle", request' = NoRequest, healthy' = 0,
         service' = "down" \/ (service' = "up" /\ pumpPending' /\ pumpTimer'),
         pumpPending' \in BOOLEAN, pumpTimer' \in BOOLEAN,
         stalled' = FALSE,
         UNCHANGED <<binding, active, received, committed>>
  PROVE  Steady
<1>1. request' \in [installation : 0..MaxBinding, events : SUBSET Event]
  BY SpoolAssumption DEF NoRequest
<1>2. healthy' \in 0..MaxBinding
  BY SpoolAssumption
<1> QED
  BY <1>1, <1>2
     DEF Steady, IInv, TypeOK, WakeArmed, RequestInv, ActiveBound, RequestPhase,
         OwnRequest, SafeRequest, NoRequest, Phase, ServiceState

LEMMA StartSteady == ASSUME IInv, Start PROVE Steady
<1>1. CASE UNCHANGED spoolVars
  <2>1. Shift /\ SpoolTypeOK'
    BY <1>1 DEF Start, Started, Shift, Kept, IInv, TypeOK, SpoolTypeOK, spoolVars
  <2> QED
    BY <2>1, FreshSteady DEF Start, Started, bindingVars
<1>2. CASE Quarantine
  <2>1. Shift /\ SpoolTypeOK'
    BY <1>2, QuarantineShift DEF Start, Started, IInv
  <2> QED
    BY <2>1, FreshSteady DEF Start, Started, bindingVars
<1> QED
  BY <1>1, <1>2 DEF Start

(* Every crash point leaves a shift of custody behind: copies are made     *)
(* before rows are removed.                                                *)
LEMMA CrashSteady ==
  ASSUME IInv, Crash \/ CrashInQuarantine \/ CrashInOversized
  PROVE  Steady
<1>1. TypeOK
  BY DEF IInv
<1>2. Died
  BY DEF Crash, CrashInQuarantine, CrashInOversized
<1>3. CASE Crash
  <2>1. Shift /\ SpoolTypeOK'
    BY <1>1, <1>2, <1>3 DEF Crash, Died, Shift, Kept, TypeOK, SpoolTypeOK
  <2> QED
    BY <1>2, <2>1, FreshSteady DEF Died, bindingVars
<1>4. CASE CrashInQuarantine
  <2>1. Kept' = Kept \cup Foreign(binding) /\ Foreign(binding) \subseteq rows
    BY <1>2, <1>4 DEF CrashInQuarantine, Died, Kept, Foreign
  <2>2. Shift /\ SpoolTypeOK'
    BY <1>1, <1>2, <1>4, <2>1
       DEF CrashInQuarantine, Died, Shift, TypeOK, SpoolTypeOK
  <2> QED
    BY <1>2, <2>2, FreshSteady DEF Died, bindingVars
<1>5. CASE CrashInOversized
  <2>1. PICK h \in OwnRows :
          deadLetters' = DeadLettered({h}, "batch-event-too-large")
    BY <1>5 DEF CrashInOversized
  <2>2. /\ rows' = OwnRows /\ createdAt' = Stamps(OwnRows)
        /\ archive' = archive \cup Foreign(binding)
        /\ setAside' = setAside /\ lost' = lost
    BY <1>2, <1>5 DEF CrashInOversized, Died
  <2>3. OwnRows = rows \ Foreign(binding) /\ Foreign(binding) \subseteq rows
    BY DEF OwnRows, Foreign
  <2>4. Kept' = Kept \cup {h} \cup Foreign(binding)
    BY <1>1, <2>1, <2>2, <2>3 DEF Kept, DeadLettered, TypeOK, SpoolTypeOK
  <2>5. createdAt' \in [Event -> Nat] /\ deadLetters' \in [Event -> Reason]
    BY <1>1, <2>1, <2>2, TableTypes DEF Reason
  <2>6. Shift /\ SpoolTypeOK'
    BY <1>1, <1>2, <2>1, <2>2, <2>3, <2>4, <2>5
       DEF Died, Shift, TypeOK, SpoolTypeOK
  <2> QED
    BY <1>2, <2>6, FreshSteady DEF Died, bindingVars
<1> QED
  BY <1>3, <1>4, <1>5

LEMMA CrashInSettleSteady ==
  ASSUME IInv, NEW acks, NEW dead, NEW half, CrashInSettle(acks, dead, half)
  PROVE  Steady
<1>1. TypeOK /\ RequestInv
  BY DEF IInv
<1>2. /\ Died /\ archive' = archive
      /\ rows' = rows \ (acks \cup dead)
      /\ createdAt' = Stamps(rows \ (acks \cup dead))
      /\ deadLetters' = DeadLettered(dead \cup half, "rejected")
      /\ acks \subseteq ServerEvents(request.installation) \cap request.events
      /\ dead \cup half \subseteq request.events
  BY DEF CrashInSettle
<1>3. request.events \subseteq Event
  BY <1>1 DEF TypeOK
<1>4. acks \subseteq ReceivedByOwner
  BY <1>1, <1>2, <1>3
     DEF RequestInv, OwnRequest, ServerEvents, ReceivedByOwner
<1>5. Kept' = Kept \cup dead \cup half
  BY <1>1, <1>2, <1>3 DEF Died, Kept, DeadLettered, TypeOK, SpoolTypeOK
<1>6. Shift
  BY <1>1, <1>2, <1>4, <1>5 DEF Died, Shift, RequestInv, SafeRequest
<1>7. SpoolTypeOK'
  <2>1. createdAt' \in [Event -> Nat] /\ deadLetters' \in [Event -> Reason]
    BY <1>1, <1>2, TableTypes DEF Reason
  <2> QED
    BY <1>1, <1>2, <2>1 DEF Died, TypeOK, SpoolTypeOK
<1> QED
  BY <1>2, <1>6, <1>7, FreshSteady DEF Died, bindingVars

-----------------------------------------------------------------------------
(* The steps that are not shifts of custody.                               *)
LEMMA EnqueueInv ==
  ASSUME IInv, NEW S \in SUBSET Event, NEW t \in 0..MaxClock, Enqueue(S, t)
  PROVE  IInv' /\ Custody!Commit
<1>1. TypeOK /\ RequestInv /\ NoCrossBinding /\ NoLoss /\ WakeArmed
  BY DEF IInv
<1>2. /\ rows' = rows \cup S /\ createdAt' = StampsWith(S, t)
      /\ committed' = committed \cup S
      /\ PumpRequest
      /\ UNCHANGED <<deadLetters, archive, setAside, lost, phase, request,
                     healthy, binding, active, service, received, stalled>>
  BY DEF Enqueue, uploadVars, bindingVars
<1>3. Kept' = Kept /\ ReceivedByOwner' = ReceivedByOwner
  BY <1>2 DEF Kept, ReceivedByOwner
<1>4. createdAt' \in [Event -> Nat]
  BY <1>1, <1>2, DeliveryAssumption DEF StampsWith, TypeOK, SpoolTypeOK
<1>5. /\ pumpPending' \in BOOLEAN /\ pumpTimer' \in BOOLEAN
      /\ WakeArmed'
  BY <1>1, <1>2 DEF PumpRequest, pumpVars, TypeOK, WakeArmed
<1>6. TypeOK'
  BY <1>1, <1>2, <1>4, <1>5 DEF TypeOK, SpoolTypeOK
<1>7. RequestInv'
  BY <1>1, <1>2, <1>3
     DEF RequestInv, ActiveBound, RequestPhase, OwnRequest, SafeRequest, NoRequest
<1>8. NoCrossBinding' /\ NoLoss'
  BY <1>1, <1>2, <1>3 DEF NoCrossBinding, NoLoss
<1>9. Custody!Commit
  BY <1>1, <1>2, <1>3 DEF Custody!Commit, TypeOK, SpoolTypeOK
<1> QED
  BY <1>5, <1>6, <1>7, <1>8, <1>9 DEF IInv

LEMMA ServerReceiveInv ==
  ASSUME IInv, NEW S \in SUBSET request.events, ServerReceive(S)
  PROVE  IInv' /\ Custody!Receive
<1>1. TypeOK /\ RequestInv /\ NoCrossBinding /\ NoLoss /\ WakeArmed
  BY DEF IInv
<1>2. /\ received' = received \cup ({request.installation} \X S)
      /\ UNCHANGED <<rows, createdAt, deadLetters, archive, setAside, lost, phase,
                     request, healthy, pumpPending, pumpTimer, binding, active,
                     service, committed, stalled>>
  BY DEF ServerReceive, spoolVars, uploadVars, pumpVars, bindingVars
<1>3. request.installation \in Installation /\ S \subseteq Event
  BY <1>1 DEF ServerReceive, RequestInv, RequestPhase, TypeOK
<1>4. \A e \in S : Owner[e] = request.installation
  BY <1>1 DEF RequestInv, OwnRequest
<1>5. Kept' = Kept /\ ReceivedByOwner \subseteq ReceivedByOwner'
  BY <1>2 DEF Kept, ReceivedByOwner
<1>6. TypeOK'
  BY <1>1, <1>2, <1>3 DEF TypeOK, SpoolTypeOK
<1>7. RequestInv' /\ WakeArmed'
  BY <1>1, <1>2, <1>5
     DEF RequestInv, ActiveBound, RequestPhase, OwnRequest, SafeRequest,
         NoRequest, WakeArmed
<1>8. NoCrossBinding'
  BY <1>1, <1>2, <1>4 DEF NoCrossBinding
<1>9. NoLoss'
  BY <1>1, <1>2, <1>5 DEF NoLoss
<1>10. Custody!Receive
  <2>1. S \subseteq rows \cup Kept
    BY <1>1 DEF RequestInv, SafeRequest
  <2> QED
    BY <1>2, <1>3, <1>4, <1>5, <2>1 DEF Custody!Receive
<1> QED
  BY <1>6, <1>7, <1>8, <1>9, <1>10 DEF IInv

(* A damaged database: what it held is set aside or, for the part that its *)
(* log alone held, lost.  No request is in flight.                         *)
LEMMA StartCorruptInv ==
  ASSUME IInv, NEW inLog, StartCorrupt(inLog)
  PROVE  IInv' /\ Custody!Damage
<1>1. TypeOK /\ RequestInv /\ NoCrossBinding /\ NoLoss
  BY DEF IInv
<1>2. /\ setAside = {} /\ lost = {} /\ inLog \subseteq Stored
      /\ setAside' = Stored \ inLog /\ lost' = inLog
      /\ rows' = {} /\ createdAt' = Stamps({})
      /\ deadLetters' = [e \in Event |-> "none"] /\ archive' = archive
      /\ service' = "up" /\ phase' = "idle" /\ request' = NoRequest
      /\ healthy' = 0 /\ pumpPending' = TRUE /\ pumpTimer' = TRUE
      /\ stalled' = FALSE
      /\ UNCHANGED <<binding, active, received, committed>>
  BY DEF StartCorrupt, Started, bindingVars
<1>3. Stored \subseteq Event /\ rows \cup Kept = Stored \cup archive
  BY <1>1, <1>2 DEF Stored, Kept, TypeOK, SpoolTypeOK
<1>4. Kept' = archive \cup (Stored \ inLog)
  BY <1>2 DEF Kept
<1>5. TypeOK'
  <2>1. SpoolTypeOK'
    <3>1. createdAt' \in [Event -> Nat]
      BY <1>1, <1>2, TableTypes DEF Reason
    <3> QED
      BY <1>1, <1>2, <1>3, <3>1 DEF TypeOK, SpoolTypeOK, Reason
  <2>2. request' \in [installation : 0..MaxBinding, events : SUBSET Event]
    BY <1>2, SpoolAssumption DEF NoRequest
  <2>3. healthy' \in 0..MaxBinding
    BY <1>2, SpoolAssumption
  <2> QED
    BY <1>1, <1>2, <2>1, <2>2, <2>3 DEF TypeOK, ServiceState, Phase
<1>6. RequestInv' /\ WakeArmed'
  BY <1>1, <1>2
     DEF RequestInv, ActiveBound, RequestPhase, OwnRequest, SafeRequest,
         NoRequest, WakeArmed
<1>7. NoCrossBinding' /\ NoLoss'
  <2>1. ReceivedByOwner' = ReceivedByOwner
    BY <1>2 DEF ReceivedByOwner
  <2> QED
    BY <1>1, <1>2, <1>3, <1>4, <2>1 DEF NoCrossBinding, NoLoss
<1>8. Custody!Damage
  BY <1>2, <1>3, <1>4 DEF Custody!Damage
<1> QED
  BY <1>5, <1>6, <1>7, <1>8 DEF IInv

-----------------------------------------------------------------------------
(* A shift preserves what the server and the history say, and is a disposal*)
(* of the abstract specification.                                          *)
LEMMA SteadyInv ==
  ASSUME IInv, Steady
  PROVE  IInv' /\ Custody!Dispose
<1>1. Shift /\ UNCHANGED <<received, committed>>
  BY DEF Steady, Shift
<1>2. ReceivedByOwner' = ReceivedByOwner
  BY <1>1 DEF ReceivedByOwner
<1>3. NoCrossBinding' /\ NoLoss'
  BY <1>1, <1>2 DEF IInv, NoCrossBinding, NoLoss, Shift
<1>4. Custody!ReceivedEvents = ReceivedByOwner
  BY DEF Custody!ReceivedEvents, ReceivedByOwner
<1>5. Custody!Dispose
  BY <1>1, <1>4 DEF Custody!Dispose, Shift
<1> QED
  BY <1>3, <1>5 DEF IInv, Steady

LEMMA NextInv == ASSUME IInv, Next PROVE IInv' /\ Custody!Next
<1>1. ASSUME NEW S \in SUBSET Event, NEW t \in 0..MaxClock, Enqueue(S, t)
      PROVE  IInv' /\ Custody!Next
  BY <1>1, EnqueueInv DEF Custody!Next
<1>2. ASSUME NEW S \in SUBSET request.events, ServerReceive(S)
      PROVE  IInv' /\ Custody!Next
  BY <1>2, ServerReceiveInv DEF Custody!Next
<1>3. ASSUME Steady PROVE IInv' /\ Custody!Next
  BY <1>3, SteadyInv DEF Custody!Next
<1>4. CASE Interval \/ Rebind \/ Revoke \/ Readmit \/ Stop \/ Close
  BY <1>3, <1>4, IdleSteady
<1>5. CASE Wake
  BY <1>3, <1>5, WakeSteady
<1>6. CASE LastDrain
  BY <1>3, <1>6, LastDrainSteady
<1>7. CASE HeartbeatQuarantine
  BY <1>3, <1>7, HeartbeatQuarantineSteady
<1>8. ASSUME NEW acks, NEW rejects, SettleAnswer(acks, rejects)
      PROVE  IInv' /\ Custody!Next
  BY <1>3, <1>8, SettleAnswerSteady
<1>9. CASE SettleRefused \/ SettleRetry \/ BackoffOver
  BY <1>3, <1>9, FlightSteady
<1>10. CASE Start
  BY <1>3, <1>10, StartSteady
<1>11. ASSUME NEW inLog, StartCorrupt(inLog) PROVE IInv' /\ Custody!Next
  BY <1>11, StartCorruptInv DEF Custody!Next
<1>12. CASE Crash \/ CrashInQuarantine \/ CrashInOversized
  BY <1>3, <1>12, CrashSteady
<1>13. ASSUME NEW acks, NEW dead, NEW half, CrashInSettle(acks, dead, half)
       PROVE  IInv' /\ Custody!Next
  BY <1>3, <1>13, CrashInSettleSteady
<1> QED
  BY <1>1, <1>2, <1>4, <1>5, <1>6, <1>7, <1>8, <1>9, <1>10, <1>11, <1>12, <1>13
     DEF Next

LEMMA StutterInv ==
  ASSUME IInv, UNCHANGED vars
  PROVE  IInv' /\ UNCHANGED Custody!vars
<1>1. UNCHANGED <<spoolVars, uploadVars, pumpVars, bindingVars, service, received,
                  committed, stalled>>
  BY DEF vars
<1>2. /\ Kept' = Kept /\ ReceivedByOwner' = ReceivedByOwner
      /\ rows' = rows /\ received' = received /\ lost' = lost
  BY <1>1 DEF Kept, ReceivedByOwner, spoolVars
<1>3. TypeOK' /\ RequestInv'
  BY <1>1, <1>2
     DEF IInv, TypeOK, SpoolTypeOK, RequestInv, ActiveBound, RequestPhase,
         OwnRequest, SafeRequest, spoolVars, uploadVars, pumpVars, bindingVars,
         NoRequest
<1>4. NoCrossBinding' /\ NoLoss' /\ WakeArmed'
  BY <1>1, <1>2
     DEF IInv, NoCrossBinding, NoLoss, WakeArmed, spoolVars, uploadVars, pumpVars
<1> QED
  BY <1>2, <1>3, <1>4 DEF IInv, Custody!vars

-----------------------------------------------------------------------------
(* The invariant holds in every reachable state.                           *)
THEOREM Invariance == Spec => []IInv
<1>1. IInv /\ [Next]_vars => IInv'
  BY NextInv, StutterInv
<1> QED
  BY InitInv, <1>1, PTL DEF Spec

(* Every variable keeps its type.                                          *)
THEOREM TypeCorrect == Spec => []TypeOK
<1>1. IInv => TypeOK
  BY DEF IInv
<1> QED
  BY Invariance, <1>1, PTL

(* No committed event is ever lost, at any crash point (Delivery!NoLoss).  *)
THEOREM NothingLost == Spec => []NoLoss
<1>1. IInv => NoLoss
  BY DEF IInv
<1> QED
  BY Invariance, <1>1, PTL

(* No account receives another binding's events, however the bindings,     *)
(* requests and quarantines interleave (Delivery!NoCrossBinding).          *)
THEOREM BindingsSeparate == Spec => []NoCrossBinding
<1>1. IInv => NoCrossBinding
  BY DEF IInv
<1> QED
  BY Invariance, <1>1, PTL

(* No upload request is dropped by the pump (Delivery!WakeArmed).          *)
THEOREM NoLostWake == Spec => []WakeArmed
<1>1. IInv => WakeArmed
  BY DEF IInv
<1> QED
  BY Invariance, <1>1, PTL

(* The delivery path implements at-least-once custody (EventCustody).      *)
THEOREM Implementation == Spec => CustodySpec
<1>1. Init => Custody!Init
  BY DEF Init, SpoolInit, Custody!Init, Kept
<1>2. IInv /\ [Next]_vars => [Custody!Next]_(Custody!vars)
  BY NextInv, StutterInv
<1> QED
  BY Invariance, <1>1, <1>2, PTL DEF Spec, CustodySpec, Custody!Spec
=============================================================================
