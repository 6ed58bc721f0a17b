------------------------------ MODULE Delivery ------------------------------
(***************************************************************************)
(* The telemetry delivery path of the OpenClaw collector: hooks commit     *)
(* events to the spool and request a wake (adapters/openclaw/plugin.js);   *)
(* the upload pump turns requests into one upload at a time                *)
(* (delivery/upload-pump.js); the uploader sends a batch signed by the     *)
(* current credential and settles the answer (delivery/uploader.js); a new *)
(* binding quarantines what the previous one left; the process may crash   *)
(* between any two of its durable writes.                                  *)
(*                                                                         *)
(* JavaScript runs to completion between awaits, so a synchronous section  *)
(* is one action; the Crash actions cut such a section after each of its   *)
(* durable commits.  credentialProvider.current() resolves from memory, so *)
(* no other handler runs between it and the section it starts.  In that    *)
(* section the loop over rows of other installations (uploader.js:47-49)   *)
(* finds none: quarantineOtherInstallations has just removed them.         *)
(***************************************************************************)
EXTENDS Spool

CONSTANTS
  MaxClock,     \* bound: distinct created_at values told apart
  Replay        \* bound: whether an event that left the queue may be
                \* emitted again (hooks and agent events repeat event ids)

ASSUME DeliveryAssumption == MaxClock \in Nat /\ Replay \in BOOLEAN

VARIABLES
  binding,      \* installationId of the credential, 0 before the first
  active,       \* credential.status = "active"
  service,      \* the collector service, see ServiceState
  phase,        \* the upload in flight, see Phase
  request,      \* installation and events of the request in flight
  healthy,      \* healthyInstallation: whose health was accepted, 0 = null
  pumpPending,  \* upload-pump "pending"
  pumpTimer,    \* upload-pump "timer" is set
  received,     \* the server: <<i, e>> when e was accepted from account i
  committed,    \* history: every event an enqueue transaction committed
  stalled       \* history: the last attempt brought no acknowledgement

uploadVars == <<phase, request, healthy>>
pumpVars == <<pumpPending, pumpTimer>>
bindingVars == <<binding, active>>
vars == <<spoolVars, uploadVars, pumpVars, bindingVars, service, received,
          committed, stalled>>

(* "stopping": stop() waits for the pump's flight; "draining": it has      *)
(* started its last uploader.drain.                                        *)
ServiceState == {"down", "up", "stopping", "draining"}

(* "fetching": from fetch to the parsed answer; "sleeping": the back-off   *)
(* that drain waits even after its only attempt.                           *)
Phase == {"idle", "fetching", "sleeping"}

NoRequest == [installation |-> 0, events |-> {}]

TypeOK ==
  /\ SpoolTypeOK
  /\ binding \in 0..MaxBinding
  /\ active \in BOOLEAN
  /\ service \in ServiceState
  /\ phase \in Phase
  /\ request \in [installation : 0..MaxBinding, events : SUBSET Event]
  /\ healthy \in 0..MaxBinding
  /\ pumpPending \in BOOLEAN
  /\ pumpTimer \in BOOLEAN
  /\ received \subseteq Installation \X Event
  /\ committed \subseteq Event
  /\ stalled \in BOOLEAN

Init ==
  /\ SpoolInit
  /\ binding = 0 /\ active = FALSE
  /\ service = "down"
  /\ phase = "idle" /\ request = NoRequest /\ healthy = 0
  /\ pumpPending = FALSE /\ pumpTimer = FALSE
  /\ received = {} /\ committed = {} /\ stalled = FALSE

-----------------------------------------------------------------------------
(* A definition that precedes the one it resembles and that no action uses *)
(* is a plausible defect of it; the properties below must detect them.     *)

(* The rows an upload or a restart finds once foreign rows are archived.   *)
OwnRows == rows \ Foreign(binding)

PrioritizeHealthFor == IF healthy = binding THEN 0 ELSE binding

Batch == Pending(OwnRows, MaxBatch, PrioritizeHealthFor)

Oversized == MapThenSumSet(LAMBDA e : Size[e], Batch) > MaxBodyBytes

(* h is pending[0] of the batch that performSend has just read.            *)
BatchHead(h) == IsFirst(h, Batch, PrioritizeHealthFor)

(* quarantineOtherInstallations(binding), both of its transactions.        *)
Quarantine ==
  /\ archive' = archive \cup Foreign(binding)
  /\ rows' = OwnRows
  /\ createdAt' = Stamps(OwnRows)
  /\ UNCHANGED <<deadLetters, setAside, lost>>

(* What the server has received from account i.                            *)
ServerEvents(i) == {e \in Event : <<i, e>> \in received}

ReceivedByOwner == {e \in Event : <<Owner[e], e>> \in received}

-----------------------------------------------------------------------------
(* The pump.  schedule() arms the timer unless stopped or a flight is out. *)
PumpRequest ==
  IF service = "up"
  THEN pumpPending' = TRUE /\ pumpTimer' = (pumpTimer \/ phase = "idle")
  ELSE UNCHANGED pumpVars

FlightForgotten(sent) ==
  /\ phase' = "idle"
  /\ request' = NoRequest
  /\ stalled' = (sent = {})
  /\ UNCHANGED pumpVars

(* The flight's then/finally: an acknowledged backlog asks for another     *)
(* round, and whatever is pending is scheduled.                            *)
FlightOver(sent) ==
  /\ phase' = "idle"
  /\ request' = NoRequest
  /\ stalled' = (sent = {})
  /\ LET more == pumpPending \/ (sent # {} /\ rows' # {})
     IN  IF service = "up"
         THEN pumpPending' = more /\ pumpTimer' = more
         ELSE UNCHANGED pumpVars

(* performSend up to its fetch, in the order of its early returns.         *)
SendDisabled ==
  /\ ~active
  /\ stalled' = TRUE
  /\ UNCHANGED <<spoolVars, phase, request>>

SendNothing ==
  /\ active
  /\ OwnRows = {}
  /\ Quarantine
  /\ stalled' = TRUE
  /\ UNCHANGED <<phase, request>>

SendOversized ==
  /\ active
  /\ Oversized
  /\ \E h \in OwnRows :
       /\ BatchHead(h)
       /\ rows' = OwnRows \ {h}
       /\ createdAt' = Stamps(OwnRows \ {h})
       /\ deadLetters' = DeadLettered({h}, "batch-event-too-large")
  /\ archive' = archive \cup Foreign(binding)
  /\ stalled' = TRUE
  /\ UNCHANGED <<setAside, lost, phase, request>>

SendBatch ==
  /\ active
  /\ OwnRows # {}
  /\ ~Oversized
  /\ Quarantine
  /\ phase' = "fetching"
  /\ request' = [installation |-> binding, events |-> Batch]
  /\ UNCHANGED stalled

PerformSend ==
  /\ phase = "idle"
  /\ SendDisabled \/ SendNothing \/ SendOversized \/ SendBatch
  /\ UNCHANGED <<healthy, bindingVars, received, committed>>

(* The pump's timer fires: drain() clears pending and starts the upload.   *)
Wake ==
  /\ service = "up"
  /\ pumpTimer
  /\ pumpPending' = FALSE
  /\ pumpTimer' = FALSE
  /\ PerformSend
  /\ UNCHANGED service

NoInterval == FALSE /\ UNCHANGED vars

(* The five-second uploadTimer, or any caller of request().                *)
Interval ==
  /\ service = "up"
  /\ PumpRequest
  /\ UNCHANGED <<spoolVars, uploadVars, bindingVars, service, received,
                 committed, stalled>>

-----------------------------------------------------------------------------
(* enqueueAcceptedEvents: one transaction for the batch, then a wake; a    *)
(* batch the quota refuses leaves no trace here.  An event is stamped with *)
(* an installation known when its envelope was made, perhaps an earlier    *)
(* one than the current.                                                   *)
Enqueue(S, t) ==
  /\ service \in {"up", "stopping", "draining"}
  /\ S # {}
  /\ \A e \in S : Owner[e] <= binding
  /\ \A e \in rows : createdAt[e] <= t
  /\ Replay \/ S \cap committed \subseteq rows
  /\ WithinQuota(S)
  /\ rows' = rows \cup S
  /\ createdAt' = StampsWith(S, t)
  /\ committed' = committed \cup S
  /\ PumpRequest
  /\ UNCHANGED <<deadLetters, archive, setAside, lost, uploadVars, bindingVars,
                 service, received, stalled>>

(* The heartbeat, before it persists its own event.  Its supervisor is     *)
(* stopped after the pump.                                                 *)
HeartbeatQuarantine ==
  /\ service \in {"up", "stopping"}
  /\ active
  /\ Foreign(binding) # {}
  /\ Quarantine
  /\ UNCHANGED <<uploadVars, pumpVars, bindingVars, service, received,
                 committed, stalled>>

-----------------------------------------------------------------------------
(* The server may take any part of the request in flight, whatever the     *)
(* client learns of it.                                                    *)
ServerReceive(S) ==
  /\ phase = "fetching"
  /\ S \subseteq request.events
  /\ received' = received \cup ({request.installation} \X S)
  /\ UNCHANGED <<spoolVars, uploadVars, pumpVars, bindingVars, service,
                 committed, stalled>>

SettleUnread(acks, rejects) ==
  /\ phase = "fetching"
  /\ acks = request.events /\ rejects = {}
  /\ rows' = rows \ acks
  /\ createdAt' = Stamps(rows \ acks)
  /\ FlightOver(acks)
  /\ UNCHANGED <<deadLetters, archive, setAside, lost, healthy, bindingVars,
                 service, received, committed>>

(* A parsed 2xx answer: acks are events the server has received, acks and  *)
(* rejects may name events of earlier requests and are filtered by sentIds.*)
(* The acknowledge transaction comes first, then the dead letters.         *)
SettleAnswer(acks, rejects) ==
  /\ phase = "fetching"
  /\ acks \subseteq ServerEvents(request.installation)
  /\ rejects \subseteq request.events \cup ServerEvents(request.installation)
  /\ LET sent == acks \cap request.events
         dead == rejects \cap request.events
     IN  /\ rows' = rows \ (sent \cup dead)
         /\ createdAt' = Stamps(rows \ (sent \cup dead))
         /\ deadLetters' = DeadLettered(dead, "rejected")
         /\ healthy' = IF sent \cap Health # {}
                       THEN request.installation ELSE healthy
         /\ FlightOver(sent)
  /\ UNCHANGED <<archive, setAside, lost, bindingVars, service, received,
                 committed>>

(* 401, 403, another status that is not ok, or an answer that cannot be    *)
(* read: the attempt ends without back-off.                                *)
SettleRefused ==
  /\ phase = "fetching"
  /\ rows' = rows
  /\ FlightOver({})
  /\ UNCHANGED <<createdAt, deadLetters, archive, setAside, lost, healthy,
                 bindingVars, service, received, committed>>

(* A failed or timed-out fetch, 429 or 5xx: drain sleeps before it ends.   *)
SettleRetry ==
  /\ phase = "fetching"
  /\ phase' = "sleeping"
  /\ UNCHANGED <<spoolVars, request, healthy, pumpVars, bindingVars, service,
                 received, committed, stalled>>

BackoffOver ==
  /\ phase = "sleeping"
  /\ rows' = rows
  /\ FlightOver({})
  /\ UNCHANGED <<createdAt, deadLetters, archive, setAside, lost, healthy,
                 bindingVars, service, received, committed>>

-----------------------------------------------------------------------------
(* Device authorization approved a fresh installation and the heartbeat    *)
(* adopts its credential file.                                             *)
Rebind ==
  /\ binding < MaxBinding
  /\ binding' = binding + 1
  /\ active' = TRUE
  /\ UNCHANGED <<spoolVars, uploadVars, pumpVars, service, received,
                 committed, stalled>>

(* The credential is revoked, or an enrollment started over it fails.      *)
Revoke ==
  /\ active
  /\ active' = FALSE
  /\ UNCHANGED <<spoolVars, uploadVars, pumpVars, binding, service, received,
                 committed, stalled>>

(* The credential file of the same installation is loaded again.           *)
Readmit ==
  /\ binding # 0
  /\ ~active
  /\ active' = TRUE
  /\ UNCHANGED <<spoolVars, uploadVars, pumpVars, binding, service, received,
                 committed, stalled>>

(* Service start: openSpool quarantines only for an active credential      *)
(* (auth.credential() is null otherwise); the pump gets its first request. *)
Started ==
  /\ service = "down"
  /\ service' = "up"
  /\ phase' = "idle" /\ request' = NoRequest /\ healthy' = 0
  /\ pumpPending' = TRUE /\ pumpTimer' = TRUE
  /\ stalled' = FALSE
  /\ UNCHANGED <<bindingVars, received, committed>>

Start ==
  /\ Started
  /\ IF active THEN Quarantine ELSE UNCHANGED spoolVars

(* initialize throws, or its integrity check fails: the database, dead     *)
(* letters included, is renamed and an empty one takes its place.  The     *)
(* rename leaves the write-ahead log behind.  A check that fails has       *)
(* closed the database, which moves the log into it (inLog = {}); any      *)
(* other error has not, and SQLite drops a log it finds beside an empty    *)
(* file, with what it alone held.  Bounded to one such file.               *)
StartCorrupt(inLog) ==
  /\ Started
  /\ setAside \cup lost = {}
  /\ inLog \subseteq Stored
  /\ setAside' = Stored \ inLog
  /\ lost' = inLog
  /\ rows' = {}
  /\ createdAt' = Stamps({})
  /\ deadLetters' = [e \in Event |-> "none"]
  /\ UNCHANGED archive

(* Service stop: the pump stops and its flight is awaited, one last drain  *)
(* runs, the spool is closed.                                              *)
Stop ==
  /\ service = "up"
  /\ service' = "stopping"
  /\ pumpPending' = FALSE /\ pumpTimer' = FALSE
  /\ UNCHANGED <<spoolVars, uploadVars, bindingVars, received, committed,
                 stalled>>

LastDrain ==
  /\ service = "stopping"
  /\ service' = "draining"
  /\ PerformSend
  /\ UNCHANGED pumpVars

Close ==
  /\ service = "draining"
  /\ phase = "idle"
  /\ service' = "down"
  /\ UNCHANGED <<spoolVars, uploadVars, pumpVars, bindingVars, received,
                 committed, stalled>>

-----------------------------------------------------------------------------
(* The process dies: memory is lost, what was committed stays.             *)
Died ==
  /\ service' = "down"
  /\ phase' = "idle" /\ request' = NoRequest /\ healthy' = 0
  /\ pumpPending' = FALSE /\ pumpTimer' = FALSE
  /\ stalled' = FALSE
  /\ UNCHANGED <<bindingVars, received, committed, setAside, lost>>

Crash ==
  /\ service # "down"
  /\ Died
  /\ UNCHANGED <<rows, createdAt, deadLetters, archive>>

CrashDeletedFirst ==
  /\ service # "draining"
  /\ active
  /\ Foreign(binding) # {}
  /\ Died
  /\ rows' = OwnRows
  /\ createdAt' = Stamps(OwnRows)
  /\ UNCHANGED <<deadLetters, archive>>

(* After the archive's commit and before the live rows are deleted, in     *)
(* openSpool, in a heartbeat or in an upload.                              *)
CrashInQuarantine ==
  /\ service # "draining"
  /\ active
  /\ Foreign(binding) # {}
  /\ Died
  /\ archive' = archive \cup Foreign(binding)
  /\ UNCHANGED <<rows, createdAt, deadLetters>>

(* Between the two statements of deadLetter in an oversized upload.        *)
CrashInOversized ==
  /\ service \in {"up", "stopping"}
  /\ phase = "idle"
  /\ active
  /\ Oversized
  /\ Died
  /\ archive' = archive \cup Foreign(binding)
  /\ rows' = OwnRows
  /\ createdAt' = Stamps(OwnRows)
  /\ \E h \in OwnRows :
       /\ BatchHead(h)
       /\ deadLetters' = DeadLettered({h}, "batch-event-too-large")

(* In the settlement of an answer: the acknowledge transaction may be      *)
(* done, some rejected events are dead letters and gone, one may be a dead *)
(* letter that is still queued.                                            *)
CrashInSettle(acks, dead, half) ==
  /\ phase = "fetching"
  /\ acks \subseteq ServerEvents(request.installation) \cap request.events
  /\ dead \cup half \subseteq request.events
  /\ Cardinality(half) <= 1
  /\ Died
  /\ rows' = rows \ (acks \cup dead)
  /\ createdAt' = Stamps(rows \ (acks \cup dead))
  /\ deadLetters' = DeadLettered(dead \cup half, "rejected")
  /\ UNCHANGED archive

-----------------------------------------------------------------------------
Next ==
  \/ \E S \in SUBSET Event, t \in 0..MaxClock : Enqueue(S, t)
  \/ Interval
  \/ Wake
  \/ HeartbeatQuarantine
  \/ \E S \in SUBSET request.events : ServerReceive(S)
  \/ \E acks \in SUBSET (request.events
                           \cup ServerEvents(request.installation)),
        rejects \in SUBSET (request.events
                              \cup ServerEvents(request.installation)) :
       SettleAnswer(acks, rejects)
  \/ SettleRefused
  \/ SettleRetry
  \/ BackoffOver
  \/ Rebind
  \/ Revoke
  \/ Readmit
  \/ Start
  \/ \E inLog \in SUBSET Stored : StartCorrupt(inLog)
  \/ Stop
  \/ LastDrain
  \/ Close
  \/ Crash
  \/ CrashInQuarantine
  \/ CrashInOversized
  \/ \E acks \in SUBSET request.events, dead \in SUBSET request.events,
        half \in SUBSET request.events :
       CrashInSettle(acks, dead, half)

Spec == Init /\ [][Next]_vars

-----------------------------------------------------------------------------
(* Safety.                                                                 *)

(* An event whose enqueue transaction committed is never lost: it waits in *)
(* the spool, or its own account has received it, or a durable copy of it  *)
(* is kept.  Holds through crashes between any two commits of an upload    *)
(* (spool.js:161-201 promises it of the quarantine alone).  The one        *)
(* exception: what only the log of a damaged database held (StartCorrupt). *)
NoLoss == committed \subseteq rows \cup Kept \cup ReceivedByOwner \cup lost

(* No account ever receives an event of another one, although rows of the  *)
(* previous binding may be queued, or in flight, when the binding changes  *)
(* ("Never replay the deleted binding's backlog", uploader.js:46).         *)
NoCrossBinding == \A i \in Installation, e \in Event :
  <<i, e>> \in received => Owner[e] = i

(* No wake is lost: while the service runs and rows wait, either a request *)
(* is pending (and then its timer is set or a flight will reschedule it),  *)
(* or an upload is under way, or the last one made no progress, which is   *)
(* what the five-second timer is for (upload-pump.js:4-12).                *)
WakeArmed == service = "up" =>
  /\ pumpPending => pumpTimer \/ phase # "idle"
  /\ rows # {} => pumpPending \/ phase # "idle" \/ stalled

(* The dead letter "batch-event-too-large" is for an event that cannot be  *)
(* sent in any request.  Not so: see run oversized.                        *)
OversizedAlone == \A e \in Event :
  deadLetters[e] = "batch-event-too-large" => Size[e] > MaxBodyBytes

(* The delivery path implements the custody of committed events.           *)
Custody == INSTANCE EventCustody WITH
  Account <- Installation, queued <- rows, received <- received, kept <- Kept,
  lost <- lost

CustodySpec == Custody!Spec

-----------------------------------------------------------------------------
(* Liveness.  Timers fire, and AbortSignal.timeout ends every fetch.       *)
Fairness ==
  /\ WF_vars(Wake)
  /\ WF_vars(Interval)
  /\ WF_vars(SettleRetry)
  /\ WF_vars(BackoffOver)

FairSpec == Spec /\ Fairness

(* What the properties suppose of the rest of the world: from some time on *)
(* the service runs with an active credential, and of the requests it      *)
(* sends again and again one is received and its answer arrives.           *)
Settled == <>[](service = "up" /\ active)

TakeAll == request.events # {} /\ ServerReceive(request.events)
AnswerAll == request.events # {} /\ SettleAnswer(request.events, {})

HealthSent == request.events \cap Health
TakeHealth == HealthSent # {} /\ ServerReceive(HealthSent)
AnswerHealth == HealthSent # {} /\ SettleAnswer(HealthSent, {})

(* Every row leaves the queue, whatever else is queued, refused or retried.*)
Drains ==
  Settled /\ SF_vars(TakeAll) /\ SF_vars(AnswerAll) =>
    \A e \in Event : []<>(e \notin rows)

(* A server that takes nothing but health snapshots still gets one of the  *)
(* current binding: no backlog hides the first heartbeat (spool.js:244-247 *)
(* and uploader.js:54-56).                                                 *)
HealthGetsThrough ==
  Settled /\ SF_vars(TakeHealth) /\ SF_vars(AnswerHealth) =>
    \A e \in Health :
      []<>(healthy = binding \/ e \notin rows \/ Owner[e] # binding)
=============================================================================
