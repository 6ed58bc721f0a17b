---------------------------- MODULE ServiceProofs ----------------------------
(***************************************************************************)
(* Proofs about the collector service and its heartbeat, for any number of *)
(* starts, stops and failures.                                             *)
(*                                                                         *)
(* The composed specification implements the heartbeat's own, and with it  *)
(* every supervisor is supervised, ready only when fresh, silent once      *)
(* stopped, and hears each request.  A supervisor is started once, after   *)
(* being untouched (Unborn), so what its flight has left of healthy,       *)
(* lastOk and overdue is its own (Fresh); and a request that arrives in a  *)
(* flight is remembered until its end (Remembered).                        *)
(*                                                                         *)
(* The service is whole, and a stop is final.  What runs is what the       *)
(* service holds, but for the part whose stop a teardown awaits (Owned);   *)
(* a teardown has given up all that it passed, a start at a given await    *)
(* has created what precedes it (StartStaged, StopStaged), and between the *)
(* two there is everything or nothing (Between).  The numbers of starts    *)
(* and of supervisors follow from the calls and the faults (Counted,       *)
(* Roomy).                                                                 *)
(***************************************************************************)
EXTENDS ServiceHeartbeat, TLAPS

(* The supervisors that are not created yet are as at the beginning.       *)
Unborn ==
  \A s \in Supervisor : s > last =>
    stopped[s] /\ ~Flying(s) /\ ~healthy[s] /\ ~unseen[s]

Fresh ==
  \A s \in Supervisor : ~stopped[s] /\ healthy[s] => lastOk[s] /\ ~overdue[s]

(* The request is not lost with the end of the flight it arrived in.       *)
Remembered ==
  \A s \in Supervisor : unseen[s] /\ ~stopped[s] /\ Flying(s) => requested[s]

HeartInv ==
  /\ TypeOK
  /\ Unborn
  /\ Supervised
  /\ Fresh
  /\ Remembered
  /\ RequestHeard
  /\ BeatOfTheLiving

-----------------------------------------------------------------------------
LEMMA HeartInit == Init => HeartInv
<1> SUFFICES ASSUME Init PROVE HeartInv
  OBVIOUS
<1>1. TypeOK
  <2>1. timer \in [Supervisor -> Schedule] /\ flight \in [Supervisor -> Stage]
    BY DEF Init, Each, Schedule, Stage
  <2>2. state \in [Supervisor -> State]
    BY DEF Init, Each, State
  <2>3. last \in 0..MaxStarts /\ beat \in 0..MaxStarts
        /\ failures \in [Supervisor -> 0..MaxFailures]
    BY HeartbeatAssumption DEF Init, Each
  <2> QED
    BY <2>1, <2>2, <2>3 DEF Init, TypeOK, Each
<1>2. Unborn /\ Supervised /\ Fresh /\ Remembered /\ RequestHeard
  BY DEF Init, Unborn, Supervised, Fresh, Remembered, RequestHeard, Each, Flying
<1>3. BeatOfTheLiving
  BY DEF Init, BeatOfTheLiving
<1> QED
  BY <1>1, <1>2, <1>3 DEF HeartInv

(* A flight that begins: the request is being served.                      *)
LEMMA BeginInv ==
  ASSUME HeartInv, NEW s \in Supervisor, Begin(s), beat' = 0,
         last' \in last..MaxStarts, s <= last',
         stopped' = [stopped EXCEPT ![s] = FALSE],
         stopped[s] => ~healthy[s],
         UNCHANGED <<failures, healthy, requested, spoolOpen, lastOk>>,
         ~stopped[s] => lastOk[s] \/ ~healthy[s]
  PROVE  HeartInv'
<1> USE HeartbeatAssumption DEF HeartInv
<1>1. TypeOK'
  BY DEF Begin, TypeOK, Schedule, Stage, State
<1>2. Unborn' /\ BeatOfTheLiving'
  BY DEF Begin, TypeOK, Unborn, BeatOfTheLiving, Flying, Supervisor
<1>3. Supervised' /\ Fresh'
  BY DEF Begin, TypeOK, Supervised, Fresh, Flying
<1>4. Remembered' /\ RequestHeard'
  BY DEF Begin, TypeOK, Remembered, RequestHeard, Flying
<1> QED
  BY <1>1, <1>2, <1>3, <1>4

(* A flight that ends, with whatever outcome.                              *)
LEMMA EndedInv ==
  ASSUME HeartInv, NEW s \in Supervisor, Flying(s), NEW next \in State,
         next # "stopped",
         (Succeeded(s) /\ next = "ready") \/ Failed(s, next),
         beat' \in {0, s}, beat' = s => ~stopped[s] /\ spoolOpen
  PROVE  HeartInv'
<1> USE HeartbeatAssumption DEF HeartInv
<1>1. Ended(s, next)
  BY DEF Succeeded, Failed
<1>2. TypeOK'
  <2>1. failures' \in [Supervisor -> 0..MaxFailures]
    BY HeartbeatAssumption DEF Succeeded, Failed, TypeOK
  <2>2. healthy' \in [Supervisor -> BOOLEAN] /\ lastOk' \in [Supervisor -> BOOLEAN]
    BY DEF Succeeded, Failed, TypeOK
  <2>3. requested' \in [Supervisor -> BOOLEAN]
    BY <1>1 DEF Ended, TypeOK
  <2>4. beat' \in 0..MaxStarts
    BY DEF TypeOK, Supervisor
  <2>5. timer' \in [Supervisor -> Schedule] /\ flight' \in [Supervisor -> Stage]
    BY <1>1 DEF Ended, TypeOK, Schedule, Stage
  <2>6. state' \in [Supervisor -> State]
    BY <1>1 DEF Ended, TypeOK
  <2> QED
    BY <1>1, <2>1, <2>2, <2>3, <2>4, <2>5, <2>6 DEF Ended, TypeOK
<1>3. s <= last
  BY DEF Unborn, TypeOK, Supervisor
<1>4. Unborn' /\ BeatOfTheLiving'
  BY <1>1, <1>3
     DEF Succeeded, Failed, Ended, TypeOK, Unborn, BeatOfTheLiving, Flying
<1>5. Supervised'
  BY <1>1 DEF Ended, TypeOK, Supervised, Flying
<1>6. Fresh'
  BY <1>1 DEF Succeeded, Failed, Ended, TypeOK, Fresh
<1>7. Remembered' /\ RequestHeard'
  BY <1>1 DEF Ended, TypeOK, Remembered, RequestHeard, Supervised, Flying
<1> QED
  BY <1>2, <1>4, <1>5, <1>6, <1>7

LEMMA SupervisesInv ==
  ASSUME HeartInv, Supervises
  PROVE  HeartInv'
<1> USE HeartbeatAssumption
<1>0. TypeOK /\ Unborn /\ Supervised /\ Fresh /\ Remembered /\ RequestHeard
      /\ BeatOfTheLiving
  BY DEF HeartInv
<1> PICK s \in Supervisor :
      \/ Tick(s) \/ Deadline(s) \/ Request(s) \/ Operation(s)
      \/ FailTransient(s) \/ FailPermanent(s)
  BY DEF Supervises
<1>1. CASE Tick(s)
  <2>1. s <= last
    BY <1>0, <1>1 DEF Tick, Unborn, TypeOK, Supervisor
  <2>2. stopped' = [stopped EXCEPT ![s] = FALSE] /\ ~stopped[s]
    BY <1>0, <1>1 DEF Tick, TypeOK
  <2>3. last' \in last..MaxStarts /\ s <= last'
    BY <1>0, <1>1, <2>1 DEF Tick, TypeOK
  <2>4. lastOk[s] \/ ~healthy[s]
    BY <1>0, <2>2 DEF Fresh
  <2>5. /\ Begin(s) /\ beat' = 0
        /\ UNCHANGED <<failures, healthy, requested, spoolOpen, lastOk>>
    BY <1>1 DEF Tick
  <2> QED
    BY <2>2, <2>3, <2>4, <2>5, BeginInv
<1>2. CASE Deadline(s)
  <2>1. s <= last \/ stopped[s]
    BY <1>0 DEF Unborn, TypeOK, Supervisor
  <2>2. state' \in [Supervisor -> State]
    BY <1>0, <1>2 DEF Deadline, TypeOK, State
  <2>3. TypeOK'
    <3>1. healthy' \in [Supervisor -> BOOLEAN]
          /\ overdue' \in [Supervisor -> BOOLEAN]
      BY <1>0, <1>2 DEF Deadline, TypeOK
    <3> QED
      BY <1>0, <1>2, <2>2, <3>1 DEF Deadline, TypeOK
  <2>4. Unborn' /\ Fresh' /\ BeatOfTheLiving'
    BY <1>0, <1>2, <2>1
       DEF Deadline, TypeOK, Unborn, Fresh, BeatOfTheLiving, Flying
  <2>5. Supervised' /\ Remembered' /\ RequestHeard'
    BY <1>0, <1>2
       DEF Deadline, TypeOK, Supervised, Remembered, RequestHeard, Flying
  <2> QED
    BY <2>3, <2>4, <2>5 DEF HeartInv
<1>3. CASE Request(s)
  <2>1. s <= last
    BY <1>0, <1>3 DEF Request, Unborn, TypeOK, Supervisor
  <2>2. timer' \in [Supervisor -> Schedule]
    BY <1>0, <1>3 DEF Request, TypeOK, Schedule
  <2>3. TypeOK'
    <3>1. requested' \in [Supervisor -> BOOLEAN]
      BY <1>0, <1>3 DEF Request, TypeOK
    <3> QED
      BY <1>0, <1>3, <2>2, <3>1 DEF Request, TypeOK
  <2>4. Unborn' /\ Fresh' /\ BeatOfTheLiving'
    BY <1>0, <1>3, <2>1
       DEF Request, TypeOK, Unborn, Fresh, BeatOfTheLiving, Flying
  <2>5. Supervised' /\ Remembered' /\ RequestHeard'
    BY <1>0, <1>3
       DEF Request, TypeOK, Supervised, Remembered, RequestHeard, Flying
  <2> QED
    BY <2>3, <2>4, <2>5 DEF HeartInv
<1>4. CASE Operation(s)
  <2>1. CASE Succeeded(s) /\ Flying(s) /\ beat' \in {0, s}
             /\ (beat' = s => ~stopped[s] /\ spoolOpen)
    BY <2>1, EndedInv DEF State
  <2>2. ASSUME NEW stage \in Stage \ {"none"}, Flying(s), Proceed(s, stage)
        PROVE  HeartInv'
    <3>1. TypeOK'
      BY <1>0, <2>2 DEF Proceed, TypeOK, history
    <3>2. Unborn' /\ Fresh' /\ BeatOfTheLiving'
      BY <1>0, <2>2
         DEF Proceed, TypeOK, Unborn, Fresh, BeatOfTheLiving, Flying, history
    <3>3. Supervised' /\ Remembered' /\ RequestHeard'
      BY <1>0, <2>2
         DEF Proceed, TypeOK, Supervised, Remembered, RequestHeard, Flying,
             history
    <3> QED
      BY <3>1, <3>2, <3>3 DEF HeartInv
  <2> QED
    BY <1>4, <2>1, <2>2
       DEF Operation, Authorized, Reconciled, SnapshotTaken, Leave, Flying,
           Stage, Supervisor
<1>5. CASE FailTransient(s) \/ FailPermanent(s)
  <2>1. PICK next \in State \ {"stopped"} : Failed(s, next)
    BY <1>5 DEF FailTransient, FailPermanent, State
  <2>2. Flying(s) /\ beat' = 0
    BY <1>5 DEF FailTransient, FailPermanent
  <2>3. beat' = s => ~stopped[s] /\ spoolOpen
    BY <2>2 DEF Supervisor
  <2> QED
    BY <2>1, <2>2, <2>3, EndedInv
<1> QED
  BY <1>1, <1>2, <1>3, <1>4, <1>5

LEMMA HeartNext == HeartInv /\ [Next]_vars => HeartInv'
<1> SUFFICES ASSUME HeartInv, [Next]_vars PROVE HeartInv'
  OBVIOUS
<1> USE HeartbeatAssumption
<1>0. TypeOK /\ Unborn /\ Supervised /\ Fresh /\ Remembered /\ RequestHeard
      /\ BeatOfTheLiving
  BY DEF HeartInv
<1>1. CASE Open \/ Close \/ Elsewhere \/ UNCHANGED vars
  <2>1. UNCHANGED <<last, supervision, history>> /\ spoolOpen' \in BOOLEAN
    BY <1>0, <1>1 DEF Open, Close, Elsewhere, vars, TypeOK
  <2>2. beat' = 0 \/ UNCHANGED <<beat, spoolOpen>>
    BY <1>1 DEF Open, Close, Elsewhere, vars
  <2>3. TypeOK' /\ BeatOfTheLiving'
    BY <1>0, <2>1, <2>2 DEF TypeOK, BeatOfTheLiving, supervision, history
  <2>4. Unborn' /\ Supervised' /\ Fresh' /\ Remembered' /\ RequestHeard'
    BY <1>0, <2>1
       DEF Unborn, Supervised, Fresh, Remembered, RequestHeard, Flying,
           supervision, history
  <2> QED
    BY <2>3, <2>4 DEF HeartInv
<1>2. CASE Start
  <2>1. PICK s \in Supervisor : s = last' /\ s = last + 1
    BY <1>0, <1>2 DEF Start, TypeOK, Supervisor
  <2>2. stopped[s] /\ ~healthy[s]
    BY <1>0, <2>1 DEF Unborn, TypeOK
  <2>3. last' \in last..MaxStarts /\ s <= last'
    BY <1>0, <2>1 DEF TypeOK, Supervisor
  <2>4. /\ Begin(s) /\ beat' = 0
        /\ stopped' = [stopped EXCEPT ![s] = FALSE]
        /\ UNCHANGED <<failures, healthy, requested, spoolOpen, lastOk>>
    BY <1>2, <2>1 DEF Start
  <2> QED
    BY <2>2, <2>3, <2>4, BeginInv
<1>3. CASE Stop
  <2>1. last \in Supervisor
    BY <1>0, <1>3 DEF Stop, TypeOK, Supervisor
  <2>2. state' \in [Supervisor -> State] /\ timer' \in [Supervisor -> Schedule]
    BY <1>0, <1>3 DEF Stop, TypeOK, State, Schedule
  <2>3. TypeOK'
    BY <1>0, <1>3, <2>2 DEF Stop, TypeOK, history
  <2>4. Unborn' /\ Fresh' /\ BeatOfTheLiving'
    BY <1>0, <1>3
       DEF Stop, TypeOK, Unborn, Fresh, BeatOfTheLiving, Flying, history
  <2>5. Supervised' /\ Remembered' /\ RequestHeard'
    BY <1>0, <1>3
       DEF Stop, TypeOK, Supervised, Remembered, RequestHeard, Flying, history
  <2> QED
    BY <2>3, <2>4, <2>5 DEF HeartInv
<1> QED
  BY <1>1, <1>2, <1>3, SupervisesInv DEF Next

LEMMA HeartInvariance == Spec => []HeartInv
BY HeartInit, HeartNext, PTL DEF Spec

-----------------------------------------------------------------------------
(* Every step of the service with its heartbeat is one of the heartbeat    *)
(* or leaves it alone.                                                     *)
THEOREM HeartbeatImplemented == JointSpec => Spec
<1>1. JointInit => Init
  BY DEF JointInit
<1>2. Follows => Next
  BY DEF Follows, Next
<1>3. [JointNext]_allVars => [Next]_vars
  BY <1>2 DEF JointNext, Next, allVars
<1> QED
  BY <1>1, <1>3, PTL DEF JointSpec, Spec

(* A supervisor that runs is blocked, in flight or scheduled, and its      *)
(* flights never overlap (heartbeat-supervisor.js:4-32).                   *)
THEOREM AlwaysSupervised == JointSpec => []Supervised
BY HeartbeatImplemented, HeartInvariance, PTL DEF HeartInv

(* ready() is never the answer after a failure or past a deadline.         *)
THEOREM ReadyOnlyFresh == JointSpec => []ReadyIsFresh
<1>1. HeartInv => ReadyIsFresh
  BY DEF HeartInv, Fresh, ReadyIsFresh, Ready
<1> QED
  BY <1>1, HeartbeatImplemented, HeartInvariance, PTL

(* No heartbeat is enqueued by the flight of a supervisor that has been    *)
(* stopped, however late it completes, nor into a closed spool; a flight   *)
(* that only outlives its deadline may still enqueue one, as in the code   *)
(* (plugin.js, the heartbeat's run after its last await).                  *)
THEOREM NoLateBeat == JointSpec => []BeatOfTheLiving
BY HeartbeatImplemented, HeartInvariance, PTL DEF HeartInv

(* A request is heard without waiting for the cadence.                     *)
THEOREM RequestsHeard == JointSpec => []RequestHeard
BY HeartbeatImplemented, HeartInvariance, PTL DEF HeartInv

-----------------------------------------------------------------------------
(* The part whose stop a teardown awaits: the service still holds it, and  *)
(* it does not run any more.                                               *)
Halted(p) ==
  \/ starting.at \in Failure /\ Cleanup[starting.k] = p
  \/ stopping.at = "down" /\ Shutdown[stopping.k] = p

Rest == [p \in Part |-> IF Halted(p) THEN NoPart ELSE held[p]]

(* The parts that run when h holds them.                                   *)
Parts(h) == {<<p, h[p]>> : p \in {q \in Part \ {"uploader"} : h[q] # NoPart}}

Owned == alive = Parts(Rest)

Entire == (held = Null /\ ~collector) \/ (Running /\ collector)

(* What a start, a teardown and the time between them leave behind.        *)
StartStaged ==
  /\ starting.at = "idle" => starting = Idle
  /\ starting.at \in {"load", "open"} => Entire
  /\ starting.at \in {"sources", "collector"} => ~collector
  /\ starting.at = "sources" => \A p \in Part : held[p] # NoPart <=> p = "spool"
  /\ starting.at = "collector" => \A p \in Part : held[p] # NoPart <=> p # "heart"
  /\ starting.at \in Failure =>
       /\ starting.k \in 1..Len(Cleanup)
       /\ \A j \in 1..Len(Cleanup) :
            j < starting.k /\ Cleanup[j] \in Part => held[Cleanup[j]] = NoPart

StopStaged ==
  /\ stopping.at = "idle" => stopping = Idle
  /\ stopping # Idle => ~wanted
  /\ stopping.at = "down" =>
       /\ starting = Idle /\ ~startupRetry /\ serviceStopping
       /\ held # Null => ~failedCollectorStart
       /\ stopping.k \in 1..Len(Shutdown)
       /\ \A j \in 1..Len(Shutdown) :
            j < stopping.k /\ Shutdown[j] \in Part => held[Shutdown[j]] = NoPart

Between ==
  /\ starting = Idle /\ stopping.at # "down" =>
       Entire /\ (held # Null => ~startupRetry /\ ~failedCollectorStart)
  /\ startupRetry => starting = Idle /\ held = Null /\ ~serviceStopping
  /\ ~wanted /\ ~revived /\ stopping = Idle =>
       starting = Idle /\ held = Null /\ ~startupRetry

(* A start may follow without a call of the host.                          *)
Failing ==
  \/ starting.at \in Failure
  \/ starting.at \in {"load", "open"} /\ held # Null
  \/ starting = Idle /\ held = Null /\ (~serviceStopping \/ failedCollectorStart)

(* Each stop allows two more starts, that of the host and a revival, and   *)
(* each fault one.                                                         *)
Counted ==
  IF starts = 0
  THEN ~wanted /\ ~revived /\ starting = Idle /\ stopping = Idle
       /\ ~startupRetry /\ held = Null
  ELSE starts + (IF wanted THEN 0 ELSE 2) + (IF Failing THEN 1 ELSE 0)
         <= 2 * stops + faults + 1

ServInv ==
  ServiceTypeOK /\ Owned /\ StartStaged /\ StopStaged /\ Between /\ Counted

-----------------------------------------------------------------------------
LEMMA OrderFacts ==
  ASSUME NEW order \in {Cleanup, Shutdown}
  PROVE  /\ Len(order) \in 1..10 /\ 1 \in 1..Len(order)
         /\ order[Len(order)] = "collector"
         /\ \A j \in 1..Len(order) : order[j] = "collector" => j = Len(order)
         /\ \A i, j \in 1..Len(order) : order[i] = order[j] => i = j
         /\ \A p \in Part : \E j \in 1..(Len(order) - 1) : order[j] = p
         /\ \A i, j \in 1..Len(order) :
              order[i] = "heart" /\ order[j] = "spool" => i < j
         /\ "collector" \notin Part
<1>1. CASE order = Cleanup
  <2>1. /\ Len(order) = 8 /\ order[1] = "runner" /\ order[2] = "pump"
        /\ order[3] = "heart" /\ order[4] = "interval"
        /\ order[5] = "deliveries" /\ order[6] = "spool"
        /\ order[7] = "uploader" /\ order[8] = "collector"
    BY <1>1 DEF Cleanup
  <2>2. \A j \in 1..Len(order) : j \in {1, 2, 3, 4, 5, 6, 7, 8}
    BY <2>1
  <2>3. \A p \in Part : \E j \in 1..(Len(order) - 1) : order[j] = p
    BY <2>1 DEF Part
  <2> QED
    BY <2>1, <2>2, <2>3 DEF Part
<1>2. CASE order = Shutdown
  <2>1. /\ Len(order) = 10 /\ order[1] = "runner" /\ order[2] = "pump"
        /\ order[3] = "heart" /\ order[4] = "interval"
        /\ order[5] = "persist" /\ order[6] = "drain"
        /\ order[7] = "uploader" /\ order[8] = "deliveries"
        /\ order[9] = "spool" /\ order[10] = "collector"
    BY <1>2 DEF Shutdown
  <2>2. \A j \in 1..Len(order) : j \in {1, 2, 3, 4, 5, 6, 7, 8, 9, 10}
    BY <2>1
  <2>3. \A p \in Part : \E j \in 1..(Len(order) - 1) : order[j] = p
    BY <2>1 DEF Part
  <2> QED
    BY <2>1, <2>2, <2>3 DEF Part
<1> QED
  BY <1>1, <1>2

LEMMA LeastOf ==
  ASSUME NEW S \in SUBSET (1..10), S # {}
  PROVE  Min(S) \in S /\ \A j \in S : Min(S) <= j
<1>1. \E i \in S : \A j \in S : i <= j
  <2> DEFINE Least(i) == i \in S /\ \A j \in S : i <= j
  <2>1. 1 \in S => Least(1)
    BY DEF Least
  <2>2. 1 \notin S /\ 2 \in S => Least(2)
    BY DEF Least
  <2>3. 1 \notin S /\ 2 \notin S /\ 3 \in S => Least(3)
    BY DEF Least
  <2>4. S \cap {1, 2, 3} = {} /\ 4 \in S => Least(4)
    BY DEF Least
  <2>5. S \cap {1, 2, 3, 4} = {} /\ 5 \in S => Least(5)
    BY DEF Least
  <2>6. S \cap {1, 2, 3, 4, 5} = {} /\ 6 \in S => Least(6)
    BY DEF Least
  <2>7. S \cap {1, 2, 3, 4, 5, 6} = {} /\ 7 \in S => Least(7)
    BY DEF Least
  <2>8. S \cap {1, 2, 3, 4, 5, 6, 7} = {} /\ 8 \in S => Least(8)
    BY DEF Least
  <2>9. S \cap {1, 2, 3, 4, 5, 6, 7, 8} = {} /\ 9 \in S => Least(9)
    BY DEF Least
  <2>10. S \cap {1, 2, 3, 4, 5, 6, 7, 8, 9} = {} => Least(10)
    <3>1. \A j \in S : j \in 1..10
      OBVIOUS
    <3>2. PICK i \in S : TRUE
      OBVIOUS
    <3> QED
      BY <3>1, <3>2 DEF Least
  <2>11. \E i \in S : Least(i)
    BY <2>1, <2>2, <2>3, <2>4, <2>5, <2>6, <2>7, <2>8, <2>9, <2>10
  <2> QED
    BY <2>11 DEF Least
<1> QED
  BY <1>1 DEF Min

(* A teardown starts nothing, and where it ends the heartbeat it has not   *)
(* come to the spool.                                                      *)
HeartFirst ==
  /\ alive' \subseteq alive
  /\ Disappears("heart") => (Alive("spool")' <=> Alive("spool"))

LEMMA AliveIff ==
  ASSUME NEW h, NEW a, a = Parts(h), h \in [Part -> Gen \cup {NoPart}],
         NEW p \in Part \ {"uploader"}
  PROVE  (\E n \in Gen : <<p, n>> \in a) <=> h[p] # NoPart
<1>1. ASSUME h[p] # NoPart PROVE \E n \in Gen : <<p, n>> \in a
  <2>1. h[p] \in Gen /\ <<p, h[p]>> \in Parts(h)
    BY <1>1 DEF Parts
  <2> QED
    BY <2>1
<1>2. ASSUME NEW n \in Gen, <<p, n>> \in a PROVE h[p] # NoPart
  <2>1. PICK q \in Part \ {"uploader"} : h[q] # NoPart /\ <<p, n>> = <<q, h[q]>>
    BY <1>2 DEF Parts
  <2> QED
    BY <2>1
<1> QED
  BY <1>1, <1>2

(* A teardown from stage k to its next await, in a service where nothing   *)
(* is being stopped: what it passes is given up, what it awaits is held.   *)
LEMMA TornDown ==
  ASSUME NEW order \in {Cleanup, Shutdown}, NEW k \in 1..Len(order),
         NEW h \in [Part -> Gen \cup {NoPart}],
         alive = Parts(h),
         \A j \in 1..Len(order) :
           j < k /\ order[j] \in Part => h[order[j]] = NoPart,
         TearDown(order, k, h),
         NEW w, w = NextWait(order, k, h)
  PROVE  /\ w \in k..Len(order)
         /\ held' \in [Part -> Gen \cup {NoPart}]
         /\ \A p \in Part : held'[p] \in {h[p], NoPart}
         /\ \A j \in 1..Len(order) :
              j < w /\ order[j] \in Part => held'[order[j]] = NoPart
         /\ order[w] = "collector" => held' = Null
         /\ HeartFirst
         /\ alive' = Parts([p \in Part |->
                       IF p = order[w] THEN NoPart ELSE held'[p]])
<1>0. /\ Len(order) \in 1..10 /\ order[Len(order)] = "collector"
      /\ "collector" \notin Part
  BY OrderFacts
<1>1. w \in k..Len(order) /\ \A j \in k..(w - 1) : ~Waits(order[j], h)
  <2> DEFINE S == {j \in k..Len(order) : Waits(order[j], h)}
  <2>1. Len(order) \in S
    BY <1>0 DEF Waits
  <2>2. S \in SUBSET (1..10)
    BY <1>0
  <2>3. Min(S) \in S /\ \A j \in S : Min(S) <= j
    BY <2>1, <2>2, LeastOf
  <2>4. w = Min(S)
    BY DEF NextWait
  <2>5. w \in k..Len(order)
    BY <2>3, <2>4
  <2>6. ASSUME NEW j \in k..(w - 1) PROVE ~Waits(order[j], h)
    <3>1. j \in k..Len(order) /\ ~(w <= j)
      BY <2>5, <1>0
    <3> QED
      BY <3>1, <2>3, <2>4
  <2> QED
    BY <2>5, <2>6
<1> DEFINE passed == {order[j] : j \in k..(w - 1)} \cap Part
           halted == passed \cup ({order[w]} \cap Part)
<1>2. /\ held' = [p \in Part |-> IF p \in passed THEN NoPart ELSE h[p]]
      /\ alive' = alive \ {<<p, h[p]>> : p \in halted}
  BY DEF TearDown
<1>3. held' \in [Part -> Gen \cup {NoPart}]
      /\ \A p \in Part : held'[p] \in {h[p], NoPart}
  BY <1>2
<1>4. ASSUME NEW j \in 1..Len(order), j < w, order[j] \in Part
      PROVE  held'[order[j]] = NoPart
  <2>1. CASE j < k
    BY <2>1, <1>2, <1>4
  <2>2. CASE j >= k
    <3>1. j \in k..(w - 1)
      BY <2>2, <1>1, <1>0, <1>4
    <3>2. order[j] \in passed
      BY <3>1, <1>4
    <3> QED
      BY <3>2, <1>2
  <2> QED
    BY <2>1, <2>2, <1>0
<1>5. ASSUME order[w] = "collector" PROVE held' = Null
  <2>1. w = Len(order)
    BY <1>5, <1>1, <1>0, OrderFacts
  <2>2. \A p \in Part : held'[p] = NoPart
    <3> TAKE p \in Part
    <3>1. PICK j \in 1..(Len(order) - 1) : order[j] = p
      BY OrderFacts
    <3>2. j \in 1..Len(order) /\ j < w
      BY <3>1, <2>1, <1>0
    <3> QED
      BY <3>1, <3>2, <1>4
  <2> QED
    BY <2>2, <1>3 DEF Null
<1>6. ASSUME h["heart"] # NoPart
      PROVE  held'["spool"] = h["spool"] /\ order[w] # "spool"
  <2>1. "heart" \in Part /\ "spool" \in Part
    BY DEF Part
  <2>2. PICK i \in 1..(Len(order) - 1) : order[i] = "heart"
    BY <2>1, OrderFacts
  <2>3. PICK j \in 1..(Len(order) - 1) : order[j] = "spool"
    BY <2>1, OrderFacts
  <2>4. i \in 1..Len(order) /\ j \in 1..Len(order) /\ i < j
    BY <1>0, <2>2, <2>3, OrderFacts
  <2>5. ~(i < k)
    BY <1>6, <2>1, <2>2, <2>4
  <2>6. Waits(order[i], h)
    BY <1>6, <2>1, <2>2 DEF Waits
  <2>7. w <= i
    BY <1>0, <1>1, <2>4, <2>5, <2>6
  <2>8. w < j
    BY <1>0, <1>1, <2>4, <2>7
  <2>9. order[w] # "spool"
    BY <1>0, <1>1, <2>3, <2>4, <2>8, OrderFacts
  <2>10. "spool" \notin passed
    <3> SUFFICES ASSUME NEW i1 \in k..(w - 1), order[i1] = "spool" PROVE FALSE
      OBVIOUS
    <3>1. i1 \in 1..Len(order) /\ i1 < w
      BY <1>0, <1>1
    <3>2. i1 = j
      BY <3>1, <2>3, <2>4, OrderFacts
    <3> QED
      BY <3>1, <3>2, <2>8, <1>0, <1>1
  <2> QED
    BY <2>1, <2>9, <2>10, <1>2
<1>7. alive' = Parts([p \in Part |-> IF p = order[w] THEN NoPart ELSE held'[p]])
  <2> DEFINE left == [p \in Part |-> IF p = order[w] THEN NoPart ELSE held'[p]]
  <2>1. ASSUME NEW p \in Part
        PROVE  left[p] = IF p \in halted THEN NoPart ELSE h[p]
    BY <1>2
  <2>2. alive' = Parts(h) \ {<<p, h[p]>> : p \in halted}
    BY <1>2
  <2>3. ASSUME NEW x \in alive' PROVE x \in Parts(left)
    <3>1. PICK p \in Part \ {"uploader"} : h[p] # NoPart /\ x = <<p, h[p]>>
      BY <2>2 DEF Parts
    <3>2. p \notin halted
      BY <3>1, <2>2
    <3>3. left[p] = h[p]
      BY <3>2, <2>1
    <3> HIDE DEF left, halted, passed
    <3> QED
      BY <3>1, <3>3 DEF Parts
  <2>4. ASSUME NEW x \in Parts(left) PROVE x \in alive'
    <3> HIDE DEF left
    <3>1. PICK p \in Part \ {"uploader"} : left[p] # NoPart /\ x = <<p, left[p]>>
      BY <2>4 DEF Parts
    <3>2. p \notin halted /\ left[p] = h[p]
      BY <3>1, <2>1
    <3> HIDE DEF halted, passed
    <3>3. x \in Parts(h)
      BY <3>1, <3>2 DEF Parts
    <3>4. x \notin {<<q, h[q]>> : q \in halted}
      BY <3>1, <3>2
    <3> QED
      BY <3>3, <3>4, <2>2
  <2> QED
    BY <2>3, <2>4
<1>8. HeartFirst
  <2>1. alive' \subseteq alive
    BY <1>2
  <2>2. ASSUME Disappears("heart") PROVE Alive("spool")' <=> Alive("spool")
    <3> DEFINE left == [p \in Part |->
                          IF p = order[w] THEN NoPart ELSE held'[p]]
    <3>1. "heart" \in Part \ {"uploader"} /\ "spool" \in Part \ {"uploader"}
      BY DEF Part
    <3>2. h["heart"] # NoPart
      BY <2>2, <3>1, AliveIff DEF Disappears, Alive
    <3>3. left["spool"] = h["spool"]
      BY <1>6, <3>1, <3>2
    <3>4. left \in [Part -> Gen \cup {NoPart}] /\ alive' = Parts(left)
      BY <1>3, <1>7
    <3> HIDE DEF left
    <3>5. Alive("spool")' <=> left["spool"] # NoPart
      BY <3>1, <3>4, AliveIff DEF Alive
    <3>6. Alive("spool") <=> h["spool"] # NoPart
      BY <3>1, AliveIff DEF Alive
    <3> QED
      BY <3>3, <3>5, <3>6
  <2> QED
    BY <2>1, <2>2 DEF HeartFirst
<1> QED
  BY <1>1, <1>3, <1>4, <1>5, <1>7, <1>8

-----------------------------------------------------------------------------
LEMMA ServStart == ServiceInit => ServInv
<1> SUFFICES ASSUME ServiceInit PROVE ServInv
  OBVIOUS
<1> USE ServiceAssumption
<1>1. ServiceTypeOK
  <2>1. held \in [Part -> Gen \cup {NoPart}]
    BY DEF ServiceInit, Null
  <2>2. starting \in [at : {"idle", "load", "open", "sources", "collector"}
                             \cup Failure, k : 0..Len(Cleanup)]
    BY OrderFacts DEF ServiceInit, Idle
  <2>3. stopping \in [at : {"idle", "wait", "down"}, k : 0..Len(Shutdown)]
    BY OrderFacts DEF ServiceInit, Idle
  <2>4. starts \in Gen \cup {0} /\ stops \in 0..MaxStops /\ faults \in 0..MaxFaults
    BY DEF ServiceInit
  <2>5. /\ alive \subseteq Part \X Gen /\ collector \in BOOLEAN
        /\ {serviceStopping, failedCollectorStart, startupRetry, wanted, revived}
             \subseteq BOOLEAN
        /\ ~startupRetry
    BY DEF ServiceInit
  <2> QED
    BY <2>1, <2>2, <2>3, <2>4, <2>5 DEF ServiceTypeOK
<1>2. Owned
  <2>1. Rest = Null
    BY DEF ServiceInit, Rest, Null, Halted, Idle, Failure, NoPart
  <2>2. Parts(Null) = {}
    BY DEF Parts, Null
  <2> QED
    BY <2>1, <2>2 DEF ServiceInit, Owned
<1>3. StartStaged /\ StopStaged /\ Between
  BY DEF ServiceInit, StartStaged, StopStaged, Between, Entire, Idle, Failure
<1>4. Counted
  BY DEF ServiceInit, Counted
<1> QED
  BY <1>1, <1>2, <1>3, <1>4 DEF ServInv

LEMMA Undisturbed ==
  ASSUME ServiceTypeOK, starting.at \notin Failure, stopping.at # "down"
  PROVE  Rest = held
BY DEF ServiceTypeOK, Rest, Halted

(* What the counts bound: the number of the start is one of Gen.           *)
LEMMA CountRoom ==
  ASSUME NEW n \in Nat, NEW s \in 0..MaxStops, NEW f \in 0..MaxFaults,
         NEW up, NEW failing,
         n = 0 \/ n + (IF up THEN 0 ELSE 2) + (IF failing THEN 1 ELSE 0)
                    <= 2 * s + f + 1
  PROVE  n \in Gen \cup {0}
<1> DEFINE more == (IF up THEN 0 ELSE 2) + (IF failing THEN 1 ELSE 0)
<1>1. more \in 0..3
  OBVIOUS
<1>2. n = 0 \/ n + more <= 2 * s + f + 1
  BY ServiceAssumption
<1> HIDE DEF more
<1> QED
  BY <1>1, <1>2, ServiceAssumption DEF Gen

(* A start begins, or the caller joins the one that is under way.          *)
LEMMA BeginInvariant ==
  ASSUME ServInv, BeginStart,
         UNCHANGED <<parts, stopping, failedCollectorStart, stops, faults>>,
         wanted' \in BOOLEAN, revived' \in BOOLEAN,
         Counted', starting = Idle => stopping.at # "down",
         stopping # Idle => ~wanted',
         wanted' \/ revived' \/ stopping # Idle
  PROVE  ServInv'
<1>0. ServiceTypeOK /\ Owned /\ StartStaged /\ StopStaged /\ Between
  BY DEF ServInv
<1>1. ServiceTypeOK'
  <2>1. starts' \in Gen \cup {0}
    <3>1. starts' \in Nat /\ stops' \in 0..MaxStops /\ faults' \in 0..MaxFaults
      BY <1>0, ServiceAssumption DEF BeginStart, ServiceTypeOK, Gen
    <3>2. \/ starts' = 0
          \/ starts' + (IF wanted' THEN 0 ELSE 2) + (IF Failing' THEN 1 ELSE 0)
               <= 2 * stops' + faults' + 1
      BY DEF Counted
    <3> QED
      BY <3>1, <3>2, CountRoom
  <2>2. starting' \in [at : {"idle", "load", "open", "sources", "collector"}
                              \cup Failure, k : 0..Len(Cleanup)]
    BY <1>0, OrderFacts DEF BeginStart, ServiceTypeOK
  <2>3. startupRetry' => starting' = Idle /\ held' = Null
    BY <1>0 DEF BeginStart, ServiceTypeOK, parts
  <2>4. serviceStopping' \in BOOLEAN /\ startupRetry' \in BOOLEAN
    BY <1>0 DEF BeginStart, ServiceTypeOK
  <2> QED
    BY <1>0, <2>1, <2>2, <2>3, <2>4 DEF ServiceTypeOK, parts
<1>2. CASE starting = Idle
  <2>1. /\ starting' = [at |-> "load", k |-> 0] /\ ~serviceStopping'
        /\ ~startupRetry' /\ stopping.at # "down"
    BY <1>2 DEF BeginStart
  <2>2. Owned'
    <3>1. Rest = held
      BY <1>0, <1>2, <2>1, Undisturbed DEF Idle, Failure
    <3>2. \A p \in Part : ~Halted(p)'
      BY <2>1 DEF Halted, Failure
    <3>3. Rest' = held
      BY <1>0, <3>2 DEF Rest, ServiceTypeOK, parts
    <3>4. Parts(Rest)' = Parts(held)
      BY <3>3 DEF Parts
    <3>5. alive = Parts(held)
      BY <1>0, <3>1 DEF Owned
    <3> QED
      BY <3>4, <3>5 DEF Owned, parts
  <2>3. StartStaged'
    <3>1. Entire
      BY <1>0, <1>2, <2>1 DEF Between
    <3> QED
      BY <2>1, <3>1 DEF StartStaged, Entire, Failure, parts, Running
  <2>4. StopStaged' /\ Between'
    <3>1. stopping' = stopping /\ stopping'.at # "down" /\ starting' # Idle
      BY <2>1 DEF Idle
    <3> QED
      BY <1>0, <2>1, <3>1 DEF StopStaged, Between, parts
  <2> QED
    BY <1>1, <2>2, <2>3, <2>4 DEF ServInv
<1>3. CASE starting # Idle
  <2>1. UNCHANGED <<starting, starts, serviceStopping, startupRetry>>
    BY <1>3 DEF BeginStart
  <2>2. UNCHANGED <<held, alive, collector, stopping, failedCollectorStart>>
    BY DEF parts
  <2>3. Owned'
    <3>1. Rest' = Rest
      BY <2>1, <2>2 DEF Rest, Halted
    <3>2. Parts(Rest)' = Parts(Rest)
      BY <3>1 DEF Parts
    <3> QED
      BY <1>0, <2>2, <3>2 DEF Owned
  <2>4. StartStaged'
    BY <1>0, <2>1, <2>2 DEF StartStaged, Entire, Running
  <2>5. StopStaged' /\ Between'
    BY <1>0, <1>3, <2>1, <2>2 DEF StopStaged, Between
  <2> QED
    BY <1>1, <2>3, <2>4, <2>5 DEF ServInv
<1> QED
  BY <1>2, <1>3

LEMMA HostStartsInvariant ==
  ASSUME ServInv, HostStarts
  PROVE  ServInv'
<1>0. ServiceTypeOK /\ StartStaged /\ Between /\ Counted
  BY DEF ServInv
<1>1. /\ ~wanted /\ stopping = Idle /\ wanted' = TRUE /\ revived' = FALSE
      /\ BeginStart
      /\ UNCHANGED <<parts, stopping, failedCollectorStart, stops, faults>>
  BY DEF HostStarts
<1>2. starts \in Nat /\ stops \in Nat /\ faults \in Nat
  BY <1>0, ServiceAssumption DEF ServiceTypeOK, Gen
<1>3. starts' \in {starts, starts + 1}
  BY <1>1 DEF BeginStart
<1>4. Failing' => held # Null \/ starting # Idle
  BY <1>1 DEF BeginStart, Failing, Idle, Failure, parts
<1>5. Counted'
  <2>1. CASE starting = Idle
    <3>1. starts' = starts + 1
      BY <2>1, <1>1 DEF BeginStart
    <3>2. starts = 0 => ~Failing'
      BY <2>1, <1>1, <1>0
         DEF BeginStart, Failing, Idle, Failure, parts, Counted
    <3> QED
      BY <3>1, <3>2, <1>0, <1>1, <1>2 DEF Counted
  <2>2. CASE starting # Idle
    <3>1. starts' = starts /\ (Failing' <=> Failing)
      BY <2>2, <1>1 DEF BeginStart, Failing, parts
    <3>2. starts # 0
      BY <2>2, <1>0 DEF Counted
    <3> QED
      BY <3>1, <3>2, <1>0, <1>1, <1>2 DEF Counted
  <2> QED
    BY <2>1, <2>2
<1>6. stopping.at # "down"
  BY <1>1 DEF Idle
<1> QED
  BY <1>1, <1>5, <1>6, BeginInvariant

LEMMA RetryInvariant ==
  ASSUME ServInv, RetryFires
  PROVE  ServInv'
<1>0. ServiceTypeOK /\ StopStaged /\ Between /\ Counted
  BY DEF ServInv
<1>1. /\ startupRetry /\ starting = Idle /\ held = Null /\ ~serviceStopping
      /\ stopping.at # "down"
  BY <1>0 DEF RetryFires, Between, StopStaged
<1>2. /\ BeginStart
      /\ UNCHANGED <<parts, stopping, failedCollectorStart, stops, faults>>
      /\ UNCHANGED <<wanted, revived>>
  BY <1>1 DEF RetryFires
<1>3. starts \in Nat /\ stops \in Nat /\ faults \in Nat
  BY <1>0, ServiceAssumption DEF ServiceTypeOK, Gen
<1>4. starts' = starts + 1 /\ starts # 0 /\ Failing /\ ~Failing'
  BY <1>0, <1>1, <1>2
     DEF BeginStart, Counted, Failing, Idle, Failure, parts
<1>5. Counted'
  BY <1>0, <1>2, <1>3, <1>4 DEF Counted
<1>6. wanted' \in BOOLEAN /\ revived' \in BOOLEAN
  BY <1>0, <1>2 DEF ServiceTypeOK
<1>7. wanted' \/ revived' \/ stopping # Idle
  BY <1>0, <1>1, <1>2 DEF Between
<1>8. stopping # Idle => ~wanted'
  BY <1>0, <1>2 DEF StopStaged
<1> QED
  BY <1>1, <1>2, <1>5, <1>6, <1>7, <1>8, BeginInvariant

LEMMA RecoverInvariant ==
  ASSUME ~Overlap, ServInv, Recover
  PROVE  ServInv'
<1>0. ServiceTypeOK /\ StopStaged /\ Between /\ Counted
  BY DEF ServInv
<1>1. /\ stopping = Idle /\ Recoverable /\ BeginStart
      /\ UNCHANGED <<parts, stopping, failedCollectorStart, stops, faults>>
      /\ wanted' = wanted /\ revived' = (revived \/ ~wanted)
  BY DEF Recover
<1>2. starts \in Nat /\ stops \in Nat /\ faults \in Nat
  BY <1>0, ServiceAssumption DEF ServiceTypeOK, Gen
<1>3. Counted'
  <2>1. CASE starting = Idle
    <3>1. held = Null
      BY <2>1, <1>0, <1>1
         DEF Between, Entire, Running, Recoverable, Idle, Part
    <3>2. starts' = starts + 1 /\ starts # 0 /\ Failing /\ ~Failing'
      BY <2>1, <3>1, <1>0, <1>1, <1>2
         DEF BeginStart, Recoverable, Failing, Idle, Failure, parts
    <3> QED
      BY <3>2, <1>0, <1>1, <1>2 DEF Counted
  <2>2. CASE starting # Idle
    <3>1. starts' = starts /\ (Failing' <=> Failing) /\ starts # 0
      BY <2>2, <1>0, <1>1 DEF BeginStart, Failing, parts, Counted
    <3> QED
      BY <3>1, <1>0, <1>1, <1>2 DEF Counted
  <2> QED
    BY <2>1, <2>2
<1>4. wanted' \in BOOLEAN /\ revived' \in BOOLEAN /\ (wanted' \/ revived')
  BY <1>0, <1>1 DEF ServiceTypeOK
<1>5. stopping.at # "down"
  BY <1>1 DEF Idle
<1> QED
  BY <1>1, <1>3, <1>4, <1>5, BeginInvariant

(* What runs is untouched where neither the parts nor a teardown change.   *)
LEMMA OwnedStill ==
  ASSUME Owned, held' = held, alive' = alive,
         \A p \in Part : Halted(p)' <=> Halted(p)
  PROVE  Owned'
<1>1. Rest' = Rest
  BY DEF Rest
<1>2. Parts(Rest)' = Parts(Rest)
  BY <1>1 DEF Parts
<1> QED
  BY <1>2 DEF Owned

LEMMA HostStopsInvariant ==
  ASSUME ServInv, HostStops
  PROVE  ServInv'
<1>0. ServiceTypeOK /\ Owned /\ StartStaged /\ StopStaged /\ Between /\ Counted
  BY DEF ServInv
<1>1. /\ wanted /\ stopping = Idle /\ stops < MaxStops /\ ~wanted'
      /\ stops' = stops + 1 /\ stopping' = [at |-> "wait", k |-> 0]
      /\ UNCHANGED <<held, alive, collector, starting, serviceStopping,
                     failedCollectorStart, startupRetry, revived, starts,
                     faults>>
      /\ wanted' = FALSE
  BY DEF HostStops, parts, flags
<1>2. ServiceTypeOK'
  <2>1. stopping' \in [at : {"idle", "wait", "down"}, k : 0..Len(Shutdown)]
    BY <1>1, OrderFacts
  <2>2. stops' \in 0..MaxStops
    BY <1>0, <1>1, ServiceAssumption DEF ServiceTypeOK
  <2> QED
    BY <1>0, <1>1, <2>1, <2>2 DEF ServiceTypeOK
<1>3. Owned'
  <2>1. \A p \in Part : Halted(p)' <=> Halted(p)
    BY <1>1 DEF Halted, Idle
  <2> QED
    BY <2>1, <1>0, <1>1, OwnedStill
<1>4. StartStaged' /\ StopStaged'
  BY <1>0, <1>1 DEF StartStaged, StopStaged, Entire, Running, Idle
<1>5. Between'
  BY <1>0, <1>1 DEF Between, Entire, Running, Idle
<1>6. Counted'
  <2>1. starts \in Nat /\ stops \in Nat /\ faults \in Nat
    BY <1>0, ServiceAssumption DEF ServiceTypeOK, Gen
  <2>2. (Failing' <=> Failing) /\ starts # 0
    BY <1>0, <1>1 DEF Failing, Counted
  <2> QED
    BY <2>1, <2>2, <1>0, <1>1 DEF Counted
<1> QED
  BY <1>2, <1>3, <1>4, <1>5, <1>6 DEF ServInv

(* The parts that a start creates join those that run.                     *)
LEMMA CreateOwned ==
  ASSUME NEW ps \in SUBSET Part, ServiceTypeOK, starts # 0, alive = Parts(held),
         Create(ps), \A p \in ps : held[p] = NoPart
  PROVE  /\ held' \in [Part -> Gen \cup {NoPart}]
         /\ alive' \subseteq Part \X Gen
         /\ alive' = Parts(held')
<1>0. starts \in Gen /\ starts # NoPart
  BY DEF ServiceTypeOK, NoPart
<1>1. /\ held' = [p \in Part |-> IF p \in ps THEN starts ELSE held[p]]
      /\ alive' = alive \cup {<<p, starts>> : p \in ps \ {"uploader"}}
  BY DEF Create
<1>2. held' \in [Part -> Gen \cup {NoPart}]
  BY <1>0, <1>1 DEF ServiceTypeOK
<1>3. alive' \subseteq Part \X Gen
  BY <1>0, <1>1 DEF ServiceTypeOK
<1>4. ASSUME NEW x \in alive' PROVE x \in Parts(held')
  <2>1. CASE x \in alive
    <3>1. PICK p \in Part \ {"uploader"} : held[p] # NoPart /\ x = <<p, held[p]>>
      BY <2>1 DEF Parts
    <3>2. held'[p] = held[p]
      BY <3>1, <1>1
    <3> QED
      BY <3>1, <3>2 DEF Parts
  <2>2. CASE x \notin alive
    <3>1. PICK p \in ps \ {"uploader"} : x = <<p, starts>>
      BY <2>2, <1>1, <1>4
    <3>2. held'[p] = starts
      BY <3>1, <1>1
    <3> QED
      BY <3>1, <3>2, <1>0 DEF Parts
  <2> QED
    BY <2>1, <2>2
<1>5. ASSUME NEW x \in Parts(held') PROVE x \in alive'
  <2>1. PICK p \in Part \ {"uploader"} : held'[p] # NoPart /\ x = <<p, held'[p]>>
    BY <1>5 DEF Parts
  <2>2. CASE p \in ps
    BY <2>1, <2>2, <1>1
  <2>3. CASE p \notin ps
    BY <2>1, <2>3, <1>1 DEF Parts
  <2> QED
    BY <2>2, <2>3
<1> QED
  BY <1>2, <1>3, <1>4, <1>5

(* A start that is under way has the service to itself.                    *)
LEMMA UnderWay ==
  ASSUME ServInv, starting.at \in {"load", "open", "sources", "collector"}
  PROVE  /\ starting # Idle /\ stopping.at # "down" /\ ~startupRetry
         /\ Rest = held /\ alive = Parts(held) /\ starts # 0
         /\ wanted \/ revived \/ stopping # Idle
<1>0. ServiceTypeOK /\ Owned /\ StopStaged /\ Between /\ Counted
  BY DEF ServInv
<1>1. starting # Idle
  BY DEF Idle
<1>2. stopping.at # "down" /\ ~startupRetry /\ starts # 0
      /\ (wanted \/ revived \/ stopping # Idle)
  BY <1>0, <1>1 DEF StopStaged, Between, Counted
<1>3. Rest = held
  BY <1>0, <1>2, Undisturbed DEF Failure
<1> QED
  BY <1>0, <1>1, <1>2, <1>3 DEF Owned

(* The new stage of a start, when nothing but the parts changes with it.   *)
LEMMA ReachedInvariant ==
  ASSUME ServInv, starting.at \in {"load", "open", "sources", "collector"},
         starting'.at \in {"idle", "open", "sources", "collector"},
         starting'.at = "idle" => starting' = Idle /\ held' # Null,
         starting' \in [at : {"idle", "load", "open", "sources", "collector"}
                                 \cup Failure, k : 0..Len(Cleanup)],
         UNCHANGED <<stopping, serviceStopping, startupRetry, wanted, revived,
                     counts>>,
         failedCollectorStart' \in BOOLEAN,
         collector' \in BOOLEAN, StartStaged',
         held' \in [Part -> Gen \cup {NoPart}],
         alive' \subseteq Part \X Gen, alive' = Parts(held'),
         starting'.at = "open" => starting.at = "load" /\ held' = held,
         starting' = Idle => Entire' /\ ~failedCollectorStart'
  PROVE  ServInv'
<1>0. ServiceTypeOK /\ Owned /\ StartStaged /\ StopStaged /\ Between /\ Counted
  BY DEF ServInv
<1>1. /\ starting # Idle /\ stopping.at # "down" /\ ~startupRetry
      /\ starts # 0 /\ (wanted \/ revived \/ stopping # Idle)
  BY UnderWay
<1>2. ServiceTypeOK'
  BY <1>0, <1>1 DEF ServiceTypeOK, counts
<1>3. Owned'
  <2>1. \A p \in Part : ~Halted(p)'
    BY <1>1 DEF Halted, Failure
  <2>2. Rest' = held'
    BY <2>1 DEF Rest
  <2>3. Parts(Rest)' = Parts(held')
    BY <2>2 DEF Parts
  <2> QED
    BY <2>3 DEF Owned
<1>4. StopStaged' /\ Between'
  <2>1. StopStaged'
    BY <1>0, <1>1 DEF StopStaged
  <2>2. Between'
    BY <1>1 DEF Between
  <2> QED
    BY <2>1, <2>2
<1>5. Counted'
  <2>1. Failing' => Failing
    BY DEF Failing, Failure, Idle
  <2>2. starts \in Nat /\ stops \in Nat /\ faults \in Nat
    BY <1>0, ServiceAssumption DEF ServiceTypeOK, Gen
  <2>3. UNCHANGED <<starts, stops, faults, wanted>>
    BY DEF counts
  <2> QED
    BY <2>1, <2>2, <2>3, <1>0, <1>1 DEF Counted
<1> QED
  BY <1>2, <1>3, <1>4, <1>5 DEF ServInv

LEMMA StartGoesOnInvariant ==
  ASSUME ServInv, Loaded \/ Opened \/ Created \/ Started
  PROVE  ServInv'
<1>0. ServiceTypeOK /\ StartStaged
  BY DEF ServInv
<1>1. starting.at \in {"load", "open", "sources", "collector"}
  BY DEF Loaded, Opened, Created, Started, Reached
<1>2. starting # Idle /\ alive = Parts(held) /\ starts # 0
  BY <1>1, UnderWay
<1>3. Len(Cleanup) \in Nat
  BY OrderFacts
<1>4. CASE Loaded
  <2>1. /\ starting.at = "load" /\ starting' = [starting EXCEPT !.at = "open"]
        /\ UNCHANGED <<stopping, flags, wanted, revived, counts, parts>>
    BY <1>4 DEF Loaded, Reached
  <2>2. starting' \in [at : {"idle", "load", "open", "sources", "collector"}
                              \cup Failure, k : 0..Len(Cleanup)]
        /\ starting'.at = "open"
    BY <2>1, <1>0 DEF ServiceTypeOK
  <2>3. UNCHANGED <<held, alive, collector, serviceStopping, startupRetry,
                    failedCollectorStart>>
    BY <2>1 DEF parts, flags
  <2>4. StartStaged'
    BY <1>0, <2>1, <2>2, <2>3 DEF StartStaged, Entire, Running, Failure
  <2>5. alive' = Parts(held')
    BY <1>2, <2>3
  <2> QED
    BY <1>0, <1>1, <2>1, <2>2, <2>3, <2>4, <2>5, ReachedInvariant
       DEF ServiceTypeOK, Idle
<1>5. CASE Opened
  <2>1. /\ starting.at = "open" /\ starting' = [starting EXCEPT !.at = "sources"]
        /\ UNCHANGED <<stopping, flags, wanted, revived, counts, collector>>
        /\ \A n \in Gen : <<"spool", n>> \notin alive
        /\ Create({"spool"})
    BY <1>5 DEF Opened, Reached
  <2>2. starting' \in [at : {"idle", "load", "open", "sources", "collector"}
                              \cup Failure, k : 0..Len(Cleanup)]
        /\ starting'.at = "sources"
    BY <2>1, <1>0 DEF ServiceTypeOK
  <2>3. held = Null /\ ~collector
    <3>1. held["spool"] = NoPart
      <4> SUFFICES ASSUME held["spool"] # NoPart PROVE FALSE
        OBVIOUS
      <4>1. "spool" \in Part \ {"uploader"} /\ held["spool"] \in Gen
        BY <1>0 DEF Part, ServiceTypeOK
      <4>2. <<"spool", held["spool"]>> \in alive
        BY <1>2, <4>1 DEF Parts
      <4> QED
        BY <4>1, <4>2, <2>1
    <3> QED
      BY <3>1, <1>0, <2>1 DEF StartStaged, Entire, Running, Part
  <2>4. /\ held' \in [Part -> Gen \cup {NoPart}]
        /\ alive' \subseteq Part \X Gen /\ alive' = Parts(held')
    BY <1>0, <1>2, <2>1, <2>3, CreateOwned DEF Part, Null
  <2>5. StartStaged'
    <3>1. \A p \in Part : held'[p] # NoPart <=> p = "spool"
      BY <1>2, <2>1, <2>3 DEF Create, Null, NoPart
    <3> QED
      BY <2>1, <2>2, <2>3, <3>1 DEF StartStaged, Failure
  <2> QED
    BY <1>0, <1>1, <2>1, <2>2, <2>4, <2>5, ReachedInvariant
       DEF ServiceTypeOK, Idle, flags
<1>6. CASE Created
  <2> DEFINE ps == {"uploader", "deliveries", "runner", "pump", "interval"}
  <2>1. /\ starting.at = "sources"
        /\ starting' = [starting EXCEPT !.at = "collector"]
        /\ UNCHANGED <<stopping, flags, wanted, revived, counts, collector>>
        /\ Create(ps)
    BY <1>6 DEF Created, Reached
  <2>2. starting' \in [at : {"idle", "load", "open", "sources", "collector"}
                              \cup Failure, k : 0..Len(Cleanup)]
        /\ starting'.at = "collector"
    BY <2>1, <1>0 DEF ServiceTypeOK
  <2>3. (\A p \in Part : held[p] # NoPart <=> p = "spool") /\ ~collector
    BY <1>0, <2>1 DEF StartStaged
  <2>4. ps \in SUBSET Part /\ \A p \in ps : held[p] = NoPart
    BY <2>3 DEF Part
  <2>5. \A p \in Part : p \in ps \/ p = "spool" \/ p = "heart"
    BY DEF Part
  <2>6. "heart" \notin ps /\ "spool" \notin ps
    OBVIOUS
  <2> HIDE DEF ps
  <2>7. /\ held' \in [Part -> Gen \cup {NoPart}]
        /\ alive' \subseteq Part \X Gen /\ alive' = Parts(held')
    BY <1>0, <1>2, <2>1, <2>4, CreateOwned
  <2>8. StartStaged'
    <3>1. \A p \in Part : held'[p] # NoPart <=> p # "heart"
      BY <1>2, <2>1, <2>3, <2>5, <2>6 DEF Create, NoPart
    <3> QED
      BY <2>1, <2>2, <2>3, <3>1 DEF StartStaged, Failure
  <2> QED
    BY <1>0, <1>1, <2>1, <2>2, <2>7, <2>8, ReachedInvariant
       DEF ServiceTypeOK, Idle, flags
<1>7. CASE Started
  <2>1. /\ starting.at = "collector" /\ starting' = Idle /\ collector' = TRUE
        /\ Create({"heart"}) /\ failedCollectorStart' = FALSE
        /\ UNCHANGED <<stopping, serviceStopping, startupRetry, wanted,
                       revived, counts>>
    BY <1>7 DEF Started
  <2>2. starting' \in [at : {"idle", "load", "open", "sources", "collector"}
                              \cup Failure, k : 0..Len(Cleanup)]
        /\ starting'.at = "idle"
    BY <2>1, <1>3 DEF Idle
  <2>3. \A p \in Part : held[p] # NoPart <=> p # "heart"
    BY <1>0, <2>1 DEF StartStaged
  <2>4. {"heart"} \in SUBSET Part /\ \A p \in {"heart"} : held[p] = NoPart
    BY <2>3 DEF Part
  <2>5. /\ held' \in [Part -> Gen \cup {NoPart}]
        /\ alive' \subseteq Part \X Gen /\ alive' = Parts(held')
    BY <1>0, <1>2, <2>1, <2>4, CreateOwned
  <2>6. Running' /\ held' # Null
    <3>1. \A p \in Part : held'[p] # NoPart
      BY <1>2, <2>1, <2>3 DEF Create, NoPart
    <3>2. "heart" \in Part
      BY DEF Part
    <3> QED
      BY <3>1, <3>2 DEF Running, Null
  <2>7. StartStaged' /\ Entire'
    BY <2>1, <2>2, <2>6 DEF StartStaged, Entire, Failure
  <2> QED
    BY <1>0, <1>1, <2>1, <2>2, <2>5, <2>6, <2>7, ReachedInvariant
       DEF ServiceTypeOK
<1> QED
  BY <1>4, <1>5, <1>6, <1>7

LEMMA TornOwned ==
  ASSUME NEW order, NEW w,
         alive' = Parts([p \in Part |->
                    IF p = order[w] THEN NoPart ELSE held'[p]]),
         \A p \in Part : Halted(p)' <=> order[w] = p
  PROVE  Owned'
<1>1. Rest' = [p \in Part |-> IF p = order[w] THEN NoPart ELSE held'[p]]
  BY DEF Rest
<1>2. Parts(Rest)' = Parts([p \in Part |->
                       IF p = order[w] THEN NoPart ELSE held'[p]])
  BY <1>1 DEF Parts
<1> QED
  BY <1>2 DEF Owned

LEMMA FailsInvariant ==
  ASSUME ServInv, NEW why \in Failure, Fails(why)
  PROVE  ServInv' /\ HeartFirst
<1>0. ServiceTypeOK /\ StartStaged /\ StopStaged /\ Between /\ Counted
  BY DEF ServInv
<1>1. starting.at \in {"load", "open", "sources", "collector"}
  BY DEF Fails
<1>2. /\ starting # Idle /\ stopping.at # "down" /\ ~startupRetry
      /\ alive = Parts(held) /\ starts # 0
      /\ wanted \/ revived \/ stopping # Idle
  BY <1>1, UnderWay
<1> DEFINE w == NextWait(Cleanup, 1, held)
<1>3. /\ failedCollectorStart' \in BOOLEAN
      /\ TearDown(Cleanup, 1, held)
      /\ starting' = [at |-> why, k |-> w]
      /\ UNCHANGED <<collector, stopping, serviceStopping, startupRetry,
                     wanted, revived, starts, stops>>
  BY DEF Fails
<1> HIDE DEF w
<1>4. /\ w \in 1..Len(Cleanup)
      /\ held' \in [Part -> Gen \cup {NoPart}]
      /\ \A j \in 1..Len(Cleanup) :
           j < w /\ Cleanup[j] \in Part => held'[Cleanup[j]] = NoPart
      /\ alive' = Parts([p \in Part |->
                    IF p = Cleanup[w] THEN NoPart ELSE held'[p]])
      /\ HeartFirst
  <2>1. 1 \in 1..Len(Cleanup) /\ held \in [Part -> Gen \cup {NoPart}]
    <3>1. 1 \in 1..Len(Cleanup)
      BY OrderFacts
    <3>2. held \in [Part -> Gen \cup {NoPart}]
      BY <1>0 DEF ServiceTypeOK
    <3> QED
      BY <3>1, <3>2
  <2>2. \A j \in 1..Len(Cleanup) :
          j < 1 /\ Cleanup[j] \in Part => held[Cleanup[j]] = NoPart
    BY OrderFacts
  <2>3. w = NextWait(Cleanup, 1, held)
    BY DEF w
  <2> QED
    BY <1>2, <1>3, <2>1, <2>2, <2>3, TornDown
<1>5. starts \in Nat /\ stops \in Nat /\ faults \in Nat /\ faults' \in 0..MaxFaults
      /\ faults' \in Nat
  BY <1>0, ServiceAssumption DEF ServiceTypeOK, Gen, Fails
<1>6. ServiceTypeOK'
  <2>1. alive' \subseteq Part \X Gen
    BY <1>0, <1>3 DEF ServiceTypeOK, TearDown
  <2>2. starting' \in [at : {"idle", "load", "open", "sources", "collector"}
                              \cup Failure, k : 0..Len(Cleanup)]
    BY <1>3, <1>4, OrderFacts
  <2> QED
    BY <1>0, <1>2, <1>3, <1>4, <1>5, <2>1, <2>2 DEF ServiceTypeOK
<1>7. Owned'
  <2>1. \A p \in Part : Halted(p)' <=> Cleanup[w] = p
    BY <1>2, <1>3 DEF Halted
  <2> QED
    BY <1>4, <2>1, TornOwned
<1>8. StartStaged'
  BY <1>3, <1>4 DEF StartStaged, Failure
<1>9. StopStaged' /\ Between'
  BY <1>0, <1>2, <1>3 DEF StopStaged, Between, Idle, Failure
<1>10. Counted'
  <2>1. Failing' /\ starts' = starts /\ stops' = stops /\ wanted' = wanted
    BY <1>3 DEF Failing
  <2>2. CASE Forced
    <3>1. starting.at = "open" /\ held # Null
      <4>1. ~(starting.at = "sources" /\ held["spool"] = NoPart)
        BY <1>0 DEF StartStaged, Part
      <4>2. PICK n \in Gen : starting.at = "open" /\ <<"spool", n>> \in alive
        BY <2>2, <4>1 DEF Forced
      <4>3. PICK p \in Part : held[p] # NoPart
        BY <4>2, <1>2 DEF Parts
      <4> QED
        BY <4>2, <4>3 DEF Null
    <3>2. Failing /\ faults' = faults
      BY <3>1, <2>2 DEF Failing, Fails
    <3> QED
      BY <2>1, <3>2, <1>0, <1>2, <1>5 DEF Counted
  <2>3. CASE ~Forced
    <3>1. faults' = faults + 1
      BY <2>3 DEF Fails
    <3> QED
      BY <2>1, <3>1, <1>0, <1>2, <1>5 DEF Counted
  <2> QED
    BY <2>2, <2>3
<1> QED
  BY <1>4, <1>6, <1>7, <1>8, <1>9, <1>10 DEF ServInv

(* The part that a teardown awaited is gone.                               *)
LEMMA AfterRest ==
  ASSUME ServiceTypeOK, NEW order \in {Cleanup, Shutdown},
         NEW k \in 1..Len(order),
         \A p \in Part : Halted(p) <=> order[k] = p,
         \A j \in 1..Len(order) :
           j < k /\ order[j] \in Part => held[order[j]] = NoPart,
         order[k] # "collector", Owned
  PROVE  /\ k + 1 \in 1..Len(order)
         /\ After(order, k) \in [Part -> Gen \cup {NoPart}]
         /\ alive = Parts(After(order, k))
         /\ \A j \in 1..Len(order) :
              j < k + 1 /\ order[j] \in Part => After(order, k)[order[j]] = NoPart
         /\ \A p \in Part : After(order, k)[p] \in {held[p], NoPart}
<1>0. Len(order) \in 1..10 /\ order[Len(order)] = "collector"
  BY OrderFacts
<1>1. k + 1 \in 1..Len(order)
  <2>1. k # Len(order)
    BY <1>0
  <2> QED
    BY <2>1, <1>0
<1>2. /\ After(order, k) \in [Part -> Gen \cup {NoPart}]
      /\ \A p \in Part : After(order, k)[p]
                           = IF order[k] = p THEN NoPart ELSE held[p]
  BY DEF After, ServiceTypeOK
<1>3. After(order, k) = Rest
  <2>1. \A p \in Part : After(order, k)[p] = Rest[p]
    BY <1>2 DEF Rest
  <2> QED
    BY <2>1, <1>2 DEF Rest
<1>4. ASSUME NEW j \in 1..Len(order), j < k + 1, order[j] \in Part
      PROVE  After(order, k)[order[j]] = NoPart
  <2>1. j < k \/ j = k
    BY <1>4, <1>0
  <2> QED
    BY <2>1, <1>2, <1>4
<1> QED
  BY <1>1, <1>2, <1>3, <1>4 DEF Owned

(* A teardown that ends has given everything up.                           *)
LEMMA AllGone ==
  ASSUME ServiceTypeOK, NEW order \in {Cleanup, Shutdown},
         NEW k \in 1..Len(order), order[k] = "collector",
         \A j \in 1..Len(order) :
           j < k /\ order[j] \in Part => held[order[j]] = NoPart
  PROVE  held = Null
<1>1. k = Len(order) /\ Len(order) \in 1..10
  BY OrderFacts
<1>2. \A p \in Part : held[p] = NoPart
  <2> TAKE p \in Part
  <2>1. PICK j \in 1..(Len(order) - 1) : order[j] = p
    BY OrderFacts
  <2>2. j \in 1..Len(order) /\ j < k
    BY <1>1, <2>1
  <2> QED
    BY <2>1, <2>2
<1> QED
  BY <1>2 DEF Null, ServiceTypeOK

LEMMA OwnedNothing ==
  ASSUME Owned, held = Null, held' = held, alive' = alive
  PROVE  Owned'
<1>1. Rest = Null /\ Rest' = Null
  BY DEF Rest, Null
<1>2. Parts(Rest)' = Parts(Rest)
  BY <1>1 DEF Parts
<1> QED
  BY <1>2 DEF Owned

LEMMA CleanedUpInvariant ==
  ASSUME ServInv, CleanedUp
  PROVE  ServInv' /\ HeartFirst
<1>0. ServiceTypeOK /\ Owned /\ StartStaged /\ StopStaged /\ Between /\ Counted
  BY DEF ServInv
<1> DEFINE k == starting.k
           h == After(Cleanup, k)
<1>1. /\ starting.at \in Failure
      /\ UNCHANGED <<stopping, serviceStopping, failedCollectorStart, wanted,
                     revived, counts>>
  BY DEF CleanedUp
<1>2. starting # Idle /\ stopping.at # "down" /\ ~startupRetry /\ starts # 0
      /\ (wanted \/ revived \/ stopping # Idle)
  BY <1>0, <1>1 DEF StopStaged, Between, Counted, Failure, Idle
<1>3. /\ k \in 1..Len(Cleanup)
      /\ \A j \in 1..Len(Cleanup) :
           j < k /\ Cleanup[j] \in Part => held[Cleanup[j]] = NoPart
  BY <1>0, <1>1 DEF StartStaged
<1>4. starts \in Nat /\ stops \in Nat /\ faults \in Nat
      /\ UNCHANGED <<starts, stops, faults>>
  BY <1>0, <1>1, ServiceAssumption DEF ServiceTypeOK, Gen, counts
<1>5. Failing
  BY <1>1 DEF Failing
<1>6. Counted'
  BY <1>0, <1>1, <1>2, <1>4, <1>5 DEF Counted
<1>7. CASE Cleanup[k] = "collector"
  <2>1. /\ collector' = FALSE /\ starting' = Idle
        /\ startupRetry' = (starting.at = "transient" /\ ~serviceStopping)
        /\ UNCHANGED <<held, alive>>
    BY <1>7 DEF CleanedUp
  <2>2. held = Null
    BY <1>0, <1>3, <1>7, AllGone
  <2>3. ServiceTypeOK'
    <3>1. starting' \in [at : {"idle", "load", "open", "sources", "collector"}
                               \cup Failure, k : 0..Len(Cleanup)]
      BY <2>1, OrderFacts DEF Idle
    <3>2. startupRetry' \in BOOLEAN
      BY <2>1
    <3> QED
      BY <1>0, <1>1, <1>4, <2>1, <2>2, <3>1, <3>2 DEF ServiceTypeOK
  <2>4. Owned'
    BY <1>0, <2>1, <2>2, OwnedNothing
  <2>5. StartStaged' /\ StopStaged' /\ Between'
    BY <1>0, <1>1, <1>2, <2>1, <2>2
       DEF StartStaged, StopStaged, Between, Entire, Idle, Failure
  <2>6. HeartFirst
    BY <2>1 DEF HeartFirst, Disappears, Alive
  <2> QED
    BY <2>6, <1>6, <2>3, <2>4, <2>5 DEF ServInv
<1>8. CASE Cleanup[k] # "collector"
  <2>1. /\ TearDown(Cleanup, k + 1, h)
        /\ starting' = [starting EXCEPT !.k = NextWait(Cleanup, k + 1, h)]
        /\ UNCHANGED <<collector, startupRetry>>
    BY <1>8 DEF CleanedUp
  <2>2. \A p \in Part : Halted(p) <=> Cleanup[k] = p
    BY <1>1, <1>2 DEF Halted
  <2>3. /\ k + 1 \in 1..Len(Cleanup)
        /\ h \in [Part -> Gen \cup {NoPart}]
        /\ alive = Parts(h)
        /\ \A j \in 1..Len(Cleanup) :
             j < k + 1 /\ Cleanup[j] \in Part => h[Cleanup[j]] = NoPart
    BY <1>0, <1>3, <1>8, <2>2, AfterRest
  <2> PICK w : w = NextWait(Cleanup, k + 1, h)
    OBVIOUS
  <2> HIDE DEF k, h
  <2>4. /\ w \in (k + 1)..Len(Cleanup)
        /\ held' \in [Part -> Gen \cup {NoPart}]
        /\ \A j \in 1..Len(Cleanup) :
             j < w /\ Cleanup[j] \in Part => held'[Cleanup[j]] = NoPart
        /\ alive' = Parts([p \in Part |->
                      IF p = Cleanup[w] THEN NoPart ELSE held'[p]])
        /\ HeartFirst
    BY <2>1, <2>3, TornDown
  <2>5. w \in 1..Len(Cleanup)
    BY <2>3, <2>4, <1>3, OrderFacts
  <2>6. starting' = [at |-> starting.at, k |-> w]
    BY <1>0, <2>1 DEF ServiceTypeOK
  <2>7. ServiceTypeOK'
    <3>1. alive' \subseteq Part \X Gen
      BY <1>0, <2>1 DEF ServiceTypeOK, TearDown
    <3>2. starting' \in [at : {"idle", "load", "open", "sources", "collector"}
                               \cup Failure, k : 0..Len(Cleanup)]
      BY <1>1, <2>5, <2>6, OrderFacts
    <3> QED
      BY <1>0, <1>1, <1>2, <1>4, <2>1, <2>4, <3>1, <3>2 DEF ServiceTypeOK
  <2>8. Owned'
    <3>1. \A p \in Part : Halted(p)' <=> Cleanup[w] = p
      BY <1>1, <1>2, <2>6 DEF Halted
    <3>2. alive' = Parts([p \in Part |->
                     IF p = Cleanup[w] THEN NoPart ELSE held'[p]])
      BY <2>4
    <3> QED
      BY <3>1, <3>2, TornOwned
  <2>9. StartStaged'
    BY <1>1, <2>4, <2>5, <2>6 DEF StartStaged, Failure
  <2>10. StopStaged' /\ Between'
    BY <1>0, <1>1, <1>2, <2>1, <2>6 DEF StopStaged, Between, Idle, Failure
  <2> QED
    BY <2>4, <1>6, <2>7, <2>8, <2>9, <2>10 DEF ServInv
<1> QED
  BY <1>7, <1>8

LEMMA StopBeginsInvariant ==
  ASSUME ServInv, StopBegins
  PROVE  ServInv' /\ HeartFirst
<1>0. ServiceTypeOK /\ Owned /\ StartStaged /\ StopStaged /\ Between /\ Counted
  BY DEF ServInv
<1> DEFINE w == NextWait(Shutdown, 1, held)
<1>1. /\ stopping.at = "wait" /\ starting = Idle
      /\ serviceStopping' = TRUE /\ startupRetry' = FALSE
      /\ TearDown(Shutdown, 1, held)
      /\ stopping' = [at |-> "down", k |-> w]
      /\ UNCHANGED <<collector, starting, failedCollectorStart, wanted,
                     revived, counts>>
  BY DEF StopBegins
<1> HIDE DEF w
<1>2. /\ stopping # Idle /\ ~wanted /\ (held # Null => ~failedCollectorStart)
      /\ starting.at \notin Failure /\ stopping.at # "down" /\ starts # 0
  BY <1>0, <1>1 DEF StopStaged, Between, Counted, Idle, Failure
<1>3. alive = Parts(held)
  BY <1>0, <1>2, Undisturbed DEF Owned
<1>4. /\ w \in 1..Len(Shutdown)
      /\ held' \in [Part -> Gen \cup {NoPart}]
      /\ \A p \in Part : held'[p] \in {held[p], NoPart}
      /\ \A j \in 1..Len(Shutdown) :
           j < w /\ Shutdown[j] \in Part => held'[Shutdown[j]] = NoPart
      /\ alive' = Parts([p \in Part |->
                    IF p = Shutdown[w] THEN NoPart ELSE held'[p]])
      /\ HeartFirst
  <2>1. 1 \in 1..Len(Shutdown)
    BY OrderFacts
  <2>2. held \in [Part -> Gen \cup {NoPart}]
    BY <1>0 DEF ServiceTypeOK
  <2>3. \A j \in 1..Len(Shutdown) :
          j < 1 /\ Shutdown[j] \in Part => held[Shutdown[j]] = NoPart
    BY OrderFacts
  <2>4. w = NextWait(Shutdown, 1, held)
    BY DEF w
  <2> QED
    BY <1>1, <1>3, <2>1, <2>2, <2>3, <2>4, TornDown
<1>5. held' # Null => held # Null
  BY <1>0, <1>4 DEF Null, ServiceTypeOK
<1>6. ServiceTypeOK'
  <2>1. alive' \subseteq Part \X Gen
    BY <1>0, <1>1 DEF ServiceTypeOK, TearDown
  <2>2. stopping' \in [at : {"idle", "wait", "down"}, k : 0..Len(Shutdown)]
    BY <1>1, <1>4, OrderFacts
  <2> QED
    BY <1>0, <1>1, <1>4, <2>1, <2>2 DEF ServiceTypeOK, counts
<1>7. Owned'
  <2>1. \A p \in Part : Halted(p)' <=> Shutdown[w] = p
    BY <1>1, <1>2 DEF Halted
  <2>2. alive' = Parts([p \in Part |->
                   IF p = Shutdown[w] THEN NoPart ELSE held'[p]])
    BY <1>4
  <2> QED
    BY <2>1, <2>2, TornOwned
<1>8. StartStaged'
  BY <1>1 DEF StartStaged, Idle, Failure
<1>9. StopStaged'
  BY <1>1, <1>2, <1>4, <1>5 DEF StopStaged, Idle
<1>10. Between'
  BY <1>1 DEF Between, Idle
<1>11. Counted'
  <2>1. Failing' => Failing
    BY <1>1, <1>2, <1>5 DEF Failing, Idle, Failure
  <2>2. starts \in Nat /\ stops \in Nat /\ faults \in Nat
        /\ UNCHANGED <<starts, stops, faults, wanted>>
    BY <1>0, <1>1, ServiceAssumption DEF ServiceTypeOK, Gen, counts
  <2> QED
    BY <2>1, <2>2, <1>0, <1>2 DEF Counted
<1> QED
  BY <1>4, <1>6, <1>7, <1>8, <1>9, <1>10, <1>11 DEF ServInv

LEMMA StopGoesOnInvariant ==
  ASSUME ServInv, StopGoesOn
  PROVE  ServInv' /\ HeartFirst
<1>0. ServiceTypeOK /\ Owned /\ StartStaged /\ StopStaged /\ Between /\ Counted
  BY DEF ServInv
<1> DEFINE k == stopping.k
           h == After(Shutdown, k)
<1>1. /\ stopping.at = "down"
      /\ UNCHANGED <<starting, flags, wanted, revived, counts>>
  BY DEF StopGoesOn
<1>2. /\ UNCHANGED <<serviceStopping, failedCollectorStart, startupRetry>>
      /\ UNCHANGED <<starts, stops, faults>>
  BY <1>1 DEF flags, counts
<1>3. /\ starting = Idle /\ ~startupRetry /\ serviceStopping /\ ~wanted
      /\ held # Null => ~failedCollectorStart
      /\ starting.at \notin Failure /\ stopping # Idle /\ starts # 0
  BY <1>0, <1>1 DEF StopStaged, Counted, Idle, Failure
<1>4. /\ k \in 1..Len(Shutdown)
      /\ \A j \in 1..Len(Shutdown) :
           j < k /\ Shutdown[j] \in Part => held[Shutdown[j]] = NoPart
  BY <1>0, <1>1 DEF StopStaged
<1>5. starts \in Nat /\ stops \in Nat /\ faults \in Nat
  BY <1>0, ServiceAssumption DEF ServiceTypeOK, Gen
<1>6. StartStaged'
  BY <1>1, <1>3 DEF StartStaged, Idle, Failure
<1>7. CASE Shutdown[k] = "collector"
  <2>1. collector' = FALSE /\ stopping' = Idle /\ UNCHANGED <<held, alive>>
    BY <1>7 DEF StopGoesOn
  <2>2. held = Null
    BY <1>0, <1>4, <1>7, AllGone
  <2>3. ServiceTypeOK'
    <3>1. stopping' \in [at : {"idle", "wait", "down"}, k : 0..Len(Shutdown)]
      BY <2>1, OrderFacts DEF Idle
    <3> QED
      BY <1>0, <1>1, <1>2, <2>1, <3>1 DEF ServiceTypeOK
  <2>4. Owned'
    BY <1>0, <2>1, <2>2, OwnedNothing
  <2>5. StopStaged' /\ Between'
    BY <1>1, <1>2, <1>3, <2>1, <2>2 DEF StopStaged, Between, Entire, Idle
  <2>6. Counted'
    <3>1. Failing' => Failing
      BY <1>1, <1>2, <2>1 DEF Failing
    <3> QED
      BY <3>1, <1>0, <1>1, <1>2, <1>3, <1>5 DEF Counted
  <2>7. HeartFirst
    BY <2>1 DEF HeartFirst, Disappears, Alive
  <2> QED
    BY <2>7, <1>6, <2>3, <2>4, <2>5, <2>6 DEF ServInv
<1>8. CASE Shutdown[k] # "collector"
  <2>1. /\ TearDown(Shutdown, k + 1, h)
        /\ stopping' = [stopping EXCEPT !.k = NextWait(Shutdown, k + 1, h)]
        /\ UNCHANGED collector
    BY <1>8 DEF StopGoesOn
  <2>2. \A p \in Part : Halted(p) <=> Shutdown[k] = p
    BY <1>1, <1>3 DEF Halted
  <2>3. /\ k + 1 \in 1..Len(Shutdown)
        /\ h \in [Part -> Gen \cup {NoPart}]
        /\ alive = Parts(h)
        /\ \A j \in 1..Len(Shutdown) :
             j < k + 1 /\ Shutdown[j] \in Part => h[Shutdown[j]] = NoPart
        /\ \A p \in Part : h[p] \in {held[p], NoPart}
    BY <1>0, <1>4, <1>8, <2>2, AfterRest
  <2> PICK w : w = NextWait(Shutdown, k + 1, h)
    OBVIOUS
  <2> HIDE DEF k, h
  <2>4. /\ w \in (k + 1)..Len(Shutdown)
        /\ held' \in [Part -> Gen \cup {NoPart}]
        /\ \A p \in Part : held'[p] \in {h[p], NoPart}
        /\ \A j \in 1..Len(Shutdown) :
             j < w /\ Shutdown[j] \in Part => held'[Shutdown[j]] = NoPart
        /\ alive' = Parts([p \in Part |->
                      IF p = Shutdown[w] THEN NoPart ELSE held'[p]])
        /\ HeartFirst
    BY <2>1, <2>3, TornDown
  <2>5. w \in 1..Len(Shutdown)
    BY <2>3, <2>4, <1>4, OrderFacts
  <2>6. stopping' = [at |-> "down", k |-> w]
    BY <1>0, <1>1, <2>1 DEF ServiceTypeOK
  <2>7. held' # Null => held # Null
    <3>1. \A p \in Part : held'[p] \in {held[p], NoPart}
      BY <2>3, <2>4
    <3> QED
      BY <3>1, <2>4 DEF Null
  <2>8. ServiceTypeOK'
    <3>1. alive' \subseteq Part \X Gen
      BY <1>0, <2>1 DEF ServiceTypeOK, TearDown
    <3>2. stopping' \in [at : {"idle", "wait", "down"}, k : 0..Len(Shutdown)]
      BY <2>5, <2>6, OrderFacts
    <3> QED
      BY <1>0, <1>1, <1>2, <1>3, <2>1, <2>4, <3>1, <3>2 DEF ServiceTypeOK
  <2>9. Owned'
    <3>1. \A p \in Part : Halted(p)' <=> Shutdown[w] = p
      BY <1>1, <1>3, <2>6 DEF Halted
    <3>2. alive' = Parts([p \in Part |->
                     IF p = Shutdown[w] THEN NoPart ELSE held'[p]])
      BY <2>4
    <3> QED
      BY <3>1, <3>2, TornOwned
  <2>10. StopStaged' /\ Between'
    <3>1. StopStaged'
      BY <1>1, <1>2, <1>3, <2>4, <2>5, <2>6, <2>7 DEF StopStaged, Idle
    <3>2. Between'
      BY <1>2, <1>3, <2>6 DEF Between, Idle
    <3> QED
      BY <3>1, <3>2
  <2>11. Counted'
    <3>1. Failing' => Failing
      BY <1>1, <1>2, <1>3, <2>7 DEF Failing
    <3> QED
      BY <3>1, <1>0, <1>1, <1>2, <1>3, <1>5 DEF Counted
  <2> QED
    BY <2>4, <1>6, <2>8, <2>9, <2>10, <2>11 DEF ServInv
<1> QED
  BY <1>7, <1>8

LEMMA ServNext ==
  ASSUME ~Overlap, ServInv, [ServiceNext]_serviceVars
  PROVE  ServInv'
<1>1. CASE UNCHANGED serviceVars
  <2>1. /\ UNCHANGED <<held, alive, collector, starting, stopping,
                       serviceStopping, failedCollectorStart, startupRetry>>
        /\ UNCHANGED <<wanted, revived, starts, stops, faults>>
    BY <1>1 DEF serviceVars, parts, flags, counts
  <2>2. Rest' = Rest
    BY <2>1 DEF Rest, Halted
  <2>3. Parts(Rest)' = Parts(Rest)
    BY <2>2 DEF Parts
  <2>4. ServiceTypeOK'
    BY <2>1 DEF ServInv, ServiceTypeOK
  <2>5. Owned' /\ Counted'
    BY <2>1, <2>3 DEF ServInv, Owned, Counted, Failing
  <2>6. StartStaged' /\ StopStaged' /\ Between'
    BY <2>1
       DEF ServInv, StartStaged, StopStaged, Between, Entire, Running
  <2> QED
    BY <2>4, <2>5, <2>6 DEF ServInv
<1>2. CASE HostStarts
  BY <1>2, HostStartsInvariant
<1>3. CASE RetryFires
  BY <1>3, RetryInvariant
<1>4. CASE Recover
  BY <1>4, RecoverInvariant
<1>5. CASE Loaded \/ Opened \/ Created \/ Started
  BY <1>5, StartGoesOnInvariant
<1>6. CASE CleanedUp
  BY <1>6, CleanedUpInvariant
<1>7. CASE \E why \in Failure : Fails(why)
  BY <1>7, FailsInvariant
<1>8. CASE HostStops
  BY <1>8, HostStopsInvariant
<1>9. CASE StopBegins
  BY <1>9, StopBeginsInvariant
<1>10. CASE StopGoesOn
  BY <1>10, StopGoesOnInvariant
<1> QED
  BY <1>1, <1>2, <1>3, <1>4, <1>5, <1>6, <1>7, <1>8, <1>9, <1>10
     DEF ServiceNext, StartGoesOn

LEMMA ServInvariance ==
  ASSUME ~Overlap
  PROVE  JointSpec => []ServInv
<1>1. JointInit => ServInv
  BY ServStart DEF JointInit
<1>2. ServInv /\ [JointNext]_allVars => ServInv'
  BY ServNext DEF JointNext, allVars
<1> QED
  BY <1>1, <1>2, PTL DEF JointSpec

(* A stop that is over leaves nothing behind, and nothing starts the       *)
(* service again before the host or the operator does, provided that the   *)
(* operator does not recover it while the host stops it (plugin.js).       *)
THEOREM StopsForGood ==
  ASSUME ~Overlap
  PROVE  JointSpec => []StopIsFinal
<1>1. ASSUME ServInv PROVE StopIsFinal
  <2> SUFFICES ASSUME ~wanted, stopping = Idle, ~revived
               PROVE  held = Null /\ alive = {} /\ starting = Idle
                      /\ ~startupRetry
    BY DEF StopIsFinal
  <2>1. held = Null /\ starting = Idle /\ ~startupRetry
    BY <1>1 DEF ServInv, Between
  <2>2. Rest = Null
    BY <2>1 DEF Rest, Null
  <2>3. alive = {}
    BY <1>1, <2>2 DEF ServInv, Owned, Parts, Null
  <2> QED
    BY <2>1, <2>3
<1> QED
  BY <1>1, ServInvariance, PTL

-----------------------------------------------------------------------------
(* How many supervisors there may be: one more than stops while the host   *)
(* wants the service, and no more than stops between a stop and the next   *)
(* start of the host, with room for one when a recovery may create it.     *)
Roomy ==
  IF starts = 0 THEN last = 0
  ELSE IF wanted
  THEN last <= stops + (IF Alive("heart") /\ starting = Idle THEN 1 ELSE 0)
  ELSE last <= stops /\ (\/ Alive("heart") /\ starting = Idle
                         \/ last + 1 <= stops
                         \/ starting = Idle /\ serviceStopping
                            /\ ~failedCollectorStart)

(* What the heartbeat sees of the service.                                 *)
Seen ==
  /\ spoolOpen <=> Alive("spool")
  /\ ~NoneRuns <=> Alive("heart")

WholeInv == ServInv /\ TypeOK /\ Seen /\ Roomy

LEMMA AgreeRoom ==
  ASSUME MaxStops < MaxStarts, ServiceTypeOK, Counted, TypeOK, Roomy,
         starting # Idle
  PROVE  last < MaxStarts
BY ServiceAssumption, HeartbeatAssumption
   DEF ServiceTypeOK, Counted, TypeOK, Roomy

(* The heartbeat's part of a step of the service, in which not both the    *)
(* supervisor and the spool come or go.                                    *)
LEMMA FollowsSeen ==
  ASSUME TypeOK, TypeOK', Seen, Follows,
         (Alive("heart")' <=> Alive("heart")) \/ (Alive("spool")' <=> Alive("spool"))
  PROVE  Seen' /\ last' = last + (IF Appears("heart") THEN 1 ELSE 0)
<1>1. CASE Appears("spool")
  <2>1. Open /\ ~Appears("heart") /\ (Alive("heart")' <=> Alive("heart"))
    BY <1>1 DEF Follows, Appears, Disappears
  <2> QED
    BY <1>1, <2>1 DEF Open, Seen, NoneRuns, supervision, Appears, TypeOK
<1>2. CASE Appears("heart")
  <2>1. Start /\ (Alive("spool")' <=> Alive("spool"))
    BY <1>2 DEF Follows, Appears, Disappears
  <2>2. last' \in Supervisor /\ ~stopped'[last']
    <3>1. last' \in Supervisor
      BY <2>1 DEF Start, TypeOK, Supervisor
    <3> QED
      BY <2>1, <3>1 DEF Start, TypeOK
  <2> QED
    BY <1>2, <2>1, <2>2
       DEF Start, Seen, NoneRuns, Appears, TypeOK, Supervisor
<1>3. CASE Disappears("heart")
  <2>1. /\ Stop /\ ~Appears("heart") /\ ~Alive("heart")'
        /\ (Alive("spool")' <=> Alive("spool"))
    BY <1>3 DEF Follows, Appears, Disappears
  <2> QED
    BY <2>1 DEF Stop, Seen, NoneRuns, TypeOK
<1>4. CASE Disappears("spool") /\ ~Disappears("heart") /\ ~Appears("heart")
  <2>1. /\ Close /\ ~Alive("spool")' /\ (Alive("heart")' <=> Alive("heart"))
    BY <1>4 DEF Follows, Appears, Disappears
  <2> QED
    BY <1>4, <2>1 DEF Close, Seen, NoneRuns, supervision, TypeOK
<1>5. CASE /\ ~Appears("spool") /\ ~Disappears("spool")
           /\ ~Appears("heart") /\ ~Disappears("heart")
  <2>1. Elsewhere
    BY <1>5 DEF Follows
  <2> QED
    BY <1>5, <2>1
       DEF Elsewhere, Seen, NoneRuns, supervision, TypeOK, Appears, Disappears
<1> QED
  BY <1>1, <1>2, <1>3, <1>4, <1>5

LEMMA StillAlive ==
  ASSUME alive' = alive, NEW p
  PROVE  ~Appears(p) /\ ~Disappears(p) /\ (Alive(p)' <=> Alive(p))
BY DEF Appears, Disappears, Alive

LEMMA CreateAlive ==
  ASSUME ServiceTypeOK, starts # 0, NEW ps, Create(ps), NEW p, p \notin ps
  PROVE  ~Appears(p) /\ ~Disappears(p) /\ (Alive(p)' <=> Alive(p))
<1>1. alive' = alive \cup {<<q, starts>> : q \in ps \ {"uploader"}}
  BY DEF Create
<1>2. \A n : <<p, n>> \in alive' <=> <<p, n>> \in alive
  BY <1>1
<1> QED
  BY <1>2 DEF Appears, Disappears, Alive

(* In no step of the service do both of them come or go, and a supervisor  *)
(* comes with the end of a start only.                                     *)
LEMMA Apart ==
  ASSUME ServInv, ServiceNext
  PROVE  /\ \/ Alive("heart")' <=> Alive("heart")
            \/ Alive("spool")' <=> Alive("spool")
         /\ Appears("heart") => Started
<1>1. CASE HostStarts \/ RetryFires \/ Recover \/ Loaded \/ HostStops
  <2>1. alive' = alive
    BY <1>1 DEF HostStarts, RetryFires, Recover, Loaded, HostStops, parts
  <2> QED
    BY <2>1, StillAlive
<1>2. CASE Opened \/ Created \/ Started
  <2>1. starting.at \in {"open", "sources", "collector"}
    BY <1>2 DEF Opened, Created, Started, Reached
  <2>2. ServiceTypeOK /\ starts # 0
    BY <2>1, UnderWay DEF ServInv
  <2>3. CASE Opened
    <3>1. Create({"spool"}) /\ "heart" \notin {"spool"}
      BY <2>3 DEF Opened
    <3> QED
      BY <2>2, <3>1, CreateAlive
  <2>4. CASE Created
    <3>1. /\ Create({"uploader", "deliveries", "runner", "pump", "interval"})
          /\ "heart" \notin {"uploader", "deliveries", "runner", "pump",
                             "interval"}
      BY <2>4 DEF Created
    <3> QED
      BY <2>2, <3>1, CreateAlive
  <2>5. CASE Started
    <3>1. Create({"heart"}) /\ "spool" \notin {"heart"}
      BY <2>5 DEF Started
    <3> QED
      BY <2>2, <2>5, <3>1, CreateAlive
  <2> QED
    BY <1>2, <2>3, <2>4, <2>5
<1>3. CASE HeartFirst
  <2>1. ~Appears("heart")
    BY <1>3 DEF HeartFirst, Appears, Alive
  <2>2. (Alive("heart")' <=> Alive("heart")) \/ Disappears("heart")
    BY <2>1 DEF Appears, Disappears
  <2> QED
    BY <1>3, <2>1, <2>2 DEF HeartFirst
<1> QED
  BY <1>1, <1>2, <1>3, FailsInvariant, CleanedUpInvariant,
     StopBeginsInvariant, StopGoesOnInvariant DEF ServiceNext, StartGoesOn

LEMMA HeartHeld ==
  ASSUME ServInv, Alive("heart")
  PROVE  held["heart"] # NoPart /\ held # Null
<1>1. "heart" \in Part \ {"uploader"}
  BY DEF Part
<1>2. Rest \in [Part -> Gen \cup {NoPart}] /\ alive = Parts(Rest)
  BY DEF ServInv, ServiceTypeOK, Rest, Owned
<1>3. Rest["heart"] # NoPart
  BY <1>1, <1>2, AliveIff DEF Alive
<1> QED
  BY <1>1, <1>3 DEF Rest, Null

LEMMA RoomyNext ==
  ASSUME ~Overlap, ServInv, TypeOK, Roomy, ServiceNext,
         last' = last + (IF Appears("heart") THEN 1 ELSE 0)
  PROVE  Roomy'
<1>0. ServiceTypeOK /\ StartStaged /\ StopStaged /\ Between /\ Counted
  BY DEF ServInv
<1>1. last \in Nat /\ starts \in Nat /\ stops \in Nat
  BY <1>0, ServiceAssumption, HeartbeatAssumption DEF ServiceTypeOK, Gen, TypeOK
<1>2. CASE HostStarts
  <2>1. last' = last /\ (Alive("heart")' <=> Alive("heart"))
    <3>1. alive' = alive
      BY <1>2 DEF HostStarts, parts
    <3>2. ~Appears("heart") /\ (Alive("heart")' <=> Alive("heart"))
      BY <3>1, StillAlive
    <3> QED
      BY <1>1, <3>2
  <2>2. stops' = stops /\ ~wanted /\ wanted' = TRUE /\ starts' # 0
    BY <1>0, <1>1, <1>2 DEF HostStarts, BeginStart, Counted
  <2>3. last <= stops
    BY <1>1, <2>2 DEF Roomy
  <2> QED
    BY <1>1, <2>1, <2>2, <2>3 DEF Roomy
<1>3. CASE RetryFires \/ Recover
  <2>1. last' = last /\ (Alive("heart")' <=> Alive("heart"))
    <3>1. alive' = alive
      BY <1>3 DEF RetryFires, Recover, parts
    <3>2. ~Appears("heart") /\ (Alive("heart")' <=> Alive("heart"))
      BY <3>1, StillAlive
    <3> QED
      BY <1>1, <3>2
  <2>2. UNCHANGED <<stops, wanted, failedCollectorStart>> /\ starts # 0
    BY <1>0, <1>3 DEF RetryFires, Recover, Recoverable, Counted
  <2>3. CASE starting = Idle
    <3>1. ~Alive("heart") /\ (~serviceStopping \/ failedCollectorStart)
          /\ starts' = starts + 1
      BY <1>0, <1>3, <2>3, HeartHeld
         DEF RetryFires, Recover, Recoverable, Between, BeginStart
    <3>2. IF wanted THEN last <= stops ELSE last + 1 <= stops
      BY <1>1, <2>2, <3>1 DEF Roomy
    <3> QED
      BY <1>1, <2>1, <2>2, <3>1, <3>2 DEF Roomy
  <2>4. CASE starting # Idle
    <3>1. UNCHANGED <<starting, starts>> /\ ~startupRetry
      BY <1>0, <1>3, <2>4 DEF RetryFires, Recover, BeginStart, Between
    <3> QED
      BY <1>1, <2>1, <2>2, <2>4, <3>1 DEF Roomy
  <2> QED
    BY <2>3, <2>4
<1>4. CASE (Loaded \/ Opened \/ Created) \/ \E why \in Failure : Fails(why)
  <2>1. starting # Idle /\ starting' # Idle /\ starts # 0
        /\ starts' = starts /\ stops' = stops /\ wanted' = wanted
    <3>1. starting.at \in {"load", "open", "sources", "collector"}
      BY <1>4 DEF Loaded, Opened, Created, Reached, Fails
    <3>2. starting # Idle /\ starts # 0
      BY <3>1, UnderWay
    <3>3. starting' # Idle
      BY <1>0, <1>4
         DEF Loaded, Opened, Created, Reached, Fails, Idle, Failure,
             ServiceTypeOK
    <3>4. starts' = starts /\ stops' = stops /\ wanted' = wanted
      BY <1>4 DEF Loaded, Opened, Created, Reached, Fails, counts
    <3> QED
      BY <3>2, <3>3, <3>4
  <2>2. last' = last
    <3>1. ~Started
      BY <2>1 DEF Started
    <3>2. ~Appears("heart")
      BY <3>1, Apart
    <3> QED
      BY <1>1, <3>2
  <2> QED
    BY <1>1, <2>1, <2>2 DEF Roomy
<1>5. CASE Started
  <2>1. /\ starting # Idle /\ starts # 0 /\ starting' = Idle
        /\ starts' = starts /\ stops' = stops /\ wanted' = wanted
    BY <1>5, UnderWay DEF Started, counts
  <2>2. Alive("heart")'
    <3>1. <<"heart", starts>> \in alive'
      BY <1>5 DEF Started, Create
    <3>2. starts \in Gen /\ Gen' = Gen
      BY <1>0, <2>1 DEF ServiceTypeOK, Gen
    <3> QED
      BY <3>1, <3>2 DEF Alive
  <2>3. last' \in {last, last + 1}
    BY <1>1
  <2> QED
    BY <1>1, <2>1, <2>2, <2>3 DEF Roomy
<1>6. CASE CleanedUp
  <2>1. last' = last
    BY <1>1, <1>6, CleanedUpInvariant DEF HeartFirst, Appears, Alive
  <2>2. starts' = starts /\ stops' = stops /\ wanted' = wanted
        /\ starting # Idle /\ starts # 0
    BY <1>0, <1>6 DEF CleanedUp, counts, Idle, Failure, Counted
  <2>3. IF wanted THEN last <= stops ELSE last + 1 <= stops
    BY <1>1, <2>2 DEF Roomy
  <2> QED
    BY <1>1, <2>1, <2>2, <2>3 DEF Roomy
<1>7. CASE HostStops
  <2>1. last' = last /\ (Alive("heart")' <=> Alive("heart"))
    <3>1. alive' = alive
      BY <1>7 DEF HostStops, parts
    <3>2. ~Appears("heart") /\ (Alive("heart")' <=> Alive("heart"))
      BY <3>1, StillAlive
    <3> QED
      BY <1>1, <3>2
  <2>2. /\ stops' = stops + 1 /\ wanted /\ ~wanted' /\ starts' = starts
        /\ starting' = starting /\ starts # 0
    BY <1>0, <1>7 DEF HostStops, Counted
  <2> QED
    BY <1>1, <2>1, <2>2 DEF Roomy
<1>8. CASE StopBegins \/ StopGoesOn
  <2>1. last' = last
    BY <1>1, <1>8, StopBeginsInvariant, StopGoesOnInvariant
       DEF HeartFirst, Appears, Alive
  <2>2. /\ starting = Idle /\ starting' = Idle /\ serviceStopping'
        /\ ~wanted /\ ~wanted' /\ stopping # Idle
        /\ starts' = starts /\ stops' = stops
        /\ failedCollectorStart' = failedCollectorStart /\ starts # 0
    BY <1>0, <1>8
       DEF StopBegins, StopGoesOn, StopStaged, Idle, flags, counts, Counted
  <2>3. held # Null => ~failedCollectorStart
    BY <1>0, <1>8, <2>2 DEF StopBegins, StopGoesOn, StopStaged, Between
  <2>4. last <= stops /\ (failedCollectorStart => last + 1 <= stops)
    BY <1>1, <2>2, <2>3, HeartHeld DEF Roomy
  <2> QED
    BY <1>1, <2>1, <2>2, <2>4 DEF Roomy
<1> QED
  BY <1>2, <1>3, <1>4, <1>5, <1>6, <1>7, <1>8 DEF ServiceNext, StartGoesOn

LEMMA WholeNext ==
  ASSUME ~Overlap, WholeInv, TypeOK', [JointNext]_allVars
  PROVE  WholeInv'
<1>0. ServInv /\ TypeOK /\ Seen /\ Roomy
  BY DEF WholeInv
<1>1. CASE ServiceNext /\ Follows
  <2>1. ServInv'
    BY <1>0, <1>1, ServNext
  <2>2. Seen' /\ last' = last + (IF Appears("heart") THEN 1 ELSE 0)
    BY <1>0, <1>1, Apart, FollowsSeen
  <2>3. Roomy'
    BY <1>0, <1>1, <2>2, RoomyNext
  <2> QED
    BY <2>1, <2>2, <2>3 DEF WholeInv
<1>2. CASE \/ Supervises /\ UNCHANGED serviceVars
           \/ UNCHANGED allVars
  <2>1. UNCHANGED serviceVars
    BY <1>2 DEF allVars
  <2>2. ServInv'
    BY <1>0, <2>1, ServNext
  <2>3. UNCHANGED <<last, stopped, spoolOpen>>
    BY <1>2
       DEF Supervises, allVars, vars, supervision, Tick, Deadline, Request,
           Operation, FailTransient, FailPermanent, Failed, Succeeded, Ended,
           Authorized, Reconciled, SnapshotTaken, Leave, Proceed
  <2>4. UNCHANGED <<alive, starting, serviceStopping, failedCollectorStart,
                    wanted, starts, stops>>
    BY <2>1 DEF serviceVars, parts, flags, counts
  <2>5. Seen' /\ Roomy'
    BY <1>0, <2>3, <2>4 DEF Seen, NoneRuns, Roomy, Alive
  <2> QED
    BY <1>0, <2>2, <2>5 DEF WholeInv
<1> QED
  BY <1>1, <1>2 DEF JointNext

LEMMA WholeStart == JointInit => WholeInv
<1> SUFFICES ASSUME JointInit PROVE WholeInv
  OBVIOUS
<1>1. ServInv /\ TypeOK
  BY ServStart, HeartInit DEF JointInit, HeartInv
<1>2. Seen /\ Roomy
  BY DEF JointInit, ServiceInit, Init, Seen, NoneRuns, Alive, Roomy
<1> QED
  BY <1>1, <1>2 DEF WholeInv

(* Between its calls the service has all of its parts or none, what runs   *)
(* is always what it holds, and the heartbeat sees the service as it is:   *)
(* for any number of faults and stops, provided that the operator does not *)
(* recover a service that is being stopped, and with room for a supervisor *)
(* more than there are stops.                                              *)
THEOREM AlwaysWhole ==
  ASSUME ~Overlap, MaxStops < MaxStarts
  PROVE  JointSpec => []Whole
<1>1. ASSUME WholeInv PROVE Whole
  <2>1. ServInv /\ TypeOK /\ Seen /\ Roomy /\ ServiceTypeOK /\ Owned /\ Between
        /\ StopStaged /\ Counted
    BY <1>1 DEF WholeInv, ServInv
  <2>2. NoOrphan
    <3> SUFFICES ASSUME NEW p \in Part, NEW n \in Gen, <<p, n>> \in alive
                 PROVE  held[p] = n
      BY DEF NoOrphan
    <3>1. PICK q \in Part \ {"uploader"} :
            Rest[q] # NoPart /\ <<p, n>> = <<q, Rest[q]>>
      BY <2>1 DEF Owned, Parts
    <3> QED
      BY <3>1 DEF Rest
  <2>3. AllOrNothing
    <3> SUFFICES ASSUME Quiet
                 PROVE  \/ Running /\ collector /\ ~startupRetry
                           /\ alive = {<<p, held[p]>> : p \in Part \ {"uploader"}}
                        \/ held = Null /\ alive = {} /\ ~collector
      BY DEF AllOrNothing
    <3>1. starting.at \notin Failure /\ stopping.at # "down"
      BY DEF Quiet, Idle, Failure
    <3>2. alive = Parts(held)
      BY <2>1, <3>1, Undisturbed DEF Owned
    <3>3. Entire /\ (held # Null => ~startupRetry)
      BY <2>1, <3>1 DEF Between, Quiet
    <3>4. CASE held = Null /\ ~collector
      <4>1. Parts(Null) = {}
        BY DEF Parts, Null
      <4> QED
        BY <3>2, <3>4, <4>1
    <3>5. CASE Running /\ collector
      <4>1. held # Null
        <5>1. "spool" \in Part
          BY DEF Part
        <5> QED
          BY <3>5, <5>1 DEF Running, Null
      <4>2. Parts(held) = {<<p, held[p]>> : p \in Part \ {"uploader"}}
        <5>1. {q \in Part \ {"uploader"} : held[q] # NoPart} = Part \ {"uploader"}
          BY <3>5 DEF Running
        <5> QED
          BY <5>1 DEF Parts
      <4> QED
        BY <3>2, <3>3, <3>5, <4>1, <4>2
    <3> QED
      BY <3>3, <3>4, <3>5 DEF Entire
  <2>4. Agree
    <3>1. starting.at = "collector" => starting # Idle
      BY DEF Idle
    <3> QED
      BY <2>1, <3>1, AgreeRoom DEF Agree, Seen
  <2> QED
    BY <2>1, <2>2, <2>3, <2>4 DEF Whole
<1>2. JointSpec => []TypeOK
  BY HeartbeatImplemented, HeartInvariance, PTL DEF HeartInv
<1>3. WholeInv /\ TypeOK' /\ [JointNext]_allVars => WholeInv'
  BY WholeNext
<1> QED
  BY <1>1, <1>2, <1>3, WholeStart, PTL DEF JointSpec
=============================================================================
