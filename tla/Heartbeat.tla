------------------------------ MODULE Heartbeat ------------------------------
(***************************************************************************)
(* The heartbeat of the OpenClaw collector: the supervisor of              *)
(* core/heartbeat-supervisor.js around emitHeartbeat of                    *)
(* adapters/openclaw/plugin.js, whose awaits it cannot interrupt.          *)
(*                                                                         *)
(* Every start of the collector service creates a supervisor of its own.   *)
(* stop() waits one second for a flight, no longer: the flight of an       *)
(* earlier supervisor may still be in one of its awaits while a later one  *)
(* runs, and it sees the spool of the service of that moment.  So the      *)
(* state is a function of the supervisor, and the last one is the current. *)
(*                                                                         *)
(* Definitions that no action uses, each before the one it resembles, are  *)
(* plausible defects of that one, which the properties below must detect.  *)
(***************************************************************************)
EXTENDS Naturals

CONSTANTS
  MaxStarts,    \* bound: how often the service is started
  MaxFailures   \* maxFailures, after which the state is called failed

ASSUME HeartbeatAssumption ==
  MaxStarts \in Nat \ {0} /\ MaxFailures \in Nat \ {0}

Supervisor == 1..MaxStarts

VARIABLES
  last,       \* supervisors created so far
  stopped,    \* stopped[s]; stop() also aborts the controller of its flight
  timer,      \* timer[s]: tick is scheduled, at once or after a delay
  flight,     \* flight[s]: the await emitHeartbeat is in, see Stage
  state,      \* state[s]
  failures,   \* failures[s], counted up to MaxFailures
  healthy,    \* healthy[s]
  requested,  \* requested[s]
  spoolOpen,  \* the service has an open spool
  overdue,    \* history: the flight of s has passed its deadline
  lastOk,     \* history: the last flight of s to end succeeded
  unseen,     \* history: a request of s no later flight has begun for
  beat        \* history: the supervisor of the step's heartbeat, 0 = none

supervision ==
  <<stopped, timer, flight, state, failures, healthy, requested>>
history == <<overdue, lastOk, unseen>>
vars == <<last, supervision, spoolOpen, history, beat>>

(* "authorizing": synchronizeCollectorAuthorization; "reconciling":        *)
(* workReconciliation.reconcile; "snapshot": adapter.healthSnapshot.       *)
Stage == {"none", "authorizing", "reconciling", "snapshot"}

Schedule == {"none", "later", "now"}

State ==
  {"stopped", "checking", "ready", "recovering", "failed", "blocked",
   "timed-out"}

TypeOK ==
  /\ last \in 0..MaxStarts
  /\ stopped \in [Supervisor -> BOOLEAN]
  /\ timer \in [Supervisor -> Schedule]
  /\ flight \in [Supervisor -> Stage]
  /\ state \in [Supervisor -> State]
  /\ failures \in [Supervisor -> 0..MaxFailures]
  /\ healthy \in [Supervisor -> BOOLEAN]
  /\ requested \in [Supervisor -> BOOLEAN]
  /\ spoolOpen \in BOOLEAN
  /\ overdue \in [Supervisor -> BOOLEAN]
  /\ lastOk \in [Supervisor -> BOOLEAN]
  /\ unseen \in [Supervisor -> BOOLEAN]
  /\ beat \in 0..MaxStarts

Each(value) == [s \in Supervisor |-> value]

Init ==
  /\ last = 0
  /\ stopped = Each(TRUE) /\ timer = Each("none") /\ flight = Each("none")
  /\ state = Each("stopped") /\ failures = Each(0)
  /\ healthy = Each(FALSE) /\ requested = Each(FALSE)
  /\ spoolOpen = FALSE
  /\ overdue = Each(FALSE) /\ lastOk = Each(FALSE) /\ unseen = Each(FALSE)
  /\ beat = 0

Flying(s) == flight[s] # "none"

(* ready().                                                                *)
Ready(s) == ~stopped[s] /\ healthy[s] /\ state[s] \in {"ready", "checking"}

-----------------------------------------------------------------------------
(* tick() starts a flight.                                                 *)
Begin(s) ==
  /\ state' = [state EXCEPT ![s] = "checking"]
  /\ flight' = [flight EXCEPT ![s] = "authorizing"]
  /\ timer' = [timer EXCEPT ![s] = "none"]
  /\ overdue' = [overdue EXCEPT ![s] = FALSE]
  /\ unseen' = [unseen EXCEPT ![s] = FALSE]

NoneRuns == last # 0 => stopped[last]

(* The start of the service opens its spool long before the heartbeat.     *)
Open ==
  /\ ~spoolOpen
  /\ NoneRuns
  /\ spoolOpen' = TRUE
  /\ beat' = 0
  /\ UNCHANGED <<last, supervision, history>>

(* The heartbeat is created at the end of that start and ticks at once.    *)
Start ==
  /\ spoolOpen
  /\ NoneRuns
  /\ last < MaxStarts
  /\ last' = last + 1
  /\ stopped' = [stopped EXCEPT ![last'] = FALSE]
  /\ Begin(last')
  /\ beat' = 0
  /\ UNCHANGED <<failures, healthy, requested, spoolOpen, lastOk>>

Tick(s) ==
  /\ timer[s] # "none"
  /\ ~stopped[s]
  /\ ~Flying(s)
  /\ Begin(s)
  /\ beat' = 0
  /\ UNCHANGED <<last, stopped, failures, healthy, requested, spoolOpen, lastOk>>

DeadlineUnmarked(s) ==
  /\ Flying(s)
  /\ overdue' = [overdue EXCEPT ![s] = TRUE]
  /\ beat' = 0
  /\ UNCHANGED <<last, supervision, spoolOpen, lastOk, unseen>>

(* Fifteen seconds: the flight goes on, only its state is given up.        *)
Deadline(s) ==
  /\ Flying(s) /\ ~overdue[s]
  /\ overdue' = [overdue EXCEPT ![s] = TRUE]
  /\ IF stopped[s]
     THEN UNCHANGED <<state, healthy>>
     ELSE /\ state' = [state EXCEPT ![s] = "timed-out"]
          /\ healthy' = [healthy EXCEPT ![s] = FALSE]
  /\ beat' = 0
  /\ UNCHANGED <<last, stopped, timer, flight, failures, requested, spoolOpen,
                 lastOk, unseen>>

RequestRestarts(s) ==
  /\ ~stopped[s] /\ state[s] # "blocked"
  /\ unseen' = [unseen EXCEPT ![s] = TRUE]
  /\ timer' = [timer EXCEPT ![s] = "now"]
  /\ beat' = 0
  /\ UNCHANGED <<last, stopped, flight, state, failures, healthy, requested,
                 spoolOpen, overdue, lastOk>>

(* The authorization watch, for the current supervisor.                    *)
RequestForgotten(s) ==
  /\ ~stopped[s] /\ state[s] # "blocked"
  /\ unseen' = [unseen EXCEPT ![s] = TRUE]
  /\ timer' = [timer EXCEPT ![s] = IF Flying(s) THEN @ ELSE "now"]
  /\ beat' = 0
  /\ UNCHANGED <<last, stopped, flight, state, failures, healthy, requested,
                 spoolOpen, overdue, lastOk>>

Request(s) ==
  /\ ~stopped[s] /\ state[s] # "blocked"
  /\ unseen' = [unseen EXCEPT ![s] = TRUE]
  /\ IF Flying(s)
     THEN requested' = [requested EXCEPT ![s] = TRUE] /\ UNCHANGED timer
     ELSE timer' = [timer EXCEPT ![s] = "now"] /\ UNCHANGED requested
  /\ beat' = 0
  /\ UNCHANGED <<last, stopped, flight, state, failures, healthy, spoolOpen,
                 overdue, lastOk>>

-----------------------------------------------------------------------------
EndedForGood(s, next) ==
  /\ flight' = [flight EXCEPT ![s] = "none"]
  /\ overdue' = [overdue EXCEPT ![s] = FALSE]
  /\ IF stopped[s]
     THEN UNCHANGED <<state, timer, requested>>
     ELSE /\ state' = [state EXCEPT ![s] = next]
          /\ timer' = [timer EXCEPT ![s] =
               IF next \in {"blocked", "failed"} THEN "none"
               ELSE IF requested[s] THEN "now" ELSE "later"]
          /\ requested' = [requested EXCEPT ![s] = @ /\ next = "blocked"]
  /\ UNCHANGED <<last, stopped, spoolOpen, unseen>>

(* The continuation after the operation ended, and its finally.  A stopped *)
(* supervisor is left as it is.                                            *)
Ended(s, next) ==
  /\ flight' = [flight EXCEPT ![s] = "none"]
  /\ overdue' = [overdue EXCEPT ![s] = FALSE]
  /\ IF stopped[s]
     THEN UNCHANGED <<state, timer, requested>>
     ELSE /\ state' = [state EXCEPT ![s] = next]
          /\ timer' = [timer EXCEPT ![s] =
               IF next = "blocked" THEN "none"
               ELSE IF requested[s] THEN "now" ELSE "later"]
          /\ requested' = [requested EXCEPT ![s] = @ /\ next = "blocked"]
  /\ UNCHANGED <<last, stopped, spoolOpen, unseen>>

Succeeded(s) ==
  /\ Ended(s, "ready")
  /\ lastOk' = [lastOk EXCEPT ![s] = TRUE]
  /\ IF stopped[s]
     THEN UNCHANGED <<failures, healthy>>
     ELSE /\ failures' = [failures EXCEPT ![s] = 0]
          /\ healthy' = [healthy EXCEPT ![s] = TRUE]

Failed(s, next) ==
  /\ Ended(s, next)
  /\ lastOk' = [lastOk EXCEPT ![s] = FALSE]
  /\ IF stopped[s]
     THEN UNCHANGED <<failures, healthy>>
     ELSE /\ failures' = [failures EXCEPT ![s] =
                            IF @ < MaxFailures THEN @ + 1 ELSE @]
          /\ healthy' = [healthy EXCEPT ![s] = FALSE]

(* An await rejects, and the failure is not permanent: retried for ever,   *)
(* the delay growing to the interval.                                      *)
FailTransient(s) ==
  /\ Flying(s)
  /\ Failed(s, IF failures[s] + 1 >= MaxFailures
               THEN "failed" ELSE "recovering")
  /\ beat' = 0

(* A SpoolError of the quarantine, 401, 403 or the like: no retry.         *)
FailPermanent(s) ==
  /\ Flying(s)
  /\ Failed(s, "blocked")
  /\ beat' = 0

(* An await resolves; what follows checks the signal first.  With no       *)
(* active credential the heartbeat ends there.                             *)
Proceed(s, stage) ==
  /\ flight' = [flight EXCEPT ![s] = stage]
  /\ beat' = 0
  /\ UNCHANGED <<last, stopped, timer, state, failures, healthy, requested,
                 spoolOpen, history>>

Leave(s) == Succeeded(s) /\ beat' = 0

Authorized(s) ==
  /\ flight[s] = "authorizing"
  /\ \/ ~stopped[s] /\ spoolOpen /\ Proceed(s, "reconciling")
     \/ Leave(s)

Reconciled(s) ==
  /\ flight[s] = "reconciling"
  /\ IF stopped[s] THEN Leave(s) ELSE Proceed(s, "snapshot")

SnapshotUnchecked(s) ==
  /\ flight[s] = "snapshot"
  /\ Succeeded(s)
  /\ beat' = IF spoolOpen THEN s ELSE 0

(* The snapshot is there: the heartbeat is enqueued, synchronously.        *)
SnapshotTaken(s) ==
  /\ flight[s] = "snapshot"
  /\ Succeeded(s)
  /\ beat' = IF stopped[s] \/ ~spoolOpen THEN 0 ELSE s

(* stop(): the supervisor is stopped first, the spool closed later, after  *)
(* at most a second for the flight and the other deliveries.               *)
Stop ==
  /\ last # 0 /\ ~stopped[last]
  /\ stopped' = [stopped EXCEPT ![last] = TRUE]
  /\ state' = [state EXCEPT ![last] = "stopped"]
  /\ timer' = [timer EXCEPT ![last] = "none"]
  /\ beat' = 0
  /\ UNCHANGED <<last, flight, failures, healthy, requested, spoolOpen, history>>

Close ==
  /\ spoolOpen
  /\ NoneRuns
  /\ spoolOpen' = FALSE
  /\ beat' = 0
  /\ UNCHANGED <<last, supervision, history>>

Operation(s) ==
  \/ Authorized(s)
  \/ Reconciled(s)
  \/ SnapshotTaken(s)

(* What happens without the service.                                       *)
Supervises ==
  \E s \in Supervisor :
    \/ Tick(s)
    \/ Deadline(s)
    \/ Request(s)
    \/ Operation(s)
    \/ FailTransient(s)
    \/ FailPermanent(s)

(* A step of the service that is none of the heartbeat's.                  *)
Elsewhere ==
  /\ beat' = 0
  /\ UNCHANGED <<last, supervision, spoolOpen, history>>

Next ==
  \/ Open
  \/ Start
  \/ Stop
  \/ Close
  \/ Supervises
  \/ Elsewhere

Spec == Init /\ [][Next]_vars

-----------------------------------------------------------------------------
(* A supervisor that runs is blocked, or in flight, or its next tick is    *)
(* scheduled; in flight no tick is, so flights never overlap               *)
(* (heartbeat-supervisor.js:4-32).                                         *)
Supervised == \A s \in Supervisor : ~stopped[s] =>
  IF state[s] = "blocked" THEN ~Flying(s) /\ timer[s] = "none"
  ELSE Flying(s) <=> timer[s] = "none"

(* ready() means that the last completed check succeeded and the present   *)
(* one is within its deadline (docs/PARTIAL_START_RECOVERY.md:9).          *)
ReadyIsFresh == \A s \in Supervisor : Ready(s) => lastOk[s] /\ ~overdue[s]

(* "Late completion cannot ... enqueue a heartbeat" once its supervisor is *)
(* stopped, even into the spool of a later start                           *)
(* (docs/PARTIAL_START_RECOVERY.md:10).  It says nothing of a flight that  *)
(* only outlives its deadline: that one still enqueues its heartbeat.      *)
BeatOfTheLiving == beat # 0 => ~stopped[beat] /\ spoolOpen

(* A credential that changes is not left to the cadence: until a flight    *)
(* has begun after it, one is under way or the next tick comes at once     *)
(* (heartbeat-supervisor.js:28,35).                                        *)
RequestHeard == \A s \in Supervisor :
  unseen[s] /\ ~stopped[s] /\ state[s] # "blocked" =>
    Flying(s) \/ timer[s] = "now"

(* A transient failure "retries autonomously ... at most three consecutive *)
(* attempts" (docs/PARTIAL_START_RECOVERY.md:7).  The code, and its test   *)
(* test/heartbeat-supervisor.test.js:7, retry for ever: while the service  *)
(* runs and no failure is permanent, checks begin again and again.         *)
Recovers == \A s \in Supervisor :
  <>[](~stopped[s] /\ state[s] # "blocked") => []<>(state[s] = "checking")

(* What that line bounds: after MaxFailures failures in a row no check     *)
(* begins unless it was requested.  Not so: see run service_retries.       *)
RetriesBounded ==
  [][\A s \in Supervisor :
       failures[s] = MaxFailures /\ ~Flying(s) /\ ~unseen[s] => ~Flying(s)']_vars
=============================================================================
