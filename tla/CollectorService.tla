-------------------------- MODULE CollectorService --------------------------
(***************************************************************************)
(* The service of adapters/openclaw/plugin.js: start() with its failures   *)
(* and their retry, stop(), and the operator's sidewisp.recover.  Each of  *)
(* them awaits several times, and they share the variables that hold the   *)
(* parts they create and tear down.                                        *)
(*                                                                         *)
(* A part of the n-th start is <<part, n>>.  "deliveries" stands for the   *)
(* diagnostics, cron, context and usage deliveries, which are created and  *)
(* stopped together; "drain" for the last upload and the notifier's stop.  *)
(* What a part does is modelled in Delivery, Heartbeat, ScheduleRunner and *)
(* CronDelivery; ServiceHeartbeat composes the service with the heartbeat. *)
(***************************************************************************)
EXTENDS Naturals, Sequences, FiniteSetsExt

CONSTANTS
  Overlap,      \* sidewisp.recover may be called while the host stops
  MaxStops,     \* bound: stops by the host
  MaxFaults   \* bound: failures of a start

ASSUME ServiceAssumption ==
  Overlap \in BOOLEAN /\ MaxStops \in Nat /\ MaxFaults \in Nat

Part == {"runner", "pump", "heart", "interval", "deliveries", "spool",
         "uploader"}
Gen == 1..(2 * MaxStops + MaxFaults + 1)
NoPart == 0

VARIABLES
  held,      \* the closure's variables: the part each one holds, or null
  alive,     \* parts that are running or open
  collector, \* collector.isRunning()
  starting,  \* collectorStarting: the await it is at
  stopping,  \* stop(): the await it is at
  serviceStopping, failedCollectorStart, startupRetry,
  wanted,    \* the host: the service is started
  revived,   \* history: recovered after the host had stopped it
  starts, stops, faults

flags == <<serviceStopping, failedCollectorStart, startupRetry>>
counts == <<starts, stops, faults>>
parts == <<held, alive, collector>>
serviceVars == <<parts, starting, stopping, flags, wanted, revived, counts>>

Null == [p \in Part |-> NoPart]
Idle == [at |-> "idle", k |-> 0]

(* What the two teardowns stop, in the order of the code.                  *)
CleanupOfSpool == <<"spool", "uploader", "collector">>
CleanupLeavesUploader == <<"runner", "pump", "heart", "interval",
                           "deliveries", "spool", "collector">>
Cleanup == <<"runner", "pump", "heart", "interval", "deliveries", "spool",
             "uploader", "collector">>
Shutdown == <<"runner", "pump", "heart", "interval", "persist", "drain",
              "uploader", "deliveries", "spool", "collector">>

Failure == {"transient", "other", "refused"}

ServiceTypeOK ==
  /\ held \in [Part -> Gen \cup {NoPart}] /\ alive \subseteq Part \X Gen
  /\ collector \in BOOLEAN
  /\ starting \in [at : {"idle", "load", "open", "sources", "collector"}
                          \cup Failure, k : 0..Len(Cleanup)]
  /\ stopping \in [at : {"idle", "wait", "down"}, k : 0..Len(Shutdown)]
  /\ {serviceStopping, failedCollectorStart, startupRetry, wanted, revived}
       \subseteq BOOLEAN
  /\ startupRetry => starting = Idle /\ held = Null
  /\ starts \in Gen \cup {0} /\ stops \in 0..MaxStops
  /\ faults \in 0..MaxFaults

ServiceInit ==
  /\ held = Null /\ alive = {} /\ collector = FALSE
  /\ starting = Idle /\ stopping = Idle
  /\ serviceStopping = FALSE /\ failedCollectorStart = FALSE
  /\ startupRetry = FALSE
  /\ wanted = FALSE /\ revived = FALSE
  /\ starts = 0 /\ stops = 0 /\ faults = 0

-----------------------------------------------------------------------------
(* Teardown.  if (part) await part.stop(); part = null -- the interval and *)
(* the uploader are cleared at once, and where there is nothing to wait    *)
(* for the code goes on to the next stage.                                 *)

Waits(stage, h) ==
  \/ stage \in {"persist", "drain", "collector"}
  \/ stage \in Part \ {"interval", "uploader"} /\ h[stage] # NoPart

NextWait(order, k, h) == Min({j \in k..Len(order) : Waits(order[j], h)})

(* From stage k to the next await, with the variables in h.                *)
TearDown(order, k, h) ==
  LET w == NextWait(order, k, h)
      passed == {order[j] : j \in k..(w - 1)} \cap Part
      halted == passed \cup ({order[w]} \cap Part) IN
  /\ held' = [p \in Part |-> IF p \in passed THEN NoPart ELSE h[p]]
  /\ alive' = alive \ {<<p, h[p]>> : p \in halted}

(* The await of stage k is over.                                           *)
After(order, k) ==
  IF order[k] \in Part THEN [held EXCEPT ![order[k]] = NoPart] ELSE held

-----------------------------------------------------------------------------
(* start()                                                                 *)

(* Whoever calls it while it is under way gets the same promise.           *)
BeginStart ==
  IF starting = Idle
  THEN /\ starting' = [at |-> "load", k |-> 0]
       /\ starts' = starts + 1
       /\ serviceStopping' = FALSE /\ startupRetry' = FALSE
  ELSE UNCHANGED <<starting, starts, serviceStopping, startupRetry>>

HostStarts ==
  /\ ~wanted /\ stopping = Idle
  /\ wanted' = TRUE /\ revived' = FALSE
  /\ BeginStart
  /\ UNCHANGED <<parts, stopping, failedCollectorStart, stops, faults>>

RetryFires ==
  /\ startupRetry
  /\ IF serviceStopping
     THEN startupRetry' = FALSE /\ UNCHANGED <<starting, starts, serviceStopping>>
     ELSE BeginStart
  /\ UNCHANGED <<parts, stopping, failedCollectorStart, wanted, revived, stops,
                 faults>>

(* sidewisp.recover, and what it requires.                                 *)
Recoverable ==
  /\ starts > 0
  /\ ~serviceStopping \/ failedCollectorStart
  /\ \A p \in {"spool", "uploader", "heart"} : held[p] = NoPart

Recover ==
  /\ Overlap \/ stopping = Idle
  /\ Recoverable
  /\ revived' = (revived \/ ~wanted)
  /\ BeginStart
  /\ UNCHANGED <<parts, stopping, failedCollectorStart, wanted, stops,
                 faults>>

Reached(from, to) ==
  /\ starting.at = from
  /\ starting' = [starting EXCEPT !.at = to]
  /\ UNCHANGED <<stopping, flags, wanted, revived, counts>>

Loaded == Reached("load", "open") /\ UNCHANGED parts

Create(ps) ==
  /\ held' = [p \in Part |-> IF p \in ps THEN starts ELSE held[p]]
  /\ alive' = alive \cup {<<p, starts>> : p \in ps \ {"uploader"}}

(* openSpool: one writer, also within the process.                         *)
Opened ==
  /\ Reached("open", "sources")
  /\ \A n \in Gen : <<"spool", n>> \notin alive
  /\ Create({"spool"})
  /\ UNCHANGED collector

(* From the sources that were recovered to collector.start().              *)
Created ==
  /\ Reached("sources", "collector")
  /\ held["spool"] # NoPart
  /\ Create({"uploader", "deliveries", "runner", "pump", "interval"})
  /\ UNCHANGED collector

Started ==
  /\ starting.at = "collector"
  /\ starting' = Idle
  /\ collector' = TRUE
  /\ Create({"heart"})
  /\ failedCollectorStart' = FALSE
  /\ UNCHANGED <<stopping, serviceStopping, startupRetry, wanted, revived,
                 counts>>

(* The spool that is locked by a part that is still open, or closed under  *)
(* the start, fails it by itself.                                          *)
Forced ==
  \/ starting.at = "open" /\ \E n \in Gen : <<"spool", n>> \in alive
  \/ starting.at = "sources" /\ held["spool"] = NoPart

(* What is thrown: an error that is retried, a refusal of authorization,   *)
(* or another one (core/startup-recovery.js).                              *)
Fails(why) ==
  /\ starting.at \in {"load", "open", "sources", "collector"}
  /\ IF Forced THEN faults' = faults
     ELSE faults < MaxFaults /\ faults' = faults + 1
  /\ failedCollectorStart' = (why # "refused")
  /\ TearDown(Cleanup, 1, held)
  /\ starting' = [at |-> why, k |-> NextWait(Cleanup, 1, held)]
  /\ UNCHANGED <<collector, stopping, serviceStopping, startupRetry, wanted,
                 revived, starts, stops>>

CleanedUp ==
  LET k == starting.k
      h == After(Cleanup, k) IN
  /\ starting.at \in Failure
  /\ IF Cleanup[k] = "collector"
     THEN /\ collector' = FALSE /\ starting' = Idle
          /\ startupRetry' = (starting.at = "transient" /\ ~serviceStopping)
          /\ UNCHANGED <<held, alive>>
     ELSE /\ TearDown(Cleanup, k + 1, h)
          /\ starting' = [starting EXCEPT !.k = NextWait(Cleanup, k + 1, h)]
          /\ UNCHANGED <<collector, startupRetry>>
  /\ UNCHANGED <<stopping, serviceStopping, failedCollectorStart, wanted,
                 revived, counts>>

-----------------------------------------------------------------------------
(* stop()                                                                  *)

HostStops ==
  /\ wanted /\ stopping = Idle /\ stops < MaxStops
  /\ wanted' = FALSE /\ stops' = stops + 1
  /\ stopping' = [at |-> "wait", k |-> 0]
  /\ UNCHANGED <<parts, starting, flags, revived, starts, faults>>

(* A start that is under way ends first.                                   *)
StopsAtOnce ==
  /\ stopping.at = "wait"
  /\ serviceStopping' = TRUE /\ startupRetry' = FALSE
  /\ TearDown(Shutdown, 1, held)
  /\ stopping' = [at |-> "down", k |-> NextWait(Shutdown, 1, held)]
  /\ UNCHANGED <<collector, starting, failedCollectorStart, wanted, revived,
                 counts>>

StopBegins ==
  /\ stopping.at = "wait" /\ starting = Idle
  /\ serviceStopping' = TRUE /\ startupRetry' = FALSE
  /\ TearDown(Shutdown, 1, held)
  /\ stopping' = [at |-> "down", k |-> NextWait(Shutdown, 1, held)]
  /\ UNCHANGED <<collector, starting, failedCollectorStart, wanted, revived,
                 counts>>

StopGoesOn ==
  LET k == stopping.k
      h == After(Shutdown, k) IN
  /\ stopping.at = "down"
  /\ IF Shutdown[k] = "collector"
     THEN /\ collector' = FALSE /\ stopping' = Idle
          /\ UNCHANGED <<held, alive>>
     ELSE /\ TearDown(Shutdown, k + 1, h)
          /\ stopping' = [stopping EXCEPT !.k = NextWait(Shutdown, k + 1, h)]
          /\ UNCHANGED collector
  /\ UNCHANGED <<starting, flags, wanted, revived, counts>>

StartGoesOn == Loaded \/ Opened \/ Created \/ Started \/ CleanedUp
ForcedToFail == Forced /\ \E why \in {"transient", "other"} : Fails(why)

ServiceNext ==
  \/ HostStarts \/ RetryFires \/ Recover
  \/ StartGoesOn \/ \E why \in Failure : Fails(why)
  \/ HostStops \/ StopBegins \/ StopGoesOn

-----------------------------------------------------------------------------
Running == \A p \in Part : held[p] # NoPart
Quiet == starting = Idle /\ stopping = Idle

(* Whatever runs is what the service holds, so that it can be stopped: one *)
(* timer pair and no delivery that a failed start has left behind          *)
(* (test/partial-service-start.test.js:18).                                *)
NoOrphan == \A p \in Part, n \in Gen : <<p, n>> \in alive => held[p] = n

(* Between its calls the service is there with all of its parts, or with   *)
(* none; half of it would be neither reported nor recovered.               *)
AllOrNothing ==
  Quiet =>
    \/ Running /\ collector /\ ~startupRetry
       /\ alive = {<<p, held[p]>> : p \in Part \ {"uploader"}}
    \/ held = Null /\ alive = {} /\ ~collector

(* After a stop nothing runs, and no retry starts it again, until the host *)
(* or the operator does.                                                   *)
StopIsFinal ==
  ~wanted /\ stopping = Idle /\ ~revived =>
    held = Null /\ alive = {} /\ starting = Idle /\ ~startupRetry

(* A service that the host wants is there in the end, by the retry or by   *)
(* the recovery of a start that failed.                                    *)
ComesBack == wanted ~> Running \/ ~wanted
=============================================================================
