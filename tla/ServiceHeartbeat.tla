-------------------------- MODULE ServiceHeartbeat --------------------------
(***************************************************************************)
(* The collector service with its heartbeat.  The service opens and closes *)
(* the spool, creates a supervisor in the last step of a start and stops   *)
(* it in a teardown; what a supervisor does in between is its own, and the *)
(* flight of one that was stopped may go on until a later one runs.        *)
(***************************************************************************)
EXTENDS CollectorService, Heartbeat

allVars == <<serviceVars, vars>>

JointInit == ServiceInit /\ Init

Alive(p) == \E n \in Gen : <<p, n>> \in alive
Appears(p) == ~Alive(p) /\ Alive(p)'
Disappears(p) == Alive(p) /\ ~Alive(p)'

(* What a step of the service is to the heartbeat.                         *)
Follows ==
  CASE Appears("spool") -> Open
    [] Appears("heart") -> Start
    [] Disappears("heart") -> Stop
    [] Disappears("spool") -> Close
    [] OTHER -> Elsewhere

JointNext ==
  \/ ServiceNext /\ Follows
  \/ Supervises /\ UNCHANGED serviceVars

JointSpec == JointInit /\ [][JointNext]_allVars

(* Awaits end, the retry timer fires, the manager recovers what has failed *)
(* (docs/MANAGED_UPDATES.md:47).                                           *)
ServiceFairness ==
  /\ WF_allVars(StartGoesOn /\ Follows) /\ WF_allVars(ForcedToFail /\ Follows)
  /\ WF_allVars(StopBegins /\ Follows) /\ WF_allVars(StopGoesOn /\ Follows)
  /\ WF_allVars(RetryFires /\ Follows) /\ WF_allVars(Recover /\ Follows)

(* Timers fire, and every await of a flight ends: an authorization request *)
(* after fifteen seconds at most, the work snapshot after five, the health *)
(* probes after one.  (A flight that hung for ever would not be replaced.) *)
HeartbeatFairness ==
  \A s \in Supervisor :
    /\ WF_allVars(Tick(s) /\ UNCHANGED serviceVars)
    /\ WF_allVars(/\ Operation(s) \/ FailTransient(s) \/ FailPermanent(s)
                  /\ UNCHANGED serviceVars)

JointFairSpec == JointSpec /\ ServiceFairness /\ HeartbeatFairness

-----------------------------------------------------------------------------
(* The supervisor that runs is the one the service holds, the spool it     *)
(* sees is that of the service, and the bound leaves room for the next.    *)
Agree ==
  /\ spoolOpen <=> Alive("spool")
  /\ ~NoneRuns <=> Alive("heart")
  /\ starting.at = "collector" => last < MaxStarts

(* Between its calls the service has all of its parts or none of them, and *)
(* at any time what runs is what it holds: no part outlives a start that   *)
(* failed (test/partial-service-start.test.js:18), and no supervisor the   *)
(* service.  With it the types of both modules.                            *)
Whole == ServiceTypeOK /\ TypeOK /\ NoOrphan /\ AllOrNothing /\ Agree
=============================================================================
