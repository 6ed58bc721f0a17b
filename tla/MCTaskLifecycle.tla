-------------------------- MODULE MCTaskLifecycle --------------------------
(***************************************************************************)
(* Instances of TaskLifecycle for TLC: two messages of one session, each   *)
(* with its run, the second dispatched without naming it, and a run of no  *)
(* message.  Each scenario bounds another side of what the host does.      *)
(***************************************************************************)
EXTENDS TaskLifecycle, TLC

CONSTANTS m1, m2, r1, r2, r3

MCOf == r1 :> m1 @@ r2 :> m2 @@ r3 :> None
MCOuter == m1 :> r1 @@ m2 :> None

End(phase, failed, settled) ==
  [phase |-> phase, failed |-> failed, blocked |-> FALSE, paused |-> FALSE,
   restart |-> FALSE, settled |-> settled]
Ended == End("end", FALSE, FALSE)
Settled == End("end", FALSE, TRUE)
Failed == End("end", TRUE, TRUE)
Candidate == End("error", TRUE, TRUE)
Paused == [Ended EXCEPT !.paused = TRUE]
Blocked == [Paused EXCEPT !.blocked = TRUE]
Restarted == [Ended EXCEPT !.restart = TRUE]

Nowhere == [r \in Run |-> {}]
Silent == [m \in Msg |-> {}]
Starts(a, b, c) == r1 :> a @@ r2 :> b @@ r3 :> c

(* Two messages, the second overtaking the first; then with a fault but    *)
(* without a reply, only the first run ending or only the second there,    *)
(* and with a fault and replies but one run.                               *)
Overlap ==
  [starts |-> Starts(1, 1, 0), msgs |-> {m1, m2}, faults |-> 0,
   ending |-> [Nowhere EXCEPT ![r1] = {Ended}, ![r2] = {Ended}],
   activity |-> Nowhere, reply |-> [Silent EXCEPT ![m1] = {"good"}]]
Unanswered ==
  [Overlap EXCEPT !.reply = Silent, !.faults = 1, !.ending[r2] = {}]
Unnamed ==
  [Unanswered EXCEPT !.starts[r1] = 0, !.ending[r2] = {Ended}]
Displaced ==
  [Overlap EXCEPT !.starts[r2] = 0, !.faults = 1, !.ending[r1] = {Ended, Failed}]
(* One message whose run fails, is retried or resumed.                     *)
Retry ==
  [starts |-> Starts(2, 0, 0), msgs |-> {m1}, faults |-> 1,
   ending |-> [Nowhere EXCEPT ![r1] = {Candidate, Ended, Restarted}],
   activity |-> [Nowhere EXCEPT ![r1] = {"tool"}],
   reply |-> [Silent EXCEPT ![m1] = {"good"}]]
(* A message and a run beside it, without a reply.                         *)
Beside ==
  [starts |-> Starts(1, 0, 1), msgs |-> {m1}, faults |-> 1,
   ending |-> [Nowhere EXCEPT ![r1] = {Settled}, ![r3] = {Failed}],
   activity |-> [Nowhere EXCEPT ![r1] = {"progress"}], reply |-> Silent]
(* A question is asked and the reply precedes the ending; or it is bad.    *)
Question ==
  [starts |-> Starts(1, 0, 0), msgs |-> {m1}, faults |-> 1,
   ending |-> [Nowhere EXCEPT ![r1] = {Settled, Failed, Paused}],
   activity |-> [Nowhere EXCEPT ![r1] = {"question"}],
   reply |-> [Silent EXCEPT ![m1] = {"good", "warning"}]]
Refused ==
  [Question EXCEPT !.ending[r1] = {Settled, Ended, Blocked},
                   !.reply[m1] = {"bad"}]

MCScenario ==
  {Overlap, Unanswered, Unnamed, Displaced, Retry, Beside, Question, Refused}
=============================================================================
