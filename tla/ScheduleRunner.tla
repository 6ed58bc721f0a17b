--------------------------- MODULE ScheduleRunner ---------------------------
(***************************************************************************)
(* The runner of scheduled tasks, src/src/schedules/runner.js: it polls    *)
(* the server for a job of its installation, saves it in a one-entry       *)
(* outbox file, launches it in the agent runtime, waits for the run, saves *)
(* the result and reports it until the server has answered.  Between any   *)
(* two awaits the process may crash, the collector may stop, the binding   *)
(* may change.                                                             *)
(*                                                                         *)
(* tick() keeps one execute() at a time and the plugin awaits stop()       *)
(* before it creates another runner, so there is one thread of control.    *)
(* The file is replaced by rename, so a save happens or does not.          *)
(* The server and the agent runtime are external: what they may do is read *)
(* off the calls of the runner.                                            *)
(*                                                                         *)
(* Definitions that no action uses, each before the one it resembles, are  *)
(* plausible defects of that one, which the properties below must detect.  *)
(***************************************************************************)
EXTENDS Naturals, FiniteSets

CONSTANTS
  Job,          \* the jobs (runId), positive numbers
  MaxBinding,   \* how many installations are approved, one after another
  Owner,        \* Owner[j]: the installation whose schedule j belongs to
  SystemEvent,  \* the jobs whose payload is a systemEvent
  MaxLaunches   \* bound: how often one job may be launched

Installation == 1..MaxBinding

ASSUME ScheduleAssumption ==
  /\ Job \subseteq Nat \ {0}
  /\ MaxBinding \in Nat \ {0}
  /\ Owner \in [Job -> Installation]
  /\ SystemEvent \subseteq Job
  /\ MaxLaunches \in Nat \ {0}

VARIABLES
  binding,      \* installationId of the credential, 0 before the first
  active,       \* the credential is active and the activation gate is open
  service,      \* "up", "stopping" (stop() awaits the tick) or "down"
  phase,        \* where execute() is, see Phase
  cred,         \* the installation execute() captured when it began
  offered,      \* the job in the answer of a poll, 0 = none
  entry,        \* the outbox file
  late,         \* the ten minutes of the entry have passed
  quarantined,  \* jobs of outbox files renamed away
  launches,     \* runtime: how often each job was handed to it
  run,          \* runtime: what became of it
  claim,        \* server: the state of each job
  told          \* server: <<i, j, r>> when i's request carried result r of j

execVars == <<phase, cred, offered>>
fileVars == <<entry, late, quarantined>>
bindingVars == <<binding, active>>
vars == <<bindingVars, service, execVars, fileVars, launches, run, claim, told>>

(* "polling": the poll is out; "admitted": the entry is saved, nothing     *)
(* launched; "launching": the runtime was called; "waiting": at the head   *)
(* of the wait loop; "asking": inside waitForRun; "reporting": the result  *)
(* is saved and its request out.                                           *)
Phase ==
  {"idle", "polling", "admitted", "launching", "waiting", "asking", "reporting"}

(* "failed" stands for execution_failed and runtime_unsupported.           *)
Result == {"succeeded", "failed", "interrupted", "timeout"}

NoEntry == [job |-> 0, launched |-> FALSE, result |-> "none"]
Entry == [job : Job \cup {0}, launched : BOOLEAN, result : Result \cup {"none"}]

TypeOK ==
  /\ binding \in 0..MaxBinding
  /\ active \in BOOLEAN
  /\ service \in {"down", "up", "stopping"}
  /\ phase \in Phase
  /\ cred \in 0..MaxBinding
  /\ offered \in Job \cup {0}
  /\ entry \in Entry
  /\ late \in BOOLEAN
  /\ quarantined \subseteq Job
  /\ launches \in [Job -> Nat]
  /\ run \in [Job -> {"none", "running", "ok", "error"}]
  /\ claim \in [Job -> {"queued", "claimed", "reported", "expired"}]
  /\ told \subseteq Installation \X Job \X Result

Init ==
  /\ binding = 0 /\ active = FALSE
  /\ service = "down"
  /\ phase = "idle" /\ cred = 0 /\ offered = 0
  /\ entry = NoEntry /\ late = FALSE /\ quarantined = {}
  /\ launches = [j \in Job |-> 0]
  /\ run = [j \in Job |-> "none"]
  /\ claim = [j \in Job |-> "queued"]
  /\ told = {}

-----------------------------------------------------------------------------
NeverForeign == FALSE

(* The outbox holds work of an earlier binding.                            *)
Foreign == entry.job # 0 /\ Owner[entry.job] # binding

(* execute() begins: the timer has fired, the gate is open, the credential *)
(* is active and the outbox is loaded.                                     *)
Tick ==
  /\ service = "up"
  /\ phase = "idle"
  /\ active
  /\ cred' = binding
  /\ UNCHANGED <<bindingVars, service, offered, launches, run, claim,
                 told>>

TickQuarantine ==
  /\ Foreign
  /\ quarantined' = quarantined \cup {entry.job}
  /\ entry' = NoEntry
  /\ late' = FALSE
  /\ phase' = "polling"
  /\ Tick

TickPoll ==
  /\ entry.job = 0
  /\ phase' = "polling"
  /\ Tick
  /\ UNCHANGED fileVars

ResultIgnored ==
  /\ entry.job # 0 /\ ~Foreign
  /\ entry.result # "none"
  /\ IF entry.launched
     THEN phase' = "waiting" /\ UNCHANGED entry
     ELSE phase' = "reporting"
            /\ entry' = [entry EXCEPT !.result = "interrupted"]
  /\ Tick
  /\ UNCHANGED <<late, quarantined>>

(* A result saved earlier is reported first, whatever the server has.      *)
TickReport ==
  /\ entry.job # 0 /\ ~Foreign
  /\ entry.result # "none"
  /\ phase' = "reporting"
  /\ Tick
  /\ UNCHANGED fileVars

TickRelaunch ==
  /\ entry.job # 0 /\ ~Foreign
  /\ entry.result = "none" /\ ~entry.launched
  /\ phase' = "admitted"
  /\ Tick
  /\ UNCHANGED fileVars

(* The process died between the two saves around the launch: whether the   *)
(* job was launched is unknown, and it is never launched again.            *)
TickInterrupted ==
  /\ entry.job # 0 /\ ~Foreign
  /\ entry.result = "none" /\ ~entry.launched
  /\ phase' = "reporting"
  /\ entry' = [entry EXCEPT !.result = "interrupted"]
  /\ Tick
  /\ UNCHANGED <<late, quarantined>>

(* A run that was launched is awaited again, unless the runtime of today   *)
(* has no subagents.                                                       *)
TickResume ==
  /\ entry.job # 0 /\ ~Foreign
  /\ entry.result = "none" /\ entry.launched
  /\ \/ phase' = "waiting" /\ UNCHANGED entry
     \/ phase' = "reporting" /\ entry' = [entry EXCEPT !.result = "failed"]
  /\ Tick
  /\ UNCHANGED <<late, quarantined>>

-----------------------------------------------------------------------------
(* The rest of execute().  Its credential and the poll's answer are local. *)
Execute == UNCHANGED <<bindingVars, service, quarantined, claim, told>>

Continue(p) == phase' = p /\ UNCHANGED <<cred, offered>>

Return == phase' = "idle" /\ cred' = 0 /\ offered' = 0

(* The result is saved in the outbox before it is reported.                *)
RecordResult(r) ==
  /\ Continue("reporting")
  /\ entry' = [entry EXCEPT !.result = r]

(* The answer of the poll is read and the entry saved, before any launch.  *)
PollAnswer ==
  /\ phase = "polling"
  /\ offered # 0
  /\ entry' = [NoEntry EXCEPT !.job = offered]
  /\ late' = FALSE
  /\ phase' = "admitted" /\ offered' = 0 /\ UNCHANGED cred
  /\ Execute
  /\ UNCHANGED <<launches, run>>

(* No job, no answer, a job that is not valid, an entry that is not saved. *)
PollNothing ==
  /\ phase = "polling"
  /\ Return
  /\ Execute
  /\ UNCHANGED <<entry, late, launches, run>>

(* subagent.run or enqueueSystemEvent is called and takes effect.          *)
Launch ==
  /\ phase = "admitted"
  /\ launches[entry.job] < MaxLaunches
  /\ launches' = [launches EXCEPT ![entry.job] = @ + 1]
  /\ run' = [run EXCEPT ![entry.job] =
               IF entry.job \in SystemEvent THEN "ok" ELSE "running"]
  /\ Continue("launching")
  /\ Execute
  /\ UNCHANGED <<entry, late>>

(* The call throws, with or without effect, or the runtime lacks it, or    *)
(* runtimeRunId cannot be saved.                                           *)
LaunchFailed ==
  /\ phase \in {"admitted", "launching"}
  /\ RecordResult("failed")
  /\ Execute
  /\ UNCHANGED <<late, launches, run>>

LaunchAccepted ==
  /\ phase = "launching"
  /\ IF entry.job \in SystemEvent
     THEN RecordResult("succeeded")
     ELSE Continue("waiting") /\ entry' = [entry EXCEPT !.launched = TRUE]
  /\ Execute
  /\ UNCHANGED <<late, launches, run>>

WaitAgain ==
  /\ phase = "waiting"
  /\ service = "up" /\ ~late
  /\ Continue("asking")
  /\ Execute
  /\ UNCHANGED <<entry, late, launches, run>>

NoTimeout == FALSE /\ UNCHANGED vars

(* The loop ends because the ten minutes are over; the run is aborted,     *)
(* which the runtime may not manage.                                       *)
WaitTimeout ==
  /\ phase = "waiting"
  /\ service = "up" /\ late
  /\ RecordResult("timeout")
  /\ run' = [run EXCEPT ![entry.job] = IF @ = "running" THEN "error" ELSE @]
       \/ UNCHANGED run
  /\ Execute
  /\ UNCHANGED <<late, launches>>

(* After stop() the wait is left to the next process.                      *)
WaitStopped ==
  /\ phase = "waiting"
  /\ service # "up"
  /\ Return
  /\ Execute
  /\ UNCHANGED <<entry, late, launches, run>>

(* waitForRun timed out or met a transport failure marked retryable.       *)
AnswerRetry ==
  /\ phase = "asking"
  /\ Continue("waiting")
  /\ Execute
  /\ UNCHANGED <<entry, late, launches, run>>

AnyEndSucceeds ==
  /\ phase = "asking"
  /\ run[entry.job] \in {"ok", "error"}
  /\ IF service = "up"
     THEN RecordResult("succeeded")
     ELSE Return /\ UNCHANGED entry
  /\ Execute
  /\ UNCHANGED <<late, launches, run>>

(* waitForRun reports the end of the run.  The response of a run that      *)
(* ended well may still fail to be retrieved.                              *)
AnswerEnd ==
  /\ phase = "asking"
  /\ run[entry.job] \in {"ok", "error"}
  /\ IF service = "up"
     THEN \/ run[entry.job] = "ok" /\ RecordResult("succeeded")
          \/ RecordResult("failed")
     ELSE Return /\ UNCHANGED entry
  /\ Execute
  /\ UNCHANGED <<late, launches, run>>

(* waitForRun throws: reported as failed, even while stopping.             *)
AnswerThrown ==
  /\ phase = "asking"
  /\ RecordResult("failed")
  /\ Execute
  /\ UNCHANGED <<late, launches, run>>

(* The result cannot be saved: execute() throws, the file stays as it was. *)
ResultLost ==
  /\ phase \in {"admitted", "launching", "waiting", "asking"}
  /\ phase = "waiting" => late
  /\ Return
  /\ Execute
  /\ UNCHANGED <<entry, late, launches, run>>

(* settle(): the file goes once the server has answered the report, with   *)
(* an acknowledgement or with 404.                                         *)
Settle ==
  /\ phase = "reporting"
  /\ <<cred, entry.job, entry.result>> \in told
  /\ entry' = NoEntry
  /\ late' = FALSE
  /\ Return
  /\ Execute
  /\ UNCHANGED <<launches, run>>

ReportDropped ==
  /\ phase = "reporting"
  /\ Return
  /\ entry' = NoEntry
  /\ Execute
  /\ UNCHANGED <<late, launches, run>>

(* No answer, another status, or a file that cannot be unlinked.           *)
ReportFailed ==
  /\ phase = "reporting"
  /\ Return
  /\ Execute
  /\ UNCHANGED <<entry, late, launches, run>>

-----------------------------------------------------------------------------
(* The world around.                                                       *)

(* The server claims one queued job for the installation that polls.       *)
ServerClaim(j) ==
  /\ phase = "polling"
  /\ offered = 0
  /\ Owner[j] = cred
  /\ claim[j] = "queued"
  /\ \A k \in Job : claim[k] = "claimed" => Owner[k] # cred
  /\ claim' = [claim EXCEPT ![j] = "claimed"]
  /\ offered' = j
  /\ UNCHANGED <<bindingVars, service, phase, cred, fileVars, launches, run,
                 told>>

(* The server takes the report; for a run it no longer has, nothing        *)
(* changes but its answer.                                                 *)
ServerResult ==
  /\ phase = "reporting"
  /\ entry.result # "none"
  /\ told' = told \cup {<<cred, entry.job, entry.result>>}
  /\ claim' = [claim EXCEPT ![entry.job] =
                 IF @ = "claimed" /\ Owner[entry.job] = cred
                 THEN "reported" ELSE @]
  /\ UNCHANGED <<bindingVars, service, execVars, fileVars, launches, run>>

ServerExpire(j) ==
  /\ claim[j] = "claimed"
  /\ claim' = [claim EXCEPT ![j] = "expired"]
  /\ UNCHANGED <<bindingVars, service, execVars, fileVars, launches, run, told>>

RunEnds(j, how) ==
  /\ run[j] = "running"
  /\ run' = [run EXCEPT ![j] = how]
  /\ UNCHANGED <<bindingVars, service, execVars, fileVars, launches, claim,
                 told>>

Deadline ==
  /\ entry.job # 0
  /\ ~late
  /\ late' = TRUE
  /\ UNCHANGED <<bindingVars, service, execVars, entry, quarantined, launches,
                 run, claim, told>>

(* The heartbeat adopts a new installation; an active credential goes or   *)
(* comes back.                                                             *)
Rebind ==
  /\ binding < MaxBinding
  /\ binding' = binding + 1
  /\ active' = TRUE
  /\ UNCHANGED <<service, execVars, fileVars, launches, run, claim, told>>

Suspend ==
  /\ binding # 0
  /\ active' = ~active
  /\ UNCHANGED <<binding, service, execVars, fileVars, launches, run, claim,
                 told>>

Start ==
  /\ service = "down"
  /\ service' = "up"
  /\ UNCHANGED <<bindingVars, execVars, fileVars, launches, run, claim, told>>

Stop ==
  /\ service = "up"
  /\ service' = "stopping"
  /\ UNCHANGED <<bindingVars, execVars, fileVars, launches, run, claim, told>>

Stopped ==
  /\ service = "stopping"
  /\ phase = "idle"
  /\ service' = "down"
  /\ UNCHANGED <<bindingVars, execVars, fileVars, launches, run, claim, told>>

Crash ==
  /\ service # "down"
  /\ service' = "down"
  /\ phase' = "idle" /\ cred' = 0 /\ offered' = 0
  /\ UNCHANGED <<bindingVars, fileVars, launches, run, claim, told>>

-----------------------------------------------------------------------------
Ticks ==
  \/ TickQuarantine
  \/ TickPoll
  \/ TickReport
  \/ TickInterrupted
  \/ TickResume

Next ==
  \/ Ticks
  \/ PollAnswer
  \/ PollNothing
  \/ Launch
  \/ LaunchFailed
  \/ LaunchAccepted
  \/ WaitAgain
  \/ WaitTimeout
  \/ WaitStopped
  \/ AnswerRetry
  \/ AnswerEnd
  \/ AnswerThrown
  \/ ResultLost
  \/ Settle
  \/ ReportFailed
  \/ \E j \in Job : ServerClaim(j)
  \/ ServerResult
  \/ \E j \in Job : ServerExpire(j)
  \/ \E j \in Job : \E how \in {"ok", "error"} : RunEnds(j, how)
  \/ Deadline
  \/ Rebind
  \/ Suspend
  \/ Start
  \/ Stop
  \/ Stopped
  \/ Crash

Spec == Init /\ [][Next]_vars

(* Timers fire, requests and runtime calls end: fetch after ten seconds,   *)
(* waitForRun after thirty.                                                *)
Fairness ==
  /\ WF_vars(Ticks)
  /\ WF_vars(PollAnswer \/ PollNothing)
  /\ WF_vars(Launch \/ LaunchFailed)
  /\ WF_vars(LaunchAccepted)
  /\ WF_vars(WaitAgain \/ WaitTimeout \/ WaitStopped)
  /\ WF_vars(AnswerRetry \/ AnswerEnd \/ AnswerThrown)
  /\ WF_vars(Settle \/ ReportFailed)
  /\ WF_vars(Deadline)

FairSpec == Spec /\ Fairness

-----------------------------------------------------------------------------
Told(j) == \E r \in Result : <<Owner[j], j, r>> \in told

(* A job is handed to the runtime at most once, whatever crashes between   *)
(* the launch and the save that records it ("Claimed runs are never        *)
(* automatically replayed", docs/SCHEDULES.md:10).                         *)
LaunchedOnce == \A j \in Job : launches[j] <= 1

(* "Never launch another task until its result is acknowledged"            *)
(* (runner.js:7): of the jobs launched for an installation, at most one    *)
(* has a result that the server has not been told; work of an earlier      *)
(* binding that was set aside does not count.                              *)
OneOutstanding == \A j, k \in Job :
  /\ launches[j] > 0 /\ ~Told(j) /\ j \notin quarantined
  /\ launches[k] > 0 /\ ~Told(k) /\ k \notin quarantined
  => j = k

(* A launched job is never forgotten: it is in the outbox, or set aside    *)
(* with the binding it belonged to, or the server was told its result.     *)
OutcomeKept == \A j \in Job :
  launches[j] > 0 => entry.job = j \/ j \in quarantined \/ Told(j)

(* Success is reported only of a run that ended well.                      *)
TrueSuccess == \A i \in Installation, j \in Job :
  <<i, j, "succeeded">> \in told => run[j] = "ok"

(* No account is told the result of another account's job.                 *)
OwnReports == \A i \in Installation, j \in Job, r \in Result :
  <<i, j, r>> \in told => Owner[j] = i

(* A report repeated after a lost answer or a restart says the same.       *)
OneStory == \A i \in Installation, j \in Job : \A r, s \in Result :
  <<i, j, r>> \in told /\ <<i, j, s>> \in told => r = s

(* "A new binding must never receive or execute the old binding's pending  *)
(* work" (runner.js:34).  Not so of a poll that is out while the binding   *)
(* changes: see run schedule_rebind.                                       *)
LaunchedByOwner == [][\A j \in Job :
  launches'[j] # launches[j] => Owner[j] = binding]_vars

(* From some time on the service runs, may execute and can write its file, *)
(* and of the reports sent again and again one arrives and its answer      *)
(* comes back.                                                             *)
Settled ==
  /\ <>[](service = "up" /\ active)
  /\ <>[][~ResultLost]_vars
  /\ SF_vars(ServerResult)
  /\ SF_vars(Settle)

(* The outbox is emptied again and again: no entry blocks the schedule.    *)
OutboxDrains == Settled => []<>(entry.job = 0)
=============================================================================
