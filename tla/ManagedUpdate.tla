--------------------------- MODULE ManagedUpdate ---------------------------
(***************************************************************************)
(* The update of the plugin to the release "new": the manager's check      *)
(* (scripts/managed-updater.mjs), or without a manager the collector's     *)
(* scheduler (update/scheduler.js), starts the one worker of the profile,  *)
(* which converges under the kernel lock and a durable journal             *)
(* (scripts/openclaw-update-helper.mjs, update/current-release.js) or      *)
(* revives the collector (scripts/collector-recovery.mjs).                 *)
(*                                                                         *)
(* write() is two durable writes, the journal and then the state file:     *)
(* the second is a step of its own.  Every command is one, too.  The       *)
(* download, the clock and re-enrolment under a running manager are left   *)
(* out; the 120 rounds of a worker end in "deferred" only while it waits.  *)
(***************************************************************************)
EXTENDS GatewayHost

VARIABLES
  pending,     \* manager: the directive of the event stream
  check,       \* manager: what its tick has decided to start
  scheduled,   \* collector: scheduledVersion, gone with its process
  worker       \* the worker's process

updateVars == <<pending, check, scheduled, worker>>

Gone == [at |-> None, mode |-> None, say |-> None, next |-> None,
         j |-> None]

Stage == {"launched", "revive", "reviving", "preflight", "proceed",
          "converge", "attempt", "install", "installed", "reload",
          "activate", "restart", "stopped", "down", "repair",
          "repaired", "start", "failing", "poll", "exit"}
Mode == {"update", "lost", "revive"}
Saying == {"waiting", "updating", "deferred", "completed", "failed"}
After == {"proceed", "converge", "install", "reload", "activate", "repair",
          "start", "exit"}                 \* the stages after an "attempt"
WorkerState == [at : Stage \cup {None}, mode : Mode \cup {None},
                say : Saying \cup {None}, next : After \cup {None},
                j : Journal \cup {None}]

ASSUME UpdateAssumption == None \notin Stage \cup Mode \cup Saying

UpdateTypeOK ==
  /\ pending \in BOOLEAN /\ scheduled \in BOOLEAN
  /\ check \in {"update", "revive"} \cup {None}
  /\ worker \in WorkerState

UpdateInit == pending = FALSE /\ check = None /\ scheduled = FALSE
              /\ worker = Gone

-----------------------------------------------------------------------------
(* The manager.                                                            *)

Offered ==
  /\ unit /\ ~pending
  /\ pending' = TRUE
  /\ UNCHANGED <<host, check, scheduled, worker>>

Finished(x) == x # None /\ x.status \in {"completed", "failed"}

RecoverableUnlessDeferred(d) ==
  /\ ~(d.attempt # None /\ d.attempt.status \in {"failed", "deferred"})
  /\ d.journal # None /\ ~Finished(d.journal)
  /\ d.journal.base = d.cred

(* recoverableDirective                                                    *)
Recoverable(d) ==
  /\ ~(d.attempt # None /\ d.attempt.status = "failed")
  /\ d.journal # None /\ ~Finished(d.journal)
  /\ d.journal.base = d.cred

ShouldApply(d) ==
  /\ ~(gw.loaded = "new" /\ gw.ready /\ d.attempt = None)
  /\ ~(Finished(d.attempt) /\ d.attempt.rev = 1)

(* maintenancePlan: how long the collector has been unready is left out.   *)
Due(d) ==
  /\ ~gw.ready
  /\ d.base # None /\ (Answers => gw.loaded = d.base)
  /\ d.attempt # None => d.attempt.status = "completed"
  /\ d.journal # None => d.journal.status = "completed"

(* A journal that is open and cannot be resumed ends the check: it needs a *)
(* review.                                                                 *)
Tick ==
  LET d == Active IN
  /\ unit /\ check = None
  /\ d # None /\ d.cred # None /\ d.manager # None
  /\ Answers => gw.side = d.manager.side /\ gw.side = d.cred
  /\ worker.at = None
  /\ d.journal # None => (Finished(d.journal) \/ Recoverable(d))
  /\ check' = IF Recoverable(d) \/ (pending /\ ShouldApply(d)) THEN "update"
              ELSE IF Due(d) THEN "revive" ELSE None
  /\ dir' = IF gw.ready THEN [dir EXCEPT !["active"].base = gw.loaded]
            ELSE dir
  /\ UNCHANGED <<gw, disk, unit, config, worked, faults, pending, scheduled,
                 worker>>

(* startUpdateWorker, of a unit that must not exist yet.                   *)
StartWorker ==
  /\ unit /\ check # None
  /\ check' = None
  /\ worker' = IF worker.at # None THEN worker
               ELSE IF check = "revive"
                    THEN [Gone EXCEPT !.at = "revive", !.mode = "revive"]
                    ELSE [Gone EXCEPT !.at = "launched", !.mode = "update"]
  /\ UNCHANGED <<host, pending, scheduled>>

(* createUpdateScheduler: refused while the state file names a terminal or *)
(* an unsafe attempt; the age of another one is left out.                  *)
Schedule ==
  /\ Answers /\ gw.ready /\ gw.loaded = "old"
  /\ Active # None /\ Active.manager = None
  /\ Active.attempt # None => Active.attempt.status \in {"waiting", "deferred"}
  /\ scheduled => (Active.attempt # None
                     /\ Active.attempt.status = "deferred")
  /\ worker.at = None
  /\ scheduled' = TRUE
  /\ worker' = [Gone EXCEPT !.at = "launched", !.mode = "update"]
  /\ UNCHANGED <<host, pending, check>>

-----------------------------------------------------------------------------
(* The worker.                                                             *)

Goto(stage) == worker' = [worker EXCEPT !.at = stage]
WorkerExit == worker' = Gone /\ dir' = Unlocked("worker")
Quiet == UNCHANGED <<gw, disk, unit, config, worked, faults, pending, check,
                     scheduled>>
AtWork == UNCHANGED <<unit, config, worked, pending, check>>

(* write(): the journal now, the state file next.  The path is the active  *)
(* directory's, whichever that is.                                         *)
Write(j, say, next) ==
  IF Active = None THEN WorkerExit
  ELSE /\ dir' = [dir EXCEPT !["active"].journal = j,
                              !["active"].tries = IF Finished(j) THEN 0 ELSE @]
       /\ worker' = [worker EXCEPT !.at = "attempt", !.mode = "update",
                                   !.j = j, !.say = say, !.next = next]

Blank(status, base) ==
  [status |-> status, base |-> base, intent |-> FALSE, staged |-> FALSE,
   activated |-> FALSE, mutated |-> FALSE, repaired |-> FALSE, installs |-> 0]

(* Nothing else of a terminal journal is read again.                       *)
End(status) ==
  LET base == IF worker.j = None THEN "source" ELSE worker.j.base
  IN Write(Blank(status, base), status, "exit")

Fail == End("failed")

WorkerEnds ==
  /\ worker.at = "exit"
  /\ WorkerExit
  /\ Quiet

AttemptWritten ==
  LET d == [dir EXCEPT !["active"].attempt = [rev |-> 1,
                                              status |-> worker.say]] IN
  /\ worker.at = "attempt"
  /\ IF Active = None THEN WorkerExit
     ELSE /\ dir' = d
          /\ worker' = [worker EXCEPT !.at = worker.next, !.say = None,
                                      !.next = None]
  /\ Quiet

WorkerBeginsAnew ==
  LET d == Found IN
  /\ worker.at = "launched"
  /\ IF d.holder # None \/ Finished(d.journal)
     THEN worker' = Gone /\ dir' = [dir EXCEPT !["active"] = d]
     ELSE /\ worker' = [worker EXCEPT !.at = "preflight"]
          /\ dir' = [dir EXCEPT !["active"] = [d EXCEPT !.holder = "worker"]]
  /\ Quiet

(* The helper takes the lock and resumes its journal, if it has one.  A    *)
(* directory that is away for a moment is made anew.                       *)
WorkerBegins ==
  LET d == Found IN
  /\ worker.at = "launched"
  /\ \/ /\ d.holder # None \/ Finished(d.journal)
        /\ worker' = Gone
        /\ dir' = [dir EXCEPT !["active"] = d]
     \/ /\ d.holder = None /\ ~Finished(d.journal)
        /\ worker' = [worker EXCEPT !.j = d.journal,
             !.at = IF d.journal = None THEN "preflight" ELSE "proceed"]
        /\ dir' = [dir EXCEPT !["active"] = [d EXCEPT !.holder = "worker"]]
  /\ Quiet

(* The baseline is the gateway's own word, or the last the manager saved.  *)
Preflight ==
  LET base == IF Answers THEN gw.side ELSE Active.cred IN
  /\ worker.at = "preflight"
  /\ IF Active # None /\ Active.cred # None /\ base = Active.cred
        /\ (Answers \/ Active.base # None)
     THEN Write(Blank("open", base), "waiting", "proceed")
     ELSE Fail
  /\ Quiet

(* The binding again, the archive, and an install that was committed.      *)
Proceed ==
  /\ worker.at = "proceed"
  /\ \/ /\ Bound(worker.j.base)
        /\ worker' = [worker EXCEPT !.at = "converge",
             !.j.staged = @ \/ (worker.j.intent /\ disk = "new")]
        /\ Quiet /\ UNCHANGED dir
     \/ /\ ~Bound(worker.j.base)
        /\ Fail /\ Quiet
     \/ /\ Fault /\ Fail          \* no archive, or not the one announced
        /\ UNCHANGED <<gw, disk, scheduled>> /\ AtWork

(* What the loop of convergeCurrentRelease is at.                          *)
Converging == worker.at = "converge" /\ Active # None
Verified == Answers /\ gw.side = worker.j.base /\ Bound(worker.j.base)
Serves == gw.loaded = "new" /\ gw.ready
Idle == Verified /\ ~Serves /\ ~gw.work

Said(status) == Active.attempt # None /\ Active.attempt.status = status

Lost ==
  /\ Converging /\ ~Answers
  /\ IF worker.j.mutated THEN Goto("stopped") /\ UNCHANGED dir
     ELSE /\ ~Said("updating")
          /\ Write(worker.j, "updating", "converge")
  /\ Quiet

Misbound ==
  /\ worker.at = "converge" /\ Answers /\ ~Verified
  /\ Fail /\ Quiet

Completed ==
  /\ Converging /\ Verified /\ Serves
  /\ End("completed")
  /\ Quiet

Busy ==
  /\ Converging /\ Verified /\ ~Serves /\ gw.work
  /\ ~Said("waiting")
  /\ Write(worker.j, "waiting", "converge")
  /\ Quiet

Activates ==
  /\ Converging /\ Idle
  /\ gw.loaded = "new" /\ gw.cold /\ ~worker.j.activated
  /\ Write([worker.j EXCEPT !.staged = TRUE, !.mutated = TRUE,
                            !.intent = FALSE], "updating", "activate")
  /\ Quiet

Unstaged == Converging /\ Idle /\ ~(gw.loaded = "new" /\ gw.cold)
            /\ ~worker.j.staged

(* "At most two install attempts per revision": counted, durably, before.  *)
Installs ==
  /\ Unstaged
  /\ IF worker.j.installs >= 2 THEN Fail
     ELSE Write([worker.j EXCEPT !.installs = @ + 1, !.mutated = TRUE,
                                 !.intent = TRUE], "updating", "install")
  /\ Quiet

Reloads ==
  /\ Converging /\ Idle /\ worker.j.staged /\ gw.loaded # "new"
  /\ Write([worker.j EXCEPT !.intent = FALSE], "updating", "reload")
  /\ Quiet

(* Twelve rounds without a collector ask for another install.              *)
Waits == Converging /\ Idle /\ worker.j.staged /\ gw.loaded = "new"
         /\ ~gw.cold

Repairs ==
  /\ Waits
  /\ IF worker.j.installs >= 2 THEN Fail
     ELSE Write([worker.j EXCEPT !.staged = FALSE, !.activated = FALSE,
                                 !.intent = FALSE], "updating", "converge")
  /\ Quiet

(* The rounds run out where only the host can change what is waited for.   *)
Startable == worker.j.staged /\ ~worker.j.activated /\ ~gw.work

Defers ==
  /\ Converging
  /\ \/ ~Answers /\ (worker.j.mutated => (gw.up /\ ~Startable))
     \/ /\ Verified /\ ~Serves
        /\ gw.work \/ Waits \/ (gw.cold /\ worker.j.activated)
  /\ Write(worker.j, "deferred", "exit")
  /\ Quiet

(* openclaw plugins install --force: the files are committed even when the *)
(* host keeps its work and refuses to replace the plugin.                  *)
HostInstalls(stage, next) ==
  /\ worker.at = stage
  /\ dir' = IF Active = None THEN dir
            ELSE [dir EXCEPT !["active"].tries = @ + 1]
  /\ \/ /\ disk' = "new"
        /\ worker' = [worker EXCEPT !.at = next,
             !.say = IF gw.work THEN "waiting" ELSE "updating"]
        /\ IF gw.up /\ ~gw.work
           THEN gw' \in Reloaded("new") /\ scheduled' = FALSE
           ELSE UNCHANGED <<gw, scheduled>>
        /\ UNCHANGED faults
     \/ /\ Fault /\ Goto("failing")
        /\ UNCHANGED <<gw, disk, scheduled>>
  /\ AtWork

HostInstall == HostInstalls("install", "installed")
HostRepair == HostInstalls("repair", "repaired")

Failing ==
  /\ worker.at = "failing"
  /\ Fail /\ Quiet

Installed ==
  /\ worker.at = "installed"
  /\ Write([worker.j EXCEPT !.staged = TRUE, !.intent = FALSE], worker.say,
           "converge")
  /\ Quiet

Repaired ==
  /\ worker.at = "repaired"
  /\ Write([worker.j EXCEPT !.staged = TRUE, !.repaired = TRUE,
                            !.intent = FALSE], "updating", "start")
  /\ Quiet

HostReload ==
  /\ worker.at = "reload"
  /\ \/ gw.work /\ Write(worker.j, "waiting", "converge")
        /\ UNCHANGED <<gw, scheduled, faults>>
     \/ gw.up /\ ~gw.work /\ gw' \in Reloaded(disk) /\ scheduled' = FALSE
        /\ Write(worker.j, "updating", "converge")
        /\ UNCHANGED faults
     \/ ~gw.up /\ Fail /\ UNCHANGED <<gw, scheduled, faults>>
     \/ Fault /\ Fail /\ UNCHANGED <<gw, scheduled>>
  /\ UNCHANGED disk /\ AtWork

(* coldActivateOpenClaw: suspend an idle host, then restart it.  What      *)
(* follows depends on who asked: the loop, recoverStopped or the recovery. *)
Refused(busy) ==
  CASE worker.mode = "update" -> IF busy
                                 THEN Write(worker.j, "waiting", "converge")
                                 ELSE Fail
    [] worker.mode = "lost" -> Goto("down") /\ UNCHANGED dir
    [] worker.mode = "revive" -> WorkerExit

Suspend ==
  /\ worker.at = "activate"
  /\ \/ gw.up /\ ~gw.work /\ gw' = Suspended /\ Goto("restart")
        /\ UNCHANGED <<dir, faults>>
     \/ gw.work /\ Refused(TRUE) /\ UNCHANGED <<gw, faults>>
     \/ ~gw.up /\ Refused(FALSE) /\ UNCHANGED <<gw, faults>>
     \/ Fault /\ Refused(FALSE) /\ UNCHANGED gw
  /\ UNCHANGED <<disk, scheduled>> /\ AtWork

(* A restart that fails releases the lease.  Asked without --skip-deferral *)
(* the host defers it past work that a crash has let in, and times out.    *)
Restart ==
  /\ worker.at = "restart"
  /\ \/ /\ ~gw.work /\ gw' = Started /\ scheduled' = FALSE
        /\ IF worker.mode = "revive" THEN Goto("poll") /\ UNCHANGED dir
           ELSE Write([worker.j EXCEPT !.activated = TRUE], "updating",
                      "converge")
        /\ UNCHANGED faults
     \/ /\ Fault /\ ~gw.work /\ gw' \in {Resumed, Stopped}
        /\ Refused(FALSE)
        /\ UNCHANGED scheduled
     \/ /\ gw.work /\ gw' = Resumed /\ Refused(FALSE)
        /\ UNCHANGED <<scheduled, faults>>
  /\ UNCHANGED disk /\ AtWork

(* recoverStopped: a plugin that does not answer in a host that does, or a *)
(* gateway that is down (startStoppedOpenClaw).                            *)
Stop ==
  /\ worker.at = "stopped"
  /\ IF gw.up /\ Startable
     THEN worker' = [worker EXCEPT !.at = "activate", !.mode = "lost"]
     ELSE Goto("down")
  /\ UNCHANGED dir /\ Quiet

Down ==
  /\ worker.at = "down"
  /\ IF gw.up THEN Write(worker.j, "updating", "converge")
     ELSE IF worker.j.staged \/ worker.j.repaired
     THEN Goto("start") /\ UNCHANGED dir
     ELSE IF worker.j.installs >= 2 THEN Fail
     ELSE Write([worker.j EXCEPT !.installs = @ + 1, !.intent = TRUE],
                "updating", "repair")
  /\ Quiet

Start ==
  /\ worker.at = "start"
  /\ \/ /\ gw' = IF gw.up THEN gw ELSE Started
        /\ Write([worker.j EXCEPT !.activated = TRUE], "updating", "converge")
        /\ scheduled' = FALSE /\ UNCHANGED faults
     \/ Fault /\ Fail /\ UNCHANGED <<gw, scheduled>>
  /\ UNCHANGED disk /\ AtWork

-----------------------------------------------------------------------------
(* The recovery of a collector that is installed and does not serve.       *)

ReviveBegins ==
  LET d == Active IN
  /\ worker.at = "revive"
  /\ IF /\ d # None /\ d.holder = None
        /\ d.attempt # None => d.attempt.status = "completed"
        /\ d.journal # None => d.journal.status = "completed"
        /\ d.cred # None /\ d.base = disk
        /\ gw.up /\ ~gw.ready /\ ~gw.work
        /\ Answers => gw.side = d.cred
     THEN dir' = Lock("worker") /\ Goto("reviving")
     ELSE worker' = Gone /\ UNCHANGED dir
  /\ Quiet

Reviving ==
  /\ worker.at = "reviving"
  /\ IF gw.work \/ ~gw.up \/ gw.ready
     THEN WorkerExit /\ UNCHANGED <<gw, scheduled>>
     ELSE IF gw.cold
     THEN Goto("activate") /\ UNCHANGED <<gw, dir, scheduled>>
     ELSE gw' \in Reloaded(disk) /\ Goto("poll") /\ scheduled' = FALSE
          /\ UNCHANGED dir
  /\ UNCHANGED <<disk, faults>> /\ AtWork

(* Until the collector serves, or for two minutes.                         *)
Poll ==
  /\ worker.at = "poll"
  /\ IF Answers /\ gw.cold /\ ~gw.work THEN Goto("activate") /\ UNCHANGED dir
     ELSE WorkerExit
  /\ Quiet

WorkerDies ==
  /\ worker.at # None /\ Fault
  /\ WorkerExit
  /\ UNCHANGED <<gw, disk, scheduled>> /\ AtWork

(* What the rest of the machine does to the update: the memory of the      *)
(* manager goes with its unit, that of the plugin with the gateway.        *)
Forgets ==
  /\ pending' = (pending /\ unit')
  /\ check' = IF unit' THEN check ELSE None
  /\ scheduled' = (scheduled /\ gw'.up)
  /\ UNCHANGED worker

Manage == Offered \/ Tick \/ StartWorker \/ Schedule
Converge == Lost \/ Misbound \/ Completed \/ Busy \/ Activates \/ Installs
            \/ Reloads
Work == WorkerBegins \/ Preflight \/ Proceed \/ AttemptWritten \/ WorkerEnds
        \/ HostInstall \/ HostRepair \/ Failing \/ Installed \/ Repaired
        \/ HostReload \/ Suspend \/ Restart \/ Stop \/ Down \/ Start
        \/ ReviveBegins \/ Reviving \/ Poll
Update == Manage \/ Converge \/ Repairs \/ Defers \/ Work \/ WorkerDies
=============================================================================
