------------------------- MODULE EndpointTransition -------------------------
(***************************************************************************)
(* The move of a profile from the source endpoint to the target:           *)
(* activateEndpointTransition (auth/endpoint-transition.js) with the host  *)
(* of scripts/endpoint-transition.mjs, under the same kernel lock as the   *)
(* update worker.  The candidate's credential is ready in its own          *)
(* directory (DeviceAuthorization issues it).  Each file or command is a   *)
(* step, so that the process can die before it.                            *)
(***************************************************************************)
EXTENDS GatewayHost

VARIABLES
  act,        \* the activation's process
  receipt,    \* file activation.json
  copied      \* file source-config.json

transitionVars == <<act, receipt, copied>>

Receipt == {"switching", "starting_target", "activated",
            "recovery_required", "rollback_required"}
Forth == {"suspend", "lease", "stop", "copy", "switching", "move",
          "candidate", "config", "starting", "start", "activated"}
Back == {"unstop", "away", "back", "restore", "restart", "forget",
         "uncopy"}
Absent == [at |-> None, moved |-> FALSE, manager |-> FALSE]

Activation == [at : Forth \cup Back \cup {None}, moved : BOOLEAN,
               manager : BOOLEAN]

ASSUME TransitionAssumption == None \notin Forth \cup Back \cup Receipt

TransitionTypeOK ==
  /\ act \in Activation
  /\ receipt \in Receipt \cup {None} /\ copied \in BOOLEAN

TransitionInit == act = Absent /\ receipt = None /\ copied = FALSE

-----------------------------------------------------------------------------
Then(stage) == act' = [act EXCEPT !.at = stage]
Exit == act' = Absent /\ dir' = Unlocked("activate")
Kept == UNCHANGED <<disk, worked>>

(* The receipt, the plan, the source, the candidate and host.validate(),   *)
(* with the lock held.  Any receipt but "activated" asks for a recovery.   *)
Begin ==
  LET d == Active IN
  /\ act.at = None
  /\ d # None /\ d.holder = None
  /\ receipt = None /\ config = "source" /\ d.cred = "source"
  /\ gw.loaded = "new" /\ gw.ready
  /\ d.manager # None => d.manager.side = "source"
  /\ dir' = Lock("activate")
  /\ act' = [Absent EXCEPT !.at = "suspend", !.manager = d.manager # None]
  /\ UNCHANGED <<gw, unit, config, faults, receipt, copied>> /\ Kept

SuspendAnyway ==
  /\ act.at = "suspend"
  /\ \/ gw.up /\ gw' = Suspended /\ Then("lease")
        /\ UNCHANGED <<dir, faults>>
     \/ ~gw.up /\ Exit /\ UNCHANGED <<gw, faults>>
     \/ Fault /\ Exit /\ UNCHANGED gw
  /\ UNCHANGED <<unit, config, receipt, copied>> /\ Kept

SuspendHost ==
  /\ act.at = "suspend"
  /\ \/ gw.up /\ ~gw.work /\ gw' = Suspended /\ Then("lease")
        /\ UNCHANGED <<dir, faults>>
     \/ (gw.work \/ ~gw.up) /\ Exit /\ UNCHANGED <<gw, faults>>
     \/ Fault /\ Exit /\ UNCHANGED gw
  /\ UNCHANGED <<unit, config, receipt, copied>> /\ Kept

(* host-lease.json is written outside the try: should that fail, the host  *)
(* stays suspended.  The check of the plan that follows resumes it.        *)
Lease ==
  /\ act.at = "lease"
  /\ \/ Then("stop") /\ UNCHANGED <<gw, dir, faults>>
     \/ Fault /\ gw' \in {gw, Resumed} /\ Exit
  /\ UNCHANGED <<unit, config, receipt, copied>> /\ Kept

(* host.stop(): the manager's unit, then the gateway; either command may   *)
(* fail.                                                                   *)
UnitStopped == unit /\ ~act.manager
StopHost(stage, next, failing) ==
  /\ act.at = stage
  /\ \/ unit' = UnitStopped /\ gw' = Stopped /\ next /\ UNCHANGED faults
     \/ unit' \in {unit, UnitStopped} /\ Fault /\ failing /\ UNCHANGED gw
  /\ UNCHANGED <<config, copied>> /\ Kept

RollBack == Then("unstop") /\ UNCHANGED <<dir, receipt>>
Forward(stage) == Then(stage) /\ UNCHANGED <<dir, receipt>>
StopSource == StopHost("stop", Forward("copy"), RollBack)

CopyConfig ==
  /\ act.at = "copy"
  /\ \/ ~copied /\ copied' = TRUE /\ Forward("switching") /\ UNCHANGED faults
     \/ copied /\ RollBack /\ UNCHANGED <<copied, faults>>
     \/ Fault /\ RollBack /\ UNCHANGED copied
  /\ UNCHANGED <<gw, unit, config>> /\ Kept

SwitchingLate ==
  /\ act.at = "switching"
  /\ \/ Then("move") /\ UNCHANGED <<dir, receipt, faults>>
     \/ Fault /\ RollBack
  /\ UNCHANGED <<gw, unit, config, copied>> /\ Kept

SaveSwitching ==
  /\ act.at = "switching"
  /\ \/ receipt' = "switching" /\ Then("move") /\ UNCHANGED <<dir, faults>>
     \/ Fault /\ RollBack
  /\ UNCHANGED <<gw, unit, config, copied>> /\ Kept

MoveSource ==
  /\ act.at = "move"
  /\ \/ /\ Active # None /\ dir["archive"] = None
        /\ dir' = [dir EXCEPT !["archive"] = Active, !["active"] = None]
        /\ act' = [act EXCEPT !.at = "candidate", !.moved = TRUE]
        /\ UNCHANGED <<receipt, faults>>
     \/ /\ Active = None \/ dir["archive"] # None
        /\ RollBack /\ UNCHANGED faults
     \/ Fault /\ RollBack
  /\ UNCHANGED <<gw, unit, config, copied>> /\ Kept

WriteCandidate ==
  /\ act.at = "candidate"
  /\ \/ /\ dir' = [dir EXCEPT !["active"] =
                     [Found EXCEPT !.cred = "target"]]
        /\ Then("config") /\ UNCHANGED <<receipt, faults>>
     \/ Fault /\ RollBack
  /\ UNCHANGED <<gw, unit, config, copied>> /\ Kept

WriteConfig ==
  /\ act.at = "config"
  /\ \/ config' = "target" /\ Forward("starting") /\ UNCHANGED faults
     \/ Fault /\ RollBack /\ UNCHANGED config
  /\ UNCHANGED <<gw, unit, copied>> /\ Kept

(* From here the destination may write: nothing is rolled back any more.   *)
SaveStarting ==
  /\ act.at = "starting"
  /\ \/ receipt' = "starting_target" /\ Then("start")
        /\ UNCHANGED <<dir, faults>>
     \/ Fault /\ RollBack
  /\ UNCHANGED <<gw, unit, config, copied>> /\ Kept

Unclear == receipt' = "recovery_required" /\ Exit

(* host.start(): installUpdateManager for the endpoint, then the gateway;  *)
(* that the second fails alone is left out, as if neither had been done.   *)
(* An upgrade of an older manager wants the kernel lock for itself.        *)
ManagerRefuses == act.manager /\ Active # None /\ Active.manager # None
                  /\ Active.manager.older /\ Active.holder # None
ManagerInstalled(side) ==
  /\ dir' = IF act.manager
            THEN [dir EXCEPT !["active"] =
                    [Found EXCEPT
                       !.manager = [side |-> side, older |-> FALSE]]]
            ELSE dir
  /\ unit' = (unit \/ act.manager)

StartTarget ==
  /\ act.at = "start"
  /\ \/ /\ ManagerInstalled("target") /\ gw' = Started
        /\ Then("activated") /\ UNCHANGED <<receipt, faults>>
     \/ Fault /\ Unclear /\ UNCHANGED <<gw, unit>>
  /\ UNCHANGED <<config, copied>> /\ Kept

SaveActivated ==
  /\ act.at = "activated"
  /\ \/ receipt' = "activated" /\ Exit /\ UNCHANGED faults
     \/ Fault /\ Unclear
  /\ UNCHANGED <<gw, unit, config, copied>> /\ Kept

-----------------------------------------------------------------------------
(* The way back, until the destination is started.                         *)

GiveUp == receipt' = "rollback_required" /\ Exit

StopAgain ==
  StopHost("unstop", Forward(IF act.moved THEN "away" ELSE "restore"), GiveUp)

MoveAway ==
  /\ act.at = "away"
  /\ \/ /\ Active = None
        /\ Forward("back") /\ UNCHANGED faults
     \/ /\ Active # None /\ dir["failed"] = None
        /\ dir' = [dir EXCEPT !["failed"] = Active, !["active"] = None]
        /\ Then("back") /\ UNCHANGED <<receipt, faults>>
     \/ /\ Active # None /\ dir["failed"] # None     \* ENOTEMPTY
        /\ GiveUp /\ UNCHANGED faults
     \/ Fault /\ GiveUp
  /\ UNCHANGED <<gw, unit, config, copied>> /\ Kept

MoveBack ==
  /\ act.at = "back"
  /\ \/ /\ Active = None
        /\ dir' = [dir EXCEPT !["active"] = dir["archive"],
                              !["archive"] = None]
        /\ Then("restore") /\ UNCHANGED <<receipt, faults>>
     \/ Active # None /\ GiveUp /\ UNCHANGED faults
     \/ Fault /\ GiveUp
  /\ UNCHANGED <<gw, unit, config, copied>> /\ Kept

RestoreConfig ==
  /\ act.at = "restore"
  /\ \/ config' = "source" /\ Forward("restart") /\ UNCHANGED faults
     \/ Fault /\ GiveUp /\ UNCHANGED config
  /\ UNCHANGED <<gw, unit, copied>> /\ Kept

StartSource ==
  /\ act.at = "restart"
  /\ \/ /\ ~ManagerRefuses
        /\ ManagerInstalled("source") /\ gw' = Started
        /\ Then("forget") /\ UNCHANGED <<receipt, faults>>
     \/ ManagerRefuses /\ GiveUp /\ UNCHANGED <<gw, unit, faults>>
     \/ Fault /\ GiveUp /\ UNCHANGED <<gw, unit>>
  /\ UNCHANGED <<config, copied>> /\ Kept

Forget ==
  /\ act.at = "forget"
  /\ \/ receipt' = None /\ Then("uncopy") /\ UNCHANGED <<dir, faults>>
     \/ Fault /\ GiveUp
  /\ UNCHANGED <<gw, unit, config, copied>> /\ Kept

Uncopy ==
  /\ act.at = "uncopy"
  /\ \/ copied' = FALSE /\ Exit /\ UNCHANGED <<receipt, faults>>
     \/ Fault /\ GiveUp /\ UNCHANGED copied
  /\ UNCHANGED <<gw, unit, config>> /\ Kept

(* Also between the two commands of a stop.                                *)
Dies ==
  /\ act.at # None /\ Fault
  /\ Exit
  /\ \/ UNCHANGED unit
     \/ act.at \in {"stop", "unstop"} /\ unit' = UnitStopped
  /\ UNCHANGED <<gw, config, receipt, copied>> /\ Kept

Steps == SuspendHost \/ Lease \/ StopSource \/ CopyConfig \/ SaveSwitching
         \/ MoveSource \/ WriteCandidate \/ WriteConfig \/ SaveStarting
         \/ StartTarget \/ SaveActivated \/ StopAgain \/ MoveAway \/ MoveBack
         \/ RestoreConfig \/ StartSource \/ Forget \/ Uncopy
=============================================================================
