---------------------------- MODULE GatewayHost ----------------------------
(***************************************************************************)
(* The machine that the update scripts and the endpoint transition act on: *)
(* the OpenClaw gateway and its command line, the systemd unit of the      *)
(* update manager, and the profile's sidewisp directory.  The gateway is   *)
(* external: what it answers is what the scripts under src/scripts and     *)
(* src/src/update rely on.                                                 *)
(*                                                                         *)
(* The directory is a record because it is renamed as a whole, the kernel  *)
(* lock (update-status.json.kernel-lock, an inode) with it.  One release   *)
(* is offered, "new"; the profile begins with "old", bound to the source.  *)
(* A "fault" is a process that dies or a command that fails.               *)
(***************************************************************************)
EXTENDS Naturals

CONSTANTS
  None,
  Older,       \* whether the manager may be older than the package at hand
  MaxWork,     \* bound: times the host takes up work
  MaxFaults    \* bound: crashes and failing commands

VARIABLES
  gw,        \* the gateway: its process and the plugin it has loaded
  disk,      \* the plugin release that is installed
  unit,      \* the manager's systemd unit runs
  dir,       \* active: STATE_DIR/sidewisp; archive, failed: where it went
  config,    \* the endpoint in the OpenClaw configuration
  worked,
  faults

host == <<gw, disk, unit, dir, config, worked, faults>>

Side == {"source", "target"}
Release == {"old", "new"}
Place == {"active", "archive", "failed"}
Holder == {"worker", "activate"}

Journal == [status : {"open", "completed", "failed"}, base : Side,
            intent : BOOLEAN, staged : BOOLEAN, activated : BOOLEAN,
            mutated : BOOLEAN, repaired : BOOLEAN, installs : 0..2]
Attempt == [rev : {0, 1},
            status : {"waiting", "updating", "deferred", "completed",
                      "failed"}]
Manager == [side : Side, older : BOOLEAN]   \* older than this package
Directory == [cred : Side \cup {None}, journal : Journal \cup {None},
              attempt : Attempt \cup {None}, base : Release \cup {None},
              manager : Manager \cup {None}, holder : Holder \cup {None},
              tries : Nat]       \* history: installs of the open journal
Gateway == [up : BOOLEAN, fence : BOOLEAN, work : BOOLEAN, cold : BOOLEAN,
            ready : BOOLEAN, loaded : Release \cup {None}, side : Side]
Empty == [cred |-> None, journal |-> None, attempt |-> None, base |-> None,
          manager |-> None, holder |-> None, tries |-> 0]

ASSUME HostAssumption ==
  /\ Older \subseteq BOOLEAN /\ MaxWork \in Nat /\ MaxFaults \in Nat
  /\ None \notin Side \cup Release \cup Holder
  /\ None \notin Journal \cup Attempt \cup Manager \cup Directory

HostTypeOK ==
  /\ gw \in Gateway
  /\ disk \in Release /\ unit \in BOOLEAN /\ config \in Side
  /\ dir \in [Place -> Directory \cup {None}]
  /\ worked \in 0..MaxWork /\ faults \in 0..MaxFaults

Active == dir["active"]
Found == IF Active = None THEN Empty ELSE Active   \* made when it is missing
Bound(side) == Active # None /\ Active.cred = side
Answers == gw.up /\ gw.loaded # None        \* sidewisp.status has an answer
Fault == faults < MaxFaults /\ faults' = faults + 1

(* flock(1) on the lock file: freed when its holder ends, wherever the     *)
(* directory is by then.                                                   *)
Lock(who) == [dir EXCEPT !["active"].holder = who]
Unlocked(who) == [p \in Place |->
  IF dir[p] # None /\ dir[p].holder = who THEN [dir[p] EXCEPT !.holder = None]
  ELSE dir[p]]

-----------------------------------------------------------------------------
(* The command line.                                                       *)

Started == [up |-> TRUE, fence |-> FALSE, work |-> FALSE, cold |-> FALSE,
            ready |-> FALSE, loaded |-> disk, side |-> config]
Stopped == [gw EXCEPT !.up = FALSE, !.fence = FALSE, !.work = FALSE,
                      !.cold = FALSE, !.ready = FALSE]
Suspended == [gw EXCEPT !.fence = TRUE]
Resumed == [gw EXCEPT !.fence = FALSE]

(* What a hot reload of the release r may leave: it serves, it serves only *)
(* after a cold start, or, new to the process, it is not even registered.  *)
(* The work it finds goes on.                                              *)
Reloaded(r) ==
  {[gw EXCEPT !.loaded = r, !.cold = c, !.ready = FALSE] : c \in BOOLEAN}
  \cup {[gw EXCEPT !.loaded = None, !.cold = FALSE, !.ready = FALSE] :
        new \in {r} \ {gw.loaded}}

-----------------------------------------------------------------------------
(* What the host does by itself.                                           *)

WorkBegins ==
  /\ gw.up /\ ~gw.fence /\ ~gw.work /\ worked < MaxWork
  /\ gw' = [gw EXCEPT !.work = TRUE]
  /\ worked' = worked + 1
  /\ UNCHANGED <<disk, unit, dir, config, faults>>

WorkEnds ==
  /\ gw.work
  /\ gw' = [gw EXCEPT !.work = FALSE]
  /\ UNCHANGED <<disk, unit, dir, config, worked, faults>>

CollectorReady ==
  /\ Answers /\ ~gw.cold /\ ~gw.ready /\ Bound(gw.side)
  /\ gw' = [gw EXCEPT !.ready = TRUE]
  /\ UNCHANGED <<disk, unit, dir, config, worked, faults>>

GatewayDies ==
  /\ gw.up /\ Fault
  /\ gw' = Stopped
  /\ UNCHANGED <<disk, unit, dir, config, worked>>

(* The service manager or a boot; the gateway makes its own directory.     *)
GatewayReturns ==
  /\ ~gw.up
  /\ gw' = Started
  /\ dir' = [dir EXCEPT !["active"] = Found]
  /\ UNCHANGED <<disk, unit, config, worked, faults>>

UnitReturns ==
  /\ ~unit /\ Active # None /\ Active.manager # None
  /\ unit' = TRUE
  /\ UNCHANGED <<gw, disk, dir, config, worked, faults>>

HostInit ==
  /\ gw = [up |-> TRUE, fence |-> FALSE, work |-> FALSE, cold |-> FALSE,
           ready |-> FALSE, loaded |-> "old", side |-> "source"]
  /\ disk = "old" /\ config = "source" /\ worked = 0 /\ faults = 0
  /\ \E manager \in {None} \cup {[side |-> "source", older |-> b] :
                                  b \in Older},
        earlier \in {None, [rev |-> 0, status |-> "failed"]} :
       /\ dir = [p \in Place |->
                   IF p # "active" THEN None
                   ELSE [Empty EXCEPT !.cred = "source",
                                      !.manager = manager,
                                      !.attempt = earlier]]
       /\ unit = (manager # None)
=============================================================================
