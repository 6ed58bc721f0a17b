----------------------------- MODULE HostProofs -----------------------------
(***************************************************************************)
(* Theorems about HostUpkeep, for any number of faults and of times the    *)
(* host takes up work: the source binding survives every transition, the   *)
(* installs of an update are bounded, and no script cuts work of the host. *)
(***************************************************************************)
EXTENDS HostUpkeep, TLAPS

Says == worker.at = "attempt" =>
          /\ worker.say # None /\ worker.next # None /\ worker.j # None
          /\ worker.mode = "update"

(* The steps that go on from the worker's own copy of the journal.         *)
Journaled == {"proceed", "converge", "install", "installed", "reload",
              "stopped", "down", "repair", "repaired", "start"}
Asked == worker.mode # None /\ (worker.mode # "revive" => worker.j # None)

WorkerOK ==
  /\ Says
  /\ worker.at = "installed" => worker.say # None
  /\ worker.at \in Journaled => worker.j # None
  /\ worker.at \in {"activate", "restart"} => Asked
  /\ worker.at \in {"revive", "reviving", "poll"} => worker.mode = "revive"

Dirs == dir \in [Place -> Directory \cup {None}]
Workers == worker \in WorkerState /\ WorkerOK
TypeInv == TypeOK /\ WorkerOK

-----------------------------------------------------------------------------
(* What the gateway's commands leave.                                      *)
LEMMA GatewayTypes ==
  ASSUME gw \in Gateway, disk \in Release, config \in Side
  PROVE  /\ {Started, Stopped, Suspended, Resumed} \subseteq Gateway
         /\ \A r \in Release : Reloaded(r) \subseteq Gateway
<1>1. Started \in Gateway
  BY DEF Started, Gateway
<1>2. {Stopped, Suspended, Resumed} \subseteq Gateway
  BY DEF Stopped, Suspended, Resumed, Gateway
<1>3. \A r \in Release : Reloaded(r) \subseteq Gateway
  BY DEF Reloaded, Gateway
<1> QED
  BY <1>1, <1>2, <1>3

LEMMA ReloadKeeps ==
  ASSUME gw \in Gateway, NEW r \in Release, NEW g \in Reloaded(r)
  PROVE  g.up = gw.up /\ g.side = gw.side /\ g.work = gw.work
         /\ g.fence = gw.fence
BY DEF Reloaded, Gateway

-----------------------------------------------------------------------------
(* The directory: what a step of the update may do to it.                  *)

NotStarted == {"launched", "revive"}
Working == worker.at \notin NotStarted \cup {None}

(* The binding and the manager stay; only the active one is ever made.     *)
Carried == \A p \in Place :
  /\ dir[p] # None => /\ dir'[p] # None
                      /\ dir'[p].cred = dir[p].cred
                      /\ dir'[p].manager = dir[p].manager
  /\ dir[p] = None /\ dir'[p] # None => p = "active"

HoldersKept == \A p \in Place :
  dir'[p] # None => dir'[p].holder = IF dir[p] = None THEN None
                                     ELSE dir[p].holder
LockTaken ==
  /\ Found.holder = None /\ dir'["active"] # None
  /\ dir'["active"].holder = "worker"
  /\ \A p \in Place \ {"active"} : dir'[p] = dir[p]

Locking ==
  \/ (Working' <=> Working) /\ HoldersKept
  \/ ~Working' /\ dir' = Unlocked("worker")
  \/ ~Working /\ Working' /\ LockTaken

(* What every step of the update does with worker and directory.           *)
Held == Dirs' /\ Workers' /\ Carried /\ Locking

LEMMA Unlocking ==
  ASSUME Dirs, NEW who \in Holder
  PROVE  /\ Unlocked(who) \in [Place -> Directory \cup {None}]
         /\ \A p \in Place :
              /\ dir[p] = None => Unlocked(who)[p] = None
              /\ dir[p] # None =>
                   Unlocked(who)[p] = [dir[p] EXCEPT !.holder =
                     IF dir[p].holder = who THEN None ELSE dir[p].holder]
<1>1. \A p \in Place : dir[p] # None => dir[p] \in Directory
  BY DEF Dirs
<1>2. \A d \in Directory : [d EXCEPT !.holder = None] \in Directory
                           /\ [d EXCEPT !.holder = d.holder] = d
  BY DEF Directory
<1> QED
  BY <1>1, <1>2 DEF Unlocked

LEMMA UnlockedFields ==
  ASSUME Dirs, NEW who \in Holder, NEW p \in Place, dir[p] # None
  PROVE  LET d == Unlocked(who)[p] IN
         /\ d \in Directory /\ d # None
         /\ d.cred = dir[p].cred /\ d.manager = dir[p].manager
         /\ d.journal = dir[p].journal /\ d.tries = dir[p].tries
         /\ d.attempt = dir[p].attempt /\ d.base = dir[p].base
         /\ d.holder = IF dir[p].holder = who THEN None ELSE dir[p].holder
<1>1. dir[p] \in Directory
  BY DEF Dirs
<1>2. Unlocked(who)[p] = [dir[p] EXCEPT !.holder =
                     IF dir[p].holder = who THEN None ELSE dir[p].holder]
  BY Unlocking
<1> QED
  BY <1>1, <1>2, HostAssumption DEF Directory, Holder

LEMMA FoundType == ASSUME Dirs PROVE Found \in Directory
BY DEF Dirs, Found, Active, Place, Empty, Directory

-----------------------------------------------------------------------------
LEMMA Exits == ASSUME TypeInv, WorkerExit PROVE Held
<1>1. Dirs /\ worker' = Gone /\ dir' = Unlocked("worker") /\ "worker" \in Holder
  BY DEF TypeInv, TypeOK, HostTypeOK, Dirs, WorkerExit, Holder
<1>2. Dirs'
  BY <1>1, Unlocking DEF Dirs
<1>3. Workers'
  BY <1>1, UpdateAssumption
     DEF Gone, Workers, WorkerOK, WorkerState, Says, Journaled, Stage
<1>4. Carried
  <2> SUFFICES ASSUME NEW p \in Place
               PROVE  /\ dir[p] # None => /\ dir'[p] # None
                                          /\ dir'[p].cred = dir[p].cred
                                          /\ dir'[p].manager = dir[p].manager
                      /\ dir[p] = None => dir'[p] = None
    BY DEF Carried
  <2>1. CASE dir[p] # None
    BY <1>1, <2>1, UnlockedFields
  <2>2. CASE dir[p] = None
    BY <1>1, <2>2, Unlocking
  <2> QED
    BY <2>1, <2>2
<1>5. ~Working'
  BY <1>1 DEF Working, Gone
<1> QED
  BY <1>1, <1>2, <1>3, <1>4, <1>5 DEF Held, Locking

(* A write of the journal, wherever it is done and whatever comes next.    *)
LEMMA Writes ==
  ASSUME TypeInv, Working, NEW j \in Journal, NEW say \in Saying,
         NEW next \in After, Write(j, say, next)
  PROVE  Held
<1>1. CASE Active = None
  BY <1>1, Exits DEF Write
<1>2. CASE Active # None
  <2> DEFINE n == IF Finished(j) THEN 0 ELSE Active.tries
             D == [Active EXCEPT !.journal = j, !.tries = n]
  <2>1. Dirs /\ Active \in Directory /\ worker \in WorkerState
    BY <1>2 DEF TypeInv, TypeOK, HostTypeOK, UpdateTypeOK, Dirs, Active, Place
  <2>2. D \in Directory /\ D.cred = Active.cred /\ D.manager = Active.manager
        /\ D.holder = Active.holder
    BY <2>1 DEF Directory
  <2>3. dir' = [dir EXCEPT !["active"] = D]
    BY <1>2, <2>1 DEF Write, Active, Dirs
  <2>4. worker' = [worker EXCEPT !.at = "attempt", !.mode = "update",
                                 !.j = j, !.say = say, !.next = next]
    BY <1>2 DEF Write
  <2>5. worker' \in WorkerState /\ worker'.at = "attempt" /\ worker'.j = j
        /\ worker'.say = say /\ worker'.next = next
        /\ worker'.mode = "update"
    BY <2>1, <2>4 DEF WorkerState, Stage, Mode
  <2>6. Workers'
    BY <2>5, HostAssumption, UpdateAssumption
       DEF Workers, WorkerOK, Says, Journaled, After, Saying, Stage
  <2> HIDE DEF D
  <2>7. Dirs' /\ D # None
    BY <2>1, <2>2, <2>3, HostAssumption DEF Dirs
  <2>8. Carried /\ HoldersKept
    BY <1>2, <2>1, <2>2, <2>3, <2>7 DEF Dirs, Carried, HoldersKept, Active
  <2>9. Working'
    BY <2>5, UpdateAssumption DEF Working, NotStarted, Stage
  <2> QED
    BY <2>6, <2>7, <2>8, <2>9 DEF Held, Locking
<1> QED
  BY <1>1, <1>2

(* A step of the worker that leaves the directory alone.                   *)
LEMMA Goes ==
  ASSUME TypeInv, Working, UNCHANGED dir, Workers', Working' PROVE Held
BY DEF TypeInv, TypeOK, HostTypeOK, Dirs, Held, Carried, Locking, HoldersKept

LEMMA Ends ==
  ASSUME TypeInv, Working, NEW status \in {"completed", "failed"}, End(status)
  PROVE  Held
<1> DEFINE base == IF worker.j = None THEN "source" ELSE worker.j.base
<1>1. base \in Side
  BY DEF TypeInv, TypeOK, UpdateTypeOK, WorkerState, Journal, Side
<1>2. Blank(status, base) \in Journal
  BY <1>1 DEF Blank, Journal
<1>3. Write(Blank(status, base), status, "exit")
  BY DEF End
<1> QED
  BY <1>2, <1>3, Writes DEF Saying, After

LEMMA Fails == ASSUME TypeInv, Working, Fail PROVE Held
BY Ends DEF Fail

-----------------------------------------------------------------------------
(* What a step of the update does to the rest of the machine: it stops no  *)
(* work, and a gateway that it starts is that of the configuration.        *)
Driven ==
  /\ gw' \in Gateway
  /\ gw'.up => gw'.side = config \/ (gw.up /\ gw'.side = gw.side)
  /\ gw.up /\ gw.work => gw'.work
  /\ ~gw'.up => (gw'.work => gw.work /\ ~gw.up)
                /\ (gw'.fence => gw.fence /\ ~gw.up)
  /\ gw' # gw => Working
Others ==
  /\ pending' \in BOOLEAN /\ scheduled' \in BOOLEAN
  /\ check' \in {"update", "revive"} \cup {None}
  /\ disk' \in Release /\ faults' \in faults..MaxFaults
  /\ UNCHANGED <<unit, config, worked>>

LEMMA Parts ==
  ASSUME TypeInv
  PROVE  /\ gw \in Gateway /\ disk \in Release /\ unit \in BOOLEAN
         /\ config \in Side /\ worked \in 0..MaxWork /\ faults \in 0..MaxFaults
         /\ Dirs /\ worker \in WorkerState /\ WorkerOK
         /\ pending \in BOOLEAN /\ scheduled \in BOOLEAN
         /\ check \in {"update", "revive"} \cup {None}
         /\ MaxFaults \in Nat /\ MaxWork \in Nat
BY HostAssumption DEF TypeInv, TypeOK, HostTypeOK, UpdateTypeOK, Dirs

LEMMA GwSame == ASSUME TypeInv, UNCHANGED gw PROVE Driven
BY Parts DEF Driven

LEMMA QuietRest == ASSUME TypeInv, Quiet PROVE Driven /\ Others
BY Parts, GwSame DEF Quiet, Others

LEMMA Counts ==
  ASSUME TypeInv, Fault \/ UNCHANGED faults
  PROVE  faults' \in faults..MaxFaults
BY Parts DEF Fault

-----------------------------------------------------------------------------
(* The manager and the scheduler of the collector.                         *)

LEMMA LaunchHeld ==
  ASSUME TypeInv, worker.at = None, UNCHANGED dir,
         NEW at \in NotStarted, NEW mode \in {"update", "revive"},
         at = "revive" => mode = "revive",
         worker' = [Gone EXCEPT !.at = at, !.mode = mode]
  PROVE  Held
<1>1. worker' \in WorkerState /\ worker'.at = at /\ worker'.mode = mode
  BY DEF Gone, WorkerState, NotStarted, Stage, Mode
<1>2. Workers'
  BY <1>1, UpdateAssumption
     DEF Workers, WorkerOK, Says, Journaled, NotStarted, Stage
<1>3. Dirs' /\ Carried /\ HoldersKept
  BY Parts DEF Dirs, Carried, HoldersKept
<1>4. ~Working /\ ~Working'
  BY <1>1 DEF Working, NotStarted
<1> QED
  BY <1>2, <1>3, <1>4 DEF Held, Locking

LEMMA TickHeld == ASSUME TypeInv, Tick PROVE Held /\ Driven /\ Others
<1>0. Dirs /\ Active # None /\ Active \in Directory /\ UNCHANGED worker
      /\ WorkerOK /\ worker \in WorkerState /\ gw \in Gateway
  BY Parts DEF Tick, Dirs, Active, Place
<1>1. PICK D \in Directory : /\ dir' = [dir EXCEPT !["active"] = D]
                             /\ D.cred = Active.cred
                             /\ D.manager = Active.manager
                             /\ D.holder = Active.holder
  <2>1. CASE gw.ready
    <3> DEFINE D == [Active EXCEPT !.base = gw.loaded]
    <3>1. D \in Directory /\ D.cred = Active.cred
          /\ D.manager = Active.manager /\ D.holder = Active.holder
      BY <1>0 DEF Directory, Gateway
    <3>2. dir' = [dir EXCEPT !["active"] = D]
      BY <1>0, <2>1 DEF Tick, Active, Dirs
    <3> QED
      BY <3>1, <3>2
  <2>2. CASE ~gw.ready
    BY <1>0, <2>2 DEF Tick, Active, Dirs
  <2> QED
    BY <2>1, <2>2
<1>2. D # None
  BY HostAssumption
<1>3. Dirs' /\ Carried /\ HoldersKept
  BY <1>0, <1>1, <1>2 DEF Dirs, Carried, HoldersKept, Active
<1>4. Workers' /\ (Working' <=> Working)
  BY <1>0 DEF Workers, Working, WorkerOK, Says, Asked
<1>5. Driven /\ Others
  BY Parts, GwSame DEF Tick, Others
<1> QED
  BY <1>3, <1>4, <1>5 DEF Held, Locking

LEMMA SameHeld == ASSUME TypeInv, UNCHANGED <<dir, worker>> PROVE Held
<1>1. Workers' /\ (Working' <=> Working)
  BY Parts DEF Workers, Working, WorkerOK, Says, Asked
<1>2. Dirs' /\ Carried /\ HoldersKept
  BY Parts DEF Dirs, Carried, HoldersKept
<1> QED
  BY <1>1, <1>2 DEF Held, Locking

LEMMA StartWorkerHeld ==
  ASSUME TypeInv, StartWorker PROVE Held /\ Driven /\ Others
<1>1. Driven /\ Others
  BY Parts, GwSame DEF StartWorker, host, Others
<1>2. Held
  <2>1. CASE worker.at # None
    BY <2>1, SameHeld DEF StartWorker, host
  <2>2. CASE worker.at = None /\ check = "revive"
    BY <2>2, LaunchHeld DEF StartWorker, host, NotStarted
  <2>3. CASE worker.at = None /\ check # "revive"
    BY <2>3, LaunchHeld DEF StartWorker, host, NotStarted
  <2> QED
    BY <2>1, <2>2, <2>3
<1> QED
  BY <1>1, <1>2

LEMMA ScheduleHeld == ASSUME TypeInv, Schedule PROVE Held /\ Driven /\ Others
<1>1. Driven /\ Others
  BY Parts, GwSame DEF Schedule, host, Others
<1>2. Held
  BY LaunchHeld DEF Schedule, host, NotStarted
<1> QED
  BY <1>1, <1>2

LEMMA ManageHeld == ASSUME TypeInv, Manage PROVE Held /\ Driven /\ Others
<1>1. CASE Offered
  BY <1>1, Parts, GwSame, SameHeld DEF Offered, host, Others
<1> QED
  BY <1>1, TickHeld, StartWorkerHeld, ScheduleHeld DEF Manage

-----------------------------------------------------------------------------
(* The worker, step by step.                                               *)

LEMMA AtWorkNow ==
  ASSUME TypeInv, worker.at \in Stage \ NotStarted PROVE Working
BY UpdateAssumption DEF Working, NotStarted

LEMMA OwnJournal ==
  ASSUME TypeInv, worker.at \in Journaled
  PROVE  worker.j \in Journal /\ Working
<1>1. worker.at \in Stage \ NotStarted
  BY DEF Journaled, Stage, NotStarted
<1> QED
  BY <1>1, Parts, AtWorkNow DEF WorkerOK, WorkerState

(* A Goto of a worker that keeps what it holds.                            *)
Plain == Stage \ {"launched", "revive", "attempt", "installed"}
Ready(at, mode) ==
  /\ at \in Journaled => worker.j # None
  /\ at \in {"activate", "restart"} =>
       mode # None /\ (mode # "revive" => worker.j # None)
  /\ at \in {"reviving", "poll"} => mode = "revive"

LEMMA GoesAs ==
  ASSUME TypeInv, Working, UNCHANGED dir, NEW at \in Plain,
         NEW mode \in Mode \cup {None}, Ready(at, mode),
         worker' = [worker EXCEPT !.at = at, !.mode = mode]
  PROVE  Held
<1>1. worker' \in WorkerState /\ worker'.at = at /\ worker'.j = worker.j
      /\ worker'.mode = mode
  BY Parts DEF WorkerState, Plain
<1>2. Workers'
  BY <1>1 DEF Workers, WorkerOK, Says, Asked, Plain, Journaled, Stage, Ready
<1>3. Working'
  BY <1>1, UpdateAssumption DEF Working, NotStarted, Plain, Stage
<1> QED
  BY <1>2, <1>3, Goes

LEMMA GoesTo ==
  ASSUME TypeInv, Working, UNCHANGED dir, NEW at \in Plain,
         Ready(at, worker.mode), Goto(at)
  PROVE  Held
<1>1. PICK mode \in Mode \cup {None} : mode = worker.mode
  BY Parts DEF WorkerState
<1>2. worker' = [worker EXCEPT !.at = at, !.mode = mode]
  BY <1>1, Parts DEF Goto, WorkerState
<1>3. Ready(at, mode)
  BY <1>1
<1> QED
  BY <1>2, <1>3, GoesAs

LEMMA ConvergeHeld ==
  ASSUME TypeInv, worker.at = "converge",
         Lost \/ Misbound \/ Completed \/ Busy \/ Activates \/ Installs
         \/ Reloads \/ Repairs \/ Defers
  PROVE  Held /\ Driven /\ Others
<1>0. worker.j \in Journal /\ Working /\ worker \in WorkerState
  BY OwnJournal, Parts DEF Journaled
<1>1. Driven /\ Others
  BY QuietRest DEF Lost, Misbound, Completed, Busy, Activates, Installs,
                   Reloads, Repairs, Defers
<1> SUFFICES Held
  BY <1>1
<1>2. CASE Lost
  <2>1. CASE Goto("stopped") /\ UNCHANGED dir
    <3>1. worker.j # None
      BY <1>0, HostAssumption
    <3> QED
      BY <1>0, <2>1, <3>1, GoesTo DEF Plain, Stage, Ready, Journaled
  <2>2. CASE Write(worker.j, "updating", "converge")
    BY <1>0, <2>2, Writes DEF Saying, After
  <2> QED
    BY <1>2, <2>1, <2>2 DEF Lost
<1>3. CASE Misbound
  BY <1>0, <1>3, Fails DEF Misbound
<1>4. CASE Completed
  BY <1>0, <1>4, Ends DEF Completed
<1>5. CASE Busy
  BY <1>0, <1>5, Writes DEF Busy, Saying, After
<1>6. CASE Activates
  <2>1. [worker.j EXCEPT !.staged = TRUE, !.mutated = TRUE,
                         !.intent = FALSE] \in Journal
    BY <1>0 DEF Journal
  <2> QED
    BY <1>0, <1>6, <2>1, Writes DEF Activates, Saying, After
<1>7. CASE Installs
  <2>1. CASE worker.j.installs >= 2
    BY <1>0, <1>7, <2>1, Fails DEF Installs
  <2>2. CASE ~(worker.j.installs >= 2)
    <3>1. [worker.j EXCEPT !.installs = worker.j.installs + 1,
             !.mutated = TRUE, !.intent = TRUE] \in Journal
      <4>1. worker.j.installs \in 0..2
        BY <1>0 DEF Journal
      <4>2. worker.j.installs + 1 \in 0..2
        BY <2>2, <4>1
      <4> QED
        BY <1>0, <4>2 DEF Journal
    <3> QED
      BY <1>0, <1>7, <2>2, <3>1, Writes DEF Installs, Saying, After
  <2> QED
    BY <2>1, <2>2
<1>8. CASE Reloads
  <2>1. [worker.j EXCEPT !.intent = FALSE] \in Journal
    BY <1>0 DEF Journal
  <2> QED
    BY <1>0, <1>8, <2>1, Writes DEF Reloads, Saying, After
<1>9. CASE Repairs
  <2>1. CASE worker.j.installs >= 2
    BY <1>0, <1>9, <2>1, Fails DEF Repairs
  <2>2. CASE ~(worker.j.installs >= 2)
    <3>1. [worker.j EXCEPT !.staged = FALSE, !.activated = FALSE,
             !.intent = FALSE] \in Journal
      BY <1>0 DEF Journal
    <3> QED
      BY <1>0, <1>9, <2>2, <3>1, Writes DEF Repairs, Saying, After
  <2> QED
    BY <2>1, <2>2
<1>10. CASE Defers
  BY <1>0, <1>10, Writes DEF Defers, Saying, After
<1> QED
  BY <1>1, <1>2, <1>3, <1>4, <1>5, <1>6, <1>7, <1>8, <1>9, <1>10

LEMMA AtConverge ==
  Converge \/ Repairs \/ Defers => worker.at = "converge"
BY DEF Converge, Lost, Misbound, Completed, Busy, Activates, Installs,
       Reloads, Repairs, Defers, Converging, Unstaged, Waits

(* Taking the lock, with the directory made should it be missing.          *)
LEMMA WorkerBeginsHeld ==
  ASSUME TypeInv, WorkerBegins PROVE Held /\ Driven /\ Others
<1>0. Dirs /\ Found \in Directory /\ Found # None /\ worker \in WorkerState
  BY Parts, FoundType, HostAssumption
<1>1. Driven /\ Others
  BY QuietRest DEF WorkerBegins
<1> SUFFICES Held
  BY <1>1
<1>2. ~Working /\ worker.mode \in Mode \cup {None}
  BY <1>0 DEF WorkerBegins, Working, NotStarted, WorkerState
<1>3. CASE worker' = Gone /\ dir' = [dir EXCEPT !["active"] = Found]
  <2>1. Dirs' /\ Carried /\ HoldersKept
    BY <1>0, <1>3 DEF Dirs, Carried, HoldersKept, Found, Active, Empty
  <2>2. Workers' /\ ~Working'
    BY <1>3, UpdateAssumption DEF Gone, Workers, WorkerOK, WorkerState, Says,
                                  Journaled, Stage, Working
  <2> QED
    BY <1>2, <2>1, <2>2 DEF Held, Locking
<1>4. CASE /\ Found.holder = None
           /\ worker' = [worker EXCEPT !.j = Found.journal,
                !.at = IF Found.journal = None THEN "preflight" ELSE "proceed"]
           /\ dir' = [dir EXCEPT !["active"] =
                                   [Found EXCEPT !.holder = "worker"]]
  <2> DEFINE D == [Found EXCEPT !.holder = "worker"]
  <2>1. D \in Directory /\ D.cred = Found.cred /\ D.manager = Found.manager
        /\ D.holder = "worker"
    BY <1>0 DEF Directory, Holder
  <2>2. Dirs' /\ Carried /\ LockTaken
    <3> HIDE DEF D
    <3>1. dir' = [dir EXCEPT !["active"] = D] /\ D # None
      BY <1>4, <2>1, HostAssumption DEF D
    <3> QED
      BY <1>0, <1>4, <2>1, <3>1
         DEF Dirs, Carried, LockTaken, Found, Active, Place
  <2>3. worker' \in WorkerState /\ worker'.j = Found.journal
        /\ worker'.at = IF Found.journal = None THEN "preflight"
                        ELSE "proceed"
    <3> DEFINE at == IF Found.journal = None THEN "preflight" ELSE "proceed"
    <3>1. Found.journal \in Journal \cup {None} /\ at \in Stage
      BY <1>0 DEF Directory, Stage
    <3>2. worker' = [worker EXCEPT !.j = Found.journal, !.at = at]
      BY <1>4
    <3> HIDE DEF at
    <3>3. worker' \in WorkerState /\ worker'.j = Found.journal
          /\ worker'.at = at
      BY <1>0, <3>1, <3>2 DEF WorkerState
    <3> QED
      BY <3>3 DEF at
  <2>4. Workers' /\ Working'
    BY <2>3, UpdateAssumption DEF Workers, WorkerOK, Says, Journaled, Stage,
                                  Working, NotStarted
  <2> QED
    BY <1>2, <2>2, <2>4 DEF Held, Locking
<1> QED
  BY <1>3, <1>4 DEF WorkerBegins

LEMMA PreflightHeld ==
  ASSUME TypeInv, Preflight PROVE Held /\ Driven /\ Others
<1>0. Working /\ Dirs
  BY AtWorkNow, Parts DEF Preflight, Stage, NotStarted
<1>1. Driven /\ Others
  BY QuietRest DEF Preflight
<1> DEFINE base == IF Answers THEN gw.side ELSE Active.cred
<1>2. CASE Write(Blank("open", base), "waiting", "proceed")
           /\ Active # None /\ Active.cred # None /\ base = Active.cred
  <2>1. base \in Side
    BY <1>0, <1>2 DEF Dirs, Active, Place, Directory
  <2>2. Blank("open", base) \in Journal
    BY <2>1 DEF Blank, Journal
  <2> QED
    BY <1>0, <1>1, <1>2, <2>2, Writes DEF Saying, After
<1>3. CASE Fail
  BY <1>0, <1>1, <1>3, Fails
<1> QED
  BY <1>2, <1>3 DEF Preflight

LEMMA ProceedHeld == ASSUME TypeInv, Proceed PROVE Held /\ Driven /\ Others
<1>0. Working /\ worker.j \in Journal /\ worker \in WorkerState
  BY OwnJournal, Parts DEF Proceed, Journaled
<1>1. CASE /\ worker' = [worker EXCEPT !.at = "converge",
                !.j.staged = @ \/ (worker.j.intent /\ disk = "new")]
           /\ Quiet /\ UNCHANGED dir
  <2> DEFINE J == [worker.j EXCEPT !.staged =
                     worker.j.staged \/ (worker.j.intent /\ disk = "new")]
  <2>1. J \in Journal
    BY <1>0 DEF Journal
  <2>2. worker' = [worker EXCEPT !.at = "converge", !.j = J]
    BY <1>0, <1>1 DEF WorkerState
  <2> HIDE DEF J
  <2>3. worker' \in WorkerState /\ worker'.at = "converge" /\ worker'.j = J
    BY <1>0, <2>1, <2>2 DEF WorkerState, Stage
  <2>4. Workers' /\ Working'
    BY <2>1, <2>3, HostAssumption, UpdateAssumption
       DEF Workers, WorkerOK, Says, Asked, Journaled, Working, NotStarted, Stage
  <2> QED
    BY <1>0, <1>1, <2>4, Goes, QuietRest
<1>2. CASE Fail /\ Quiet
  BY <1>0, <1>2, Fails, QuietRest
<1>3. CASE Fault /\ Fail /\ UNCHANGED <<gw, disk, scheduled>> /\ AtWork
  BY <1>0, <1>3, Fails, Parts, GwSame, Counts DEF AtWork, Others
<1> QED
  BY <1>1, <1>2, <1>3 DEF Proceed

LEMMA AttemptHeld ==
  ASSUME TypeInv, AttemptWritten PROVE Held /\ Driven /\ Others
<1>0. /\ Working /\ Dirs /\ worker \in WorkerState
      /\ worker.say \in Saying /\ worker.next \in After
      /\ worker.j # None /\ worker.mode = "update"
  BY AtWorkNow, Parts
     DEF AttemptWritten, Stage, NotStarted, WorkerOK, Says, WorkerState
<1>1. Driven /\ Others
  BY QuietRest DEF AttemptWritten
<1>2. CASE Active = None
  BY <1>1, <1>2, Exits DEF AttemptWritten
<1>3. CASE Active # None
  <2> DEFINE a == [rev |-> 1, status |-> worker.say]
             D == [Active EXCEPT !.attempt = a]
  <2>1. a \in Attempt
    BY <1>0 DEF Attempt, Saying
  <2>2. D \in Directory /\ D.cred = Active.cred /\ D.manager = Active.manager
        /\ D.holder = Active.holder
    BY <1>0, <1>3, <2>1 DEF Directory, Dirs, Active, Place
  <2>3. dir' = [dir EXCEPT !["active"] = D]
    BY <1>0, <1>3 DEF AttemptWritten, Active, Dirs
  <2>4. worker' = [worker EXCEPT !.at = worker.next, !.say = None,
                                 !.next = None]
    BY <1>3 DEF AttemptWritten
  <2>5. worker' \in WorkerState /\ worker'.at = worker.next
        /\ worker'.j = worker.j /\ worker'.mode = worker.mode
    BY <1>0, <2>4 DEF WorkerState, After, Stage
  <2>6. Workers' /\ Working'
    BY <1>0, <2>5, UpdateAssumption
       DEF Workers, WorkerOK, Says, Asked, Journaled, After, Working,
           NotStarted, Stage, Mode
  <2> HIDE DEF D
  <2>7. Dirs' /\ Carried /\ HoldersKept
    BY <1>0, <1>3, <2>2, <2>3, HostAssumption
       DEF Dirs, Carried, HoldersKept, Active
  <2> QED
    BY <1>0, <1>1, <2>6, <2>7 DEF Held, Locking
<1> QED
  BY <1>2, <1>3

LEMMA InstallsHeld ==
  ASSUME TypeInv, HostInstall \/ HostRepair PROVE Held /\ Driven /\ Others
<1>0. PICK stage \in {"install", "repair"},
           next \in {"installed", "repaired"} : HostInstalls(stage, next)
  BY DEF HostInstall, HostRepair
<1>1. worker.at = stage
  BY <1>0 DEF HostInstalls
<1>2. /\ Working /\ Dirs /\ worker \in WorkerState /\ worker.j # None
      /\ worker.j \in Journal
  BY <1>1, OwnJournal, Parts, HostAssumption DEF Journaled
<1>3. Dirs' /\ Carried /\ HoldersKept
  <2>1. CASE Active = None
    BY <1>0, <1>2, <2>1 DEF HostInstalls, Dirs, Carried, HoldersKept
  <2>2. CASE Active # None
    <3> DEFINE D == [Active EXCEPT !.tries = Active.tries + 1]
    <3>1. D \in Directory /\ D.cred = Active.cred
          /\ D.manager = Active.manager /\ D.holder = Active.holder
      BY <1>2, <2>2 DEF Directory, Dirs, Active, Place
    <3>2. dir' = [dir EXCEPT !["active"] = D]
      BY <1>0, <1>2, <2>2 DEF HostInstalls, Active, Dirs
    <3> HIDE DEF D
    <3> QED
      BY <1>2, <2>2, <3>1, <3>2, HostAssumption
         DEF Dirs, Carried, HoldersKept, Active
  <2> QED
    BY <2>1, <2>2
<1>4. Workers' /\ Working'
  <2>1. CASE worker' = [worker EXCEPT !.at = next,
                          !.say = IF gw.work THEN "waiting" ELSE "updating"]
    <3>1. worker' \in WorkerState /\ worker'.at = next
          /\ worker'.say \in Saying /\ worker'.j = worker.j
      BY <1>2, <2>1 DEF WorkerState, Stage, Saying
    <3> QED
      BY <1>2, <3>1, UpdateAssumption
         DEF Workers, WorkerOK, Says, Asked, Journaled, Working, NotStarted,
             Stage
  <2>2. CASE Goto("failing")
    <3>1. worker' \in WorkerState /\ worker'.at = "failing"
      BY <1>2, <2>2 DEF Goto, WorkerState, Stage
    <3> QED
      BY <3>1, UpdateAssumption
         DEF Workers, WorkerOK, Says, Asked, Journaled, Working, NotStarted,
             Stage
  <2> QED
    BY <1>0, <2>1, <2>2 DEF HostInstalls
<1>5. Driven
  <2>1. CASE gw' \in Reloaded("new")
    BY <1>2, <2>1, Parts, GatewayTypes, ReloadKeeps DEF Driven, Release
  <2>2. CASE UNCHANGED gw
    BY <2>2, GwSame
  <2> QED
    BY <1>0, <2>1, <2>2 DEF HostInstalls
<1>6. Others
  BY <1>0, Parts, Counts DEF HostInstalls, AtWork, Others, Release
<1> QED
  BY <1>2, <1>3, <1>4, <1>5, <1>6 DEF Held, Locking

LEMMA ReloadHeld == ASSUME TypeInv, HostReload PROVE Held /\ Driven /\ Others
<1>0. Working /\ worker.j \in Journal
  BY OwnJournal DEF HostReload, Journaled
<1>1. Held
  <2>1. CASE \/ Write(worker.j, "waiting", "converge")
             \/ Write(worker.j, "updating", "converge")
    BY <1>0, <2>1, Writes DEF Saying, After
  <2>2. CASE Fail
    BY <1>0, <2>2, Fails
  <2> QED
    BY <2>1, <2>2 DEF HostReload
<1>2. Driven
  <2>1. CASE gw' \in Reloaded(disk)
    BY <1>0, <2>1, Parts, GatewayTypes, ReloadKeeps DEF Driven
  <2>2. CASE UNCHANGED gw
    BY <2>2, GwSame
  <2> QED
    BY <2>1, <2>2 DEF HostReload
<1>3. Others
  BY Parts, Counts DEF HostReload, AtWork, Others
<1> QED
  BY <1>1, <1>2, <1>3

(* What a refused activation leads to depends on who asked for it.         *)
LEMMA RefusedHeld ==
  ASSUME TypeInv, worker.at \in {"activate", "restart"},
         NEW busy \in BOOLEAN, Refused(busy)
  PROVE  Held
<1>0. Working /\ worker \in WorkerState /\ worker.mode \in Mode
      /\ (worker.mode # "revive" => worker.j \in Journal /\ worker.j # None)
  BY AtWorkNow, Parts, HostAssumption
     DEF Stage, NotStarted, WorkerOK, Asked, WorkerState
<1>1. CASE worker.mode = "update"
  BY <1>0, <1>1, Writes, Fails DEF Refused, Saying, After
<1>2. CASE worker.mode = "lost"
  <2>1. Goto("down") /\ UNCHANGED dir
    BY <1>2 DEF Refused
  <2> QED
    BY <1>0, <1>2, <2>1, GoesTo DEF Plain, Stage, Ready, Journaled
<1>3. CASE worker.mode = "revive"
  BY <1>3, Exits DEF Refused
<1> QED
  BY <1>0, <1>1, <1>2, <1>3 DEF Mode

LEMMA SuspendHeld == ASSUME TypeInv, Suspend PROVE Held /\ Driven /\ Others
<1>0. Working /\ Asked
  BY AtWorkNow, Parts DEF Suspend, Stage, NotStarted, WorkerOK
<1>1. Held
  <2>1. CASE Goto("restart") /\ UNCHANGED dir
    <3>1. Ready("restart", worker.mode)
      BY <1>0 DEF Ready, Asked, Journaled
    <3> QED
      BY <1>0, <2>1, <3>1, GoesTo DEF Plain, Stage
  <2>2. CASE Refused(TRUE) \/ Refused(FALSE)
    BY <2>2, RefusedHeld DEF Suspend
  <2> QED
    BY <2>1, <2>2 DEF Suspend
<1>2. Driven
  <2>1. CASE gw.up /\ gw' = Suspended
    BY <1>0, <2>1, Parts, GatewayTypes DEF Driven, Suspended, Gateway
  <2>2. CASE UNCHANGED gw
    BY <2>2, GwSame
  <2> QED
    BY <2>1, <2>2 DEF Suspend
<1>3. Others
  BY Parts, Counts DEF Suspend, AtWork, Others
<1> QED
  BY <1>1, <1>2, <1>3

LEMMA RestartHeld == ASSUME TypeInv, Restart PROVE Held /\ Driven /\ Others
<1>0. Working /\ Asked /\ worker \in WorkerState
  BY AtWorkNow, Parts DEF Restart, Stage, NotStarted, WorkerOK
<1>1. Held
  <2>1. CASE worker.mode = "revive" /\ Goto("poll") /\ UNCHANGED dir
    BY <1>0, <2>1, GoesTo DEF Plain, Stage, Ready, Journaled
  <2>2. CASE worker.mode # "revive"
             /\ Write([worker.j EXCEPT !.activated = TRUE], "updating",
                      "converge")
    <3>1. worker.j \in Journal
      BY <1>0, <2>2 DEF Asked, WorkerState
    <3>2. [worker.j EXCEPT !.activated = TRUE] \in Journal
      BY <3>1 DEF Journal
    <3> QED
      BY <1>0, <2>2, <3>2, Writes DEF Saying, After
  <2>3. CASE Refused(FALSE)
    BY <2>3, RefusedHeld DEF Restart
  <2> QED
    BY <2>1, <2>2, <2>3 DEF Restart
<1>2. Driven
  <2>1. CASE gw' = Started /\ ~gw.work
    BY <1>0, <2>1, Parts, GatewayTypes DEF Driven, Started, Gateway
  <2>2. CASE gw' = Stopped /\ ~gw.work
    BY <1>0, <2>2, Parts, GatewayTypes DEF Driven, Stopped, Gateway
  <2>3. CASE gw' = Resumed
    BY <1>0, <2>3, Parts, GatewayTypes DEF Driven, Resumed, Gateway
  <2> QED
    BY <2>1, <2>2, <2>3 DEF Restart
<1>3. Others
  BY Parts, Counts DEF Restart, AtWork, Others
<1> QED
  BY <1>1, <1>2, <1>3

LEMMA RecoverHeld ==
  ASSUME TypeInv, Stop \/ Down \/ Start PROVE Held /\ Driven /\ Others
<1>0. worker.at \in {"stopped", "down", "start"} /\ worker.at \in Journaled
  BY DEF Stop, Down, Start, Journaled
<1>1. Working /\ worker.j \in Journal /\ worker.j # None
  BY <1>0, OwnJournal, HostAssumption
<1>2. CASE Stop
  <2>1. CASE worker' = [worker EXCEPT !.at = "activate", !.mode = "lost"]
    <3>1. Ready("activate", "lost")
      BY <1>1, UpdateAssumption DEF Ready, Journaled, Mode
    <3> QED
      BY <1>1, <1>2, <2>1, <3>1, GoesAs, QuietRest DEF Stop, Plain, Stage, Mode
  <2>2. CASE Goto("down")
    <3>1. Ready("down", worker.mode)
      BY <1>1 DEF Ready, Journaled
    <3> QED
      BY <1>1, <1>2, <2>2, <3>1, GoesTo, QuietRest DEF Stop, Plain, Stage
  <2> QED
    BY <1>2, <2>1, <2>2 DEF Stop
<1>3. CASE Down
  <2>1. CASE Write(worker.j, "updating", "converge")
    BY <1>1, <1>3, <2>1, Writes, QuietRest DEF Down, Saying, After
  <2>2. CASE Goto("start") /\ UNCHANGED dir
    <3>1. Ready("start", worker.mode)
      BY <1>1 DEF Ready, Journaled
    <3> QED
      BY <1>1, <1>3, <2>2, <3>1, GoesTo, QuietRest DEF Down, Plain, Stage
  <2>3. CASE Fail
    BY <1>1, <1>3, <2>3, Fails, QuietRest DEF Down
  <2>4. CASE /\ ~(worker.j.installs >= 2)
             /\ Write([worker.j EXCEPT !.installs = @ + 1, !.intent = TRUE],
                      "updating", "repair")
    <3>1. worker.j.installs \in 0..2
      BY <1>1 DEF Journal
    <3>2. worker.j.installs + 1 \in 0..2
      BY <2>4, <3>1
    <3>3. [worker.j EXCEPT !.installs = worker.j.installs + 1,
                           !.intent = TRUE] \in Journal
      BY <1>1, <3>2 DEF Journal
    <3> QED
      BY <1>1, <1>3, <2>4, <3>3, Writes, QuietRest DEF Down, Saying, After
  <2> QED
    BY <1>3, <2>1, <2>2, <2>3, <2>4 DEF Down
<1>4. CASE Start
  <2>1. Held
    <3>1. [worker.j EXCEPT !.activated = TRUE] \in Journal
      BY <1>1 DEF Journal
    <3> QED
      BY <1>1, <1>4, <3>1, Writes, Fails DEF Start, Saying, After
  <2>2. Driven
    <3>1. CASE gw' = Started /\ ~gw.up
      BY <1>1, <3>1, Parts, GatewayTypes DEF Driven, Started, Gateway
    <3>2. CASE UNCHANGED gw
      BY <3>2, GwSame
    <3> QED
      BY <1>4, <3>1, <3>2 DEF Start
  <2>3. Others
    BY <1>4, Parts, Counts DEF Start, AtWork, Others
  <2> QED
    BY <2>1, <2>2, <2>3
<1> QED
  BY <1>2, <1>3, <1>4

LEMMA RevivalHeld ==
  ASSUME TypeInv, ReviveBegins \/ Reviving \/ Poll
  PROVE  Held /\ Driven /\ Others
<1>0. worker.mode = "revive" /\ worker \in WorkerState /\ Dirs
  BY Parts DEF ReviveBegins, Reviving, Poll, WorkerOK
<1>1. CASE ReviveBegins
  <2>1. Driven /\ Others
    BY <1>1, QuietRest DEF ReviveBegins
  <2>2. ~Working
    BY <1>1 DEF ReviveBegins, Working, NotStarted
  <2>3. CASE /\ Active # None /\ Active.holder = None
             /\ dir' = Lock("worker") /\ Goto("reviving")
    <3> DEFINE D == [Active EXCEPT !.holder = "worker"]
    <3>1. D \in Directory /\ D.cred = Active.cred
          /\ D.manager = Active.manager /\ D.holder = "worker"
      BY <1>0, <2>3 DEF Directory, Holder, Dirs, Active, Place
    <3>2. dir' = [dir EXCEPT !["active"] = D]
      BY <1>0, <2>3 DEF Lock, Active, Dirs
    <3>3. worker' \in WorkerState /\ worker'.at = "reviving"
          /\ worker'.mode = "revive"
      BY <1>0, <2>3 DEF Goto, WorkerState, Stage
    <3>4. Workers' /\ Working'
      BY <3>3, UpdateAssumption DEF Workers, WorkerOK, Says, Journaled,
                                    Working, NotStarted, Stage
    <3> HIDE DEF D
    <3>5. Dirs' /\ Carried /\ LockTaken
      BY <1>0, <2>3, <3>1, <3>2, HostAssumption
         DEF Dirs, Carried, LockTaken, Found, Active, Place
    <3> QED
      BY <2>1, <2>2, <3>4, <3>5 DEF Held, Locking
  <2>4. CASE worker' = Gone /\ UNCHANGED dir
    <3>1. Workers' /\ ~Working'
      BY <2>4, UpdateAssumption DEF Gone, Workers, WorkerOK, WorkerState,
                                    Says, Journaled, Stage, Working
    <3>2. Dirs' /\ Carried /\ HoldersKept
      BY <1>0, <2>4 DEF Dirs, Carried, HoldersKept
    <3> QED
      BY <2>1, <2>2, <3>1, <3>2 DEF Held, Locking
  <2> QED
    BY <1>1, <2>3, <2>4 DEF ReviveBegins
<1>2. CASE Reviving
  <2>1. Working
    BY <1>2, AtWorkNow DEF Reviving, Stage, NotStarted
  <2>2. Held
    <3>1. Ready("activate", worker.mode) /\ Ready("poll", worker.mode)
      BY <1>0, UpdateAssumption DEF Ready, Journaled, Mode
    <3>2. CASE WorkerExit
      BY <3>2, Exits
    <3>3. CASE Goto("activate") /\ UNCHANGED dir
      BY <2>1, <3>1, <3>3, GoesTo DEF Plain, Stage
    <3>4. CASE Goto("poll") /\ UNCHANGED dir
      BY <2>1, <3>1, <3>4, GoesTo DEF Plain, Stage
    <3> QED
      BY <1>2, <3>2, <3>3, <3>4 DEF Reviving
  <2>3. Driven
    <3>1. CASE gw' \in Reloaded(disk) /\ gw.up
      BY <2>1, <3>1, Parts, GatewayTypes, ReloadKeeps DEF Driven
    <3>2. CASE UNCHANGED gw
      BY <3>2, GwSame
    <3> QED
      BY <1>2, <3>1, <3>2 DEF Reviving
  <2>4. Others
    BY <1>2, Parts, Counts DEF Reviving, AtWork, Others
  <2> QED
    BY <2>2, <2>3, <2>4
<1>3. CASE Poll
  <2>1. Working
    BY <1>3, AtWorkNow DEF Poll, Stage, NotStarted
  <2>2. Ready("activate", worker.mode)
    BY <1>0, UpdateAssumption DEF Ready, Journaled, Mode
  <2>3. CASE Goto("activate") /\ UNCHANGED dir
    BY <1>3, <2>1, <2>2, <2>3, GoesTo, QuietRest DEF Poll, Plain, Stage
  <2>4. CASE WorkerExit
    BY <1>3, <2>4, Exits, QuietRest DEF Poll
  <2> QED
    BY <1>3, <2>3, <2>4 DEF Poll
<1> QED
  BY <1>1, <1>2, <1>3

LEMMA LastHeld ==
  ASSUME TypeInv, WorkerEnds \/ Failing \/ Installed \/ Repaired \/ WorkerDies
  PROVE  Held /\ Driven /\ Others
<1>1. CASE WorkerEnds
  BY <1>1, Exits, QuietRest DEF WorkerEnds
<1>2. CASE Failing
  <2>1. Working
    BY <1>2, AtWorkNow DEF Failing, Stage, NotStarted
  <2> QED
    BY <1>2, <2>1, Fails, QuietRest DEF Failing
<1>3. CASE Installed
  <2>1. Working /\ worker.j \in Journal /\ worker.say \in Saying
    BY <1>3, OwnJournal, Parts DEF Installed, Journaled, WorkerOK, WorkerState
  <2>2. [worker.j EXCEPT !.staged = TRUE, !.intent = FALSE] \in Journal
    BY <2>1 DEF Journal
  <2> QED
    BY <1>3, <2>1, <2>2, Writes, QuietRest DEF Installed, After
<1>4. CASE Repaired
  <2>1. Working /\ worker.j \in Journal
    BY <1>4, OwnJournal DEF Repaired, Journaled
  <2>2. [worker.j EXCEPT !.staged = TRUE, !.repaired = TRUE,
                         !.intent = FALSE] \in Journal
    BY <2>1 DEF Journal
  <2> QED
    BY <1>4, <2>1, <2>2, Writes, QuietRest DEF Repaired, Saying, After
<1>5. CASE WorkerDies
  BY <1>5, Exits, Parts, GwSame, Counts DEF WorkerDies, AtWork, Others
<1> QED
  BY <1>1, <1>2, <1>3, <1>4, <1>5

LEMMA UpdateHeld ==
  ASSUME TypeInv, Update PROVE Held /\ Driven /\ Others
<1>1. CASE Manage
  BY <1>1, ManageHeld
<1>2. CASE Converge \/ Repairs \/ Defers
  BY <1>2, AtConverge, ConvergeHeld DEF Converge
<1>3. CASE Work \/ WorkerDies
  BY <1>3, WorkerBeginsHeld, PreflightHeld, ProceedHeld, AttemptHeld,
     InstallsHeld, ReloadHeld, SuspendHeld, RestartHeld, RecoverHeld,
     RevivalHeld, LastHeld DEF Work
<1> QED
  BY <1>1, <1>2, <1>3 DEF Update

-----------------------------------------------------------------------------
(* What the host does by itself.                                           *)

Sided == gw'.up => gw'.side = config \/ (gw.up /\ gw'.side = gw.side)

LEMMA Reopens ==
  ASSUME Dirs, dir' = [dir EXCEPT !["active"] = Found]
  PROVE  Dirs' /\ Carried /\ HoldersKept
         /\ \A p \in Place : dir[p] # None => dir'[p] = dir[p]
BY FoundType, HostAssumption
   DEF Dirs, Carried, HoldersKept, Found, Active, Empty, Place

LEMMA ByItself ==
  ASSUME TypeInv, Environment, Forgets
  PROVE  /\ Dirs' /\ Workers' /\ Carried /\ HoldersKept /\ Sided
         /\ gw' \in Gateway /\ unit' \in BOOLEAN
         /\ pending' \in BOOLEAN /\ scheduled' \in BOOLEAN
         /\ check' \in {"update", "revive"} \cup {None}
         /\ worked' \in 0..MaxWork /\ faults' \in faults..MaxFaults
         /\ UNCHANGED <<disk, config, worker>>
<1>0. UNCHANGED worker /\ pending' \in BOOLEAN /\ scheduled' \in BOOLEAN
      /\ check' \in {"update", "revive"} \cup {None} /\ Workers'
  BY Parts DEF Forgets, Workers, WorkerOK, Says, Asked
<1>1. UNCHANGED dir => Dirs' /\ Carried /\ HoldersKept
  BY Parts DEF Dirs, Carried, HoldersKept
<1>2. CASE WorkBegins
  <2>1. gw' \in Gateway /\ Sided
    BY <1>2, Parts DEF WorkBegins, Gateway, Sided
  <2> QED
    BY <1>0, <1>1, <1>2, <2>1, Parts DEF WorkBegins
<1>3. CASE WorkEnds \/ CollectorReady
  <2>1. gw' \in Gateway /\ Sided
    BY <1>3, Parts DEF WorkEnds, CollectorReady, Gateway, Sided
  <2> QED
    BY <1>0, <1>1, <1>3, <2>1, Parts DEF WorkEnds, CollectorReady
<1>4. CASE GatewayDies
  <2>1. gw' \in Gateway /\ Sided
    BY <1>4, Parts DEF GatewayDies, Stopped, Gateway, Sided
  <2> QED
    BY <1>0, <1>1, <1>4, <2>1, Parts, Counts DEF GatewayDies
<1>5. CASE GatewayReturns
  <2>1. gw' \in Gateway /\ Sided
    BY <1>5, Parts, GatewayTypes DEF GatewayReturns, Started, Sided
  <2>2. Dirs' /\ Carried /\ HoldersKept
    BY <1>5, Parts, Reopens DEF GatewayReturns
  <2> QED
    BY <1>0, <1>5, <2>1, <2>2, Parts DEF GatewayReturns
<1>6. CASE UnitReturns
  <2>1. gw' \in Gateway /\ Sided
    BY <1>6, Parts DEF UnitReturns, Sided
  <2> QED
    BY <1>0, <1>1, <1>6, <2>1, Parts DEF UnitReturns
<1> QED
  BY <1>2, <1>3, <1>4, <1>5, <1>6 DEF Environment

-----------------------------------------------------------------------------
(* The transition: types.                                                  *)

LEMMA TransitionParts ==
  ASSUME TypeInv
  PROVE  act \in Activation /\ receipt \in Receipt \cup {None}
         /\ copied \in BOOLEAN
BY DEF TypeInv, TypeOK, TransitionTypeOK

LEMMA Thens ==
  ASSUME TypeInv, NEW stage \in Forth \cup Back, Then(stage)
  PROVE  act' \in Activation /\ act'.at = stage /\ act'.moved = act.moved
         /\ act'.manager = act.manager
BY TransitionParts DEF Then, Activation

LEMMA Leaves ==
  ASSUME TypeInv, Exit
  PROVE  /\ act' = Absent /\ act' \in Activation
         /\ Dirs' /\ dir' = Unlocked("activate")
         /\ Carried
         /\ \A p \in Place : dir[p] = None => dir'[p] = None
<1>1. Dirs /\ "activate" \in Holder /\ dir' = Unlocked("activate")
      /\ act' = Absent
  BY Parts DEF Exit, Holder
<1>2. Dirs'
  BY <1>1, Unlocking DEF Dirs
<1>3. \A p \in Place : /\ dir[p] # None => /\ dir'[p] # None
                                           /\ dir'[p].cred = dir[p].cred
                                           /\ dir'[p].manager = dir[p].manager
                       /\ dir[p] = None => dir'[p] = None
  <2> SUFFICES ASSUME NEW p \in Place
               PROVE  /\ dir[p] # None => /\ dir'[p] # None
                                          /\ dir'[p].cred = dir[p].cred
                                          /\ dir'[p].manager = dir[p].manager
                      /\ dir[p] = None => dir'[p] = None
    OBVIOUS
  <2>1. CASE dir[p] # None
    BY <1>1, <2>1, UnlockedFields
  <2>2. CASE dir[p] = None
    BY <1>1, <2>2, Unlocking
  <2> QED
    BY <2>1, <2>2
<1> QED
  BY <1>1, <1>2, <1>3 DEF Carried, Absent, Activation

(* What a step of the transition does to the directories.                  *)
Puts(p, d) == dir' = [dir EXCEPT ![p] = d]

LEMMA ManagerDirs ==
  ASSUME TypeInv, NEW side \in Side, ManagerInstalled(side)
  PROVE  /\ Dirs' /\ unit' \in BOOLEAN
         /\ \/ UNCHANGED dir /\ ~act.manager
            \/ /\ act.manager /\ dir'["active"] # None
               /\ dir'["active"] \in Directory
               /\ dir'["active"].manager # None
               /\ dir'["active"].cred = Found.cred
               /\ dir'["active"].holder = Found.holder
               /\ dir'["active"].journal = Found.journal
               /\ dir'["active"].tries = Found.tries
               /\ \A p \in Place \ {"active"} : dir'[p] = dir[p]
<1>0. Dirs /\ Found \in Directory /\ unit \in BOOLEAN
      /\ act \in Activation
  BY Parts, FoundType, TransitionParts
<1>1. CASE ~act.manager
  BY <1>0, <1>1 DEF ManagerInstalled, Dirs, Activation
<1>2. CASE act.manager
  <2> DEFINE m == [side |-> side, older |-> FALSE]
             D == [Found EXCEPT !.manager = m]
  <2>1. m \in Manager
    BY DEF Manager
  <2>2. m # None
    BY <2>1, HostAssumption
  <2>3. /\ D \in Directory /\ D.manager = m /\ D.cred = Found.cred
        /\ D.holder = Found.holder /\ D.journal = Found.journal
        /\ D.tries = Found.tries
    BY <1>0, <2>1 DEF Directory
  <2>4. dir' = [dir EXCEPT !["active"] = D]
    BY <1>2 DEF ManagerInstalled
  <2>5. unit' \in BOOLEAN
    BY <1>0, <1>2 DEF ManagerInstalled, Activation
  <2> HIDE DEF D, m
  <2>6. Dirs' /\ dir'["active"] = D
        /\ \A p \in Place \ {"active"} : dir'[p] = dir[p]
    BY <1>0, <2>3, <2>4 DEF Dirs, Place
  <2> QED
    BY <1>2, <2>2, <2>3, <2>5, <2>6, HostAssumption
<1> QED
  BY <1>1, <1>2

Typed == /\ Dirs' /\ gw' \in Gateway /\ unit' \in BOOLEAN /\ config' \in Side
         /\ faults' \in faults..MaxFaults /\ disk' = disk /\ worked' = worked
         /\ TransitionTypeOK'

LEMMA DirKept == ASSUME TypeInv, UNCHANGED dir PROVE Dirs'
BY Parts DEF Dirs

LEMMA StopTyped ==
  ASSUME TypeInv, StopSource \/ StopAgain PROVE Typed
<1>0. /\ act \in Activation /\ receipt \in Receipt \cup {None}
      /\ copied \in BOOLEAN /\ unit \in BOOLEAN /\ config \in Side
      /\ gw \in Gateway /\ Stopped \in Gateway
      /\ disk \in Release /\ faults \in 0..MaxFaults
  BY Parts, TransitionParts, GatewayTypes
<1>2. /\ unit' \in BOOLEAN /\ config' = config /\ copied' = copied
      /\ disk' = disk /\ worked' = worked
      /\ gw' \in {gw, Stopped} /\ faults' \in faults..MaxFaults
  BY <1>0, Counts DEF StopSource, StopAgain, StopHost, UnitStopped, Kept
<1>3. CASE StopSource
  <2>1. \/ Then("copy") /\ UNCHANGED <<dir, receipt>>
        \/ Then("unstop") /\ UNCHANGED <<dir, receipt>>
    BY <1>3 DEF StopSource, StopHost, RollBack, Forward
  <2>2. {"copy", "unstop"} \subseteq Forth \cup Back
    BY DEF Forth, Back
  <2> QED
    BY <1>0, <1>2, <2>1, <2>2, Thens, DirKept DEF Typed, TransitionTypeOK
<1>4. CASE StopAgain
  <2>1. \/ (Then("away") \/ Then("restore")) /\ UNCHANGED <<dir, receipt>>
        \/ receipt' = "rollback_required" /\ Exit
    BY <1>4 DEF StopAgain, StopHost, GiveUp, Forward
  <2>2. {"away", "restore"} \subseteq Forth \cup Back
        /\ "rollback_required" \in Receipt
    BY DEF Forth, Back, Receipt
  <2> QED
    BY <1>0, <1>2, <2>1, <2>2, Thens, DirKept, Leaves
       DEF Typed, TransitionTypeOK
<1> QED
  BY <1>3, <1>4

(* The steps that change neither the directories nor the gateway.          *)
LEMMA FileTyped ==
  ASSUME TypeInv, \/ CopyConfig \/ SaveSwitching \/ WriteConfig
                  \/ SaveStarting \/ RestoreConfig \/ Forget \/ Uncopy
                  \/ SaveActivated
  PROVE  Typed
<1>0. /\ act \in Activation /\ receipt \in Receipt \cup {None}
      /\ copied \in BOOLEAN /\ unit \in BOOLEAN /\ config \in Side
      /\ gw \in Gateway /\ disk \in Release /\ faults \in 0..MaxFaults
  BY Parts, TransitionParts
<1>1. /\ UNCHANGED <<gw, unit, disk, worked>>
      /\ config' \in Side /\ copied' \in BOOLEAN /\ faults' \in faults..MaxFaults
  BY <1>0, Counts
     DEF CopyConfig, SaveSwitching, WriteConfig, SaveStarting, RestoreConfig,
         Forget, Uncopy, SaveActivated, Kept, Side
<1>2. \/ Exit
      \/ /\ UNCHANGED dir
         /\ \E stage \in Forth \cup Back : Then(stage)
  BY DEF CopyConfig, SaveSwitching, WriteConfig, SaveStarting, RestoreConfig,
         Forget, Uncopy, SaveActivated, GiveUp, Unclear, RollBack, Forward,
         Forth, Back
<1>3. Dirs' /\ act' \in Activation
  BY <1>2, Thens, DirKept, Leaves
<1>4. receipt' \in Receipt \cup {None}
  BY <1>0
     DEF CopyConfig, SaveSwitching, WriteConfig, SaveStarting, RestoreConfig,
         Forget, Uncopy, SaveActivated, GiveUp, Unclear, RollBack, Forward,
         Receipt
<1> QED
  BY <1>0, <1>1, <1>3, <1>4 DEF Typed, TransitionTypeOK

(* The steps that move or write a directory.                               *)
LEMMA MoveTyped ==
  ASSUME TypeInv, MoveSource \/ WriteCandidate \/ MoveAway \/ MoveBack
  PROVE  Typed
<1>0. /\ act \in Activation /\ receipt \in Receipt \cup {None}
      /\ copied \in BOOLEAN /\ unit \in BOOLEAN /\ config \in Side
      /\ gw \in Gateway /\ disk \in Release /\ faults \in 0..MaxFaults
      /\ Dirs /\ Found \in Directory
  BY Parts, TransitionParts, FoundType
<1>1. /\ UNCHANGED <<gw, unit, config, disk, worked, copied>>
      /\ faults' \in faults..MaxFaults
  BY <1>0, Counts DEF MoveSource, WriteCandidate, MoveAway, MoveBack, Kept
<1>2. \/ Exit
      \/ UNCHANGED dir
      \/ dir' = [dir EXCEPT !["archive"] = Active, !["active"] = None]
      \/ dir' = [dir EXCEPT !["active"] = [Found EXCEPT !.cred = "target"]]
      \/ dir' = [dir EXCEPT !["failed"] = Active, !["active"] = None]
      \/ dir' = [dir EXCEPT !["active"] = dir["archive"], !["archive"] = None]
  BY DEF MoveSource, WriteCandidate, MoveAway, MoveBack, RollBack, GiveUp,
         Forward
<1>3. Dirs'
  <2>1. [Found EXCEPT !.cred = "target"] \in Directory
    BY <1>0 DEF Directory, Side
  <2> QED
    BY <1>0, <1>2, <2>1, Leaves, DirKept DEF Dirs, Active, Place
<1>4. act' \in Activation
  <2>1. \/ Exit
        \/ act' = [act EXCEPT !.at = "candidate", !.moved = TRUE]
        \/ \E stage \in Forth \cup Back : Then(stage)
    BY DEF MoveSource, WriteCandidate, MoveAway, MoveBack, RollBack, GiveUp,
           Forward, Forth, Back
  <2>2. CASE act' = [act EXCEPT !.at = "candidate", !.moved = TRUE]
    BY <1>0, <2>2 DEF Activation, Forth
  <2> QED
    BY <2>1, <2>2, Leaves, Thens
<1>5. receipt' \in Receipt \cup {None}
  BY <1>0 DEF MoveSource, WriteCandidate, MoveAway, MoveBack, RollBack,
              GiveUp, Forward, Receipt
<1> QED
  BY <1>0, <1>1, <1>3, <1>4, <1>5 DEF Typed, TransitionTypeOK

(* The steps that command the gateway.                                     *)
LEMMA CommandTyped ==
  ASSUME TypeInv, SuspendHost \/ Lease \/ StartTarget \/ StartSource
  PROVE  Typed
<1>0. /\ act \in Activation /\ receipt \in Receipt \cup {None}
      /\ copied \in BOOLEAN /\ unit \in BOOLEAN /\ config \in Side
      /\ gw \in Gateway /\ disk \in Release /\ faults \in 0..MaxFaults
      /\ {Started, Stopped, Suspended, Resumed} \subseteq Gateway
  BY Parts, TransitionParts, GatewayTypes
<1>1. /\ UNCHANGED <<config, disk, worked, copied>>
      /\ gw' \in Gateway /\ faults' \in faults..MaxFaults
  BY <1>0, Counts DEF SuspendHost, Lease, StartTarget, StartSource, Kept
<1>2. \/ Exit /\ UNCHANGED unit
      \/ UNCHANGED <<dir, unit>> /\ \E stage \in Forth \cup Back : Then(stage)
      \/ /\ \E stage \in Forth \cup Back : Then(stage)
         /\ ManagerInstalled("target") \/ ManagerInstalled("source")
  BY DEF SuspendHost, Lease, StartTarget, StartSource, GiveUp, Unclear,
         Forth, Back
<1>3. Dirs' /\ act' \in Activation /\ unit' \in BOOLEAN
  BY <1>0, <1>2, Thens, DirKept, Leaves, ManagerDirs DEF Side
<1>4. receipt' \in Receipt \cup {None}
  BY <1>0 DEF SuspendHost, Lease, StartTarget, StartSource, GiveUp, Unclear,
              Receipt
<1> QED
  BY <1>0, <1>1, <1>3, <1>4 DEF Typed, TransitionTypeOK

LEMMA EdgeTyped == ASSUME TypeInv, Begin \/ Dies PROVE Typed
<1>0. /\ act \in Activation /\ receipt \in Receipt \cup {None}
      /\ copied \in BOOLEAN /\ unit \in BOOLEAN /\ config \in Side
      /\ gw \in Gateway /\ disk \in Release /\ faults \in 0..MaxFaults /\ Dirs
  BY Parts, TransitionParts
<1>1. CASE Begin
  <2>1. dir' = [dir EXCEPT !["active"] = [Active EXCEPT !.holder = "activate"]]
        /\ Active \in Directory
    BY <1>0, <1>1 DEF Begin, Lock, Dirs, Active, Place
  <2>2. [Active EXCEPT !.holder = "activate"] \in Directory
    BY <2>1 DEF Directory, Holder
  <2>3. Dirs'
    BY <1>0, <2>1, <2>2 DEF Dirs
  <2>4. act' \in Activation
    BY <1>1 DEF Begin, Absent, Activation, Forth
  <2> QED
    BY <1>0, <1>1, <2>3, <2>4 DEF Begin, Kept, Typed, TransitionTypeOK
<1>2. CASE Dies
  <2>1. unit' \in BOOLEAN
    BY <1>0, <1>2 DEF Dies, UnitStopped
  <2> QED
    BY <1>0, <1>2, <2>1, Leaves, Counts
       DEF Dies, Kept, Typed, TransitionTypeOK
<1> QED
  BY <1>1, <1>2

LEMMA TransitionTyped == ASSUME TypeInv, Begin \/ Steps \/ Dies PROVE Typed
BY StopTyped, FileTyped, MoveTyped, CommandTyped, EdgeTyped DEF Steps

LEMMA InitDirs ==
  ASSUME Init
  PROVE  \E d \in Directory :
           /\ dir = [p \in Place |-> IF p # "active" THEN None ELSE d]
           /\ d.cred = "source" /\ d.journal = None /\ d.holder = None
           /\ d.tries = 0 /\ unit = (d.manager # None)
<1>1. PICK manager \in {None} \cup {[side |-> "source", older |-> b] :
                                     b \in Older},
           earlier \in {None, [rev |-> 0, status |-> "failed"]} :
        /\ dir = [p \in Place |->
                    IF p # "active" THEN None
                    ELSE [Empty EXCEPT !.cred = "source",
                                       !.manager = manager,
                                       !.attempt = earlier]]
        /\ unit = (manager # None)
  BY DEF Init, HostInit
<1> DEFINE D == [Empty EXCEPT !.cred = "source", !.manager = manager,
                              !.attempt = earlier]
<1>2. manager \in Manager \cup {None} /\ earlier \in Attempt \cup {None}
  BY HostAssumption DEF Manager, Side, Attempt
<1>3. D \in Directory
  BY <1>2 DEF Empty, Directory, Side
<1>4. /\ D.cred = "source" /\ D.journal = None /\ D.holder = None
      /\ D.tries = 0 /\ D.manager = manager
  BY DEF Empty
<1> HIDE DEF D
<1> QED
  BY <1>1, <1>3, <1>4 DEF D

LEMMA TypeInit == Init => TypeInv
<1> SUFFICES ASSUME Init PROVE TypeInv
  OBVIOUS
<1>1. gw \in Gateway /\ disk \in Release /\ config \in Side
      /\ worked \in 0..MaxWork /\ faults \in 0..MaxFaults
  BY HostAssumption DEF Init, HostInit, Gateway, Release, Side
<1>2. dir \in [Place -> Directory \cup {None}] /\ unit \in BOOLEAN
  BY InitDirs
<1>3. Gone \in WorkerState /\ WorkerOK
  BY UpdateAssumption DEF Init, UpdateInit, Gone, WorkerState, WorkerOK, Says,
                          Journaled, Stage
<1>4. TransitionTypeOK
  BY DEF Init, TransitionInit, TransitionTypeOK, Absent, Activation
<1> QED
  BY <1>1, <1>2, <1>3, <1>4
     DEF TypeInv, TypeOK, HostTypeOK, UpdateTypeOK, Init, UpdateInit

LEMMA TypeStep == TypeInv /\ [Next]_vars => TypeInv'
<1> SUFFICES ASSUME TypeInv, [Next]_vars PROVE TypeInv'
  OBVIOUS
<1>1. CASE Environment /\ Forgets /\ UNCHANGED transitionVars
  BY <1>1, ByItself, Parts, TransitionParts
     DEF TypeInv, TypeOK, HostTypeOK, UpdateTypeOK, TransitionTypeOK,
         transitionVars, Dirs, Workers
<1>2. CASE Update /\ UNCHANGED transitionVars
  BY <1>2, UpdateHeld, Parts, TransitionParts
     DEF TypeInv, TypeOK, HostTypeOK, UpdateTypeOK, TransitionTypeOK,
         transitionVars, Dirs, Workers, Held, Driven, Others
<1>3. CASE (Begin \/ Steps \/ Dies) /\ Forgets
  <2>1. Typed
    BY <1>3, TransitionTyped
  <2>2. UNCHANGED worker /\ pending' \in BOOLEAN /\ scheduled' \in BOOLEAN
        /\ check' \in {"update", "revive"} \cup {None} /\ Workers'
    BY <1>3, Parts DEF Forgets, Workers, WorkerOK, Says, Asked
  <2> QED
    BY <2>1, <2>2, Parts
       DEF TypeInv, TypeOK, HostTypeOK, UpdateTypeOK, Typed, Dirs, Workers
<1>4. CASE UNCHANGED vars
  BY <1>4 DEF vars, host, updateVars, transitionVars, TypeInv, TypeOK,
              HostTypeOK, UpdateTypeOK, TransitionTypeOK, WorkerOK, Says, Asked
<1> QED
  BY <1>1, <1>2, <1>3, <1>4 DEF Next

(* The types, and what the worker holds at each of its steps.              *)
THEOREM TypeCorrect == Spec => []TypeInv
BY TypeInit, TypeStep, PTL DEF Spec

-----------------------------------------------------------------------------
(* Where the source is at each step of a transition.                       *)

Home == Bound("source")
Stored == dir["archive"] # None /\ dir["archive"].cred = "source"
OfSource == Home /\ config = "source" /\ (gw.up => gw.side = "source")
OfTarget == Stored /\ config = "target" /\ Bound("target")

Early == {"suspend", "lease", "stop", "copy", "switching"}
Moving == {"candidate", "config", "starting"}

Receipted ==
  /\ act.at \in Early \cup {"uncopy"} => receipt = None
  /\ act.at \in Moving \cup {"move", "away", "back"} => receipt = "switching"
  /\ act.at \in {"start", "activated"} => receipt = "starting_target"
  /\ act.at \in {"unstop", "restore", "restart", "forget"} =>
       receipt \in {None, "switching"}

Placed ==
  /\ act.at \in Early \cup {"move"} => Home /\ ~act.moved
  /\ act.at \in Moving => Stored /\ act.moved
  /\ act.at = "config" => Bound("target")
  /\ act.at = "starting" => OfTarget
  /\ act.at = "unstop" => IF act.moved THEN Stored /\ receipt = "switching"
                          ELSE Home
  /\ act.at \in {"away", "back"} => Stored
  /\ act.at \in {"restore", "restart", "forget", "uncopy"} => Home
  /\ act.at \in {"restart", "forget"} => config = "source"
  /\ act.at = "forget" /\ gw.up => gw.side = "source"

AnyTime ==
  /\ Home \/ Stored
  /\ receipt = None => OfSource
  /\ receipt \in {"starting_target", "activated", "recovery_required"}
       => OfTarget

SourceInv == Receipted /\ Placed /\ AnyTime

(* Bindings are carried by every step but those of the transition.         *)
LEMMA Bindings ==
  ASSUME Carried, UNCHANGED config, Sided
  PROVE  /\ Home => Home'
         /\ Bound("target") => Bound("target")'
         /\ Stored => Stored'
         /\ OfTarget => OfTarget'
         /\ OfSource => OfSource'
<1>1. /\ dir["active"] # None => dir'["active"] # None
                                 /\ dir'["active"].cred = dir["active"].cred
      /\ dir["archive"] # None => dir'["archive"] # None
                                /\ dir'["archive"].cred = dir["archive"].cred
  BY DEF Carried, Place
<1>2. Home => Home'
  BY <1>1 DEF Home, Bound, Active
<1>3. Bound("target") => Bound("target")'
  BY <1>1 DEF Bound, Active
<1>4. Stored => Stored'
  BY <1>1 DEF Stored
<1> QED
  BY <1>2, <1>3, <1>4 DEF OfTarget, OfSource, Sided

LEMMA SourceAside ==
  ASSUME SourceInv, Carried, Sided, UNCHANGED <<config, act, receipt>>
  PROVE  SourceInv'
<1>1. Receipted'
  BY DEF SourceInv, Receipted
<1>2. Placed'
  BY Bindings DEF SourceInv, Placed, Sided
<1>3. AnyTime'
  BY Bindings DEF SourceInv, AnyTime
<1> QED
  BY <1>1, <1>2, <1>3 DEF SourceInv

(* However an activation ends, what holds at any time still does.          *)
LEMMA SourceLeft ==
  ASSUME TypeInv, AnyTime, Exit, UNCHANGED config, Sided,
         \/ receipt' \in {receipt, "rollback_required"}
         \/ receipt = "starting_target"
            /\ receipt' \in {"activated", "recovery_required"}
  PROVE  SourceInv'
<1>1. Carried /\ act' = Absent
  BY Leaves
<1>2. act'.at = None /\ None \notin Forth \cup Back \cup Receipt
  BY <1>1, TransitionAssumption DEF Absent
<1>3. Receipted' /\ Placed'
  BY <1>2 DEF Receipted, Placed, Early, Moving, Forth, Back
<1>4. AnyTime'
  BY <1>1, <1>2, Bindings DEF AnyTime, Receipt
<1> QED
  BY <1>3, <1>4 DEF SourceInv

LEMMA SourceRollBack ==
  ASSUME TypeInv, SourceInv, RollBack, UNCHANGED config, Sided,
         act.at \in {"stop", "copy", "switching", "move"} \cup Moving
  PROVE  SourceInv'
<1>1. act'.at = "unstop" /\ act'.moved = act.moved /\ UNCHANGED <<dir, receipt>>
  BY Thens DEF RollBack, Back
<1>2. Carried
  BY <1>1, Parts DEF Carried, Dirs
<1>3. receipt \in {None, "switching"} /\ (act.moved => receipt = "switching")
      /\ IF act.moved THEN Stored ELSE Home
  BY DEF SourceInv, Receipted, Placed, Early, Moving
<1>4. AnyTime' /\ Stored' = Stored /\ Home' = Home
  BY <1>1, <1>2, Bindings
     DEF SourceInv, AnyTime, Stored, Home, Bound, Active
<1> QED
  BY <1>1, <1>3, <1>4 DEF SourceInv, Receipted, Placed, Early, Moving

LEMMA SourceGiveUp ==
  ASSUME TypeInv, SourceInv, GiveUp, UNCHANGED config, Sided PROVE SourceInv'
BY SourceLeft DEF GiveUp, SourceInv

(* A step to the next stage that moves no directory and writes no receipt. *)
Onward(stage) == Then(stage) /\ UNCHANGED <<dir, config, receipt>>

LEMMA SourceOnward ==
  ASSUME TypeInv, SourceInv, Sided, NEW stage \in Forth \cup Back,
         Onward(stage)
  PROVE  /\ act'.at = stage /\ act'.moved = act.moved
         /\ AnyTime' /\ Stored' = Stored /\ Home' = Home
         /\ Bound("target")' = Bound("target") /\ OfTarget' = OfTarget
<1>1. act'.at = stage /\ act'.moved = act.moved
  BY Thens DEF Onward
<1>2. Carried
  BY Parts DEF Onward, Carried, Dirs
<1>3. Stored' = Stored /\ Home' = Home /\ Bound("target")' = Bound("target")
      /\ OfTarget' = OfTarget
  BY DEF Onward, Stored, Home, Bound, Active, OfTarget
<1> QED
  BY <1>1, <1>2, <1>3, Bindings DEF Onward, SourceInv, AnyTime

LEMMA SourceSuspended ==
  ASSUME TypeInv, SourceInv, SuspendHost \/ Lease \/ StopSource \/ CopyConfig
  PROVE  SourceInv'
<1>0. Home /\ ~act.moved /\ receipt = None /\ act.at \in Early
      /\ UNCHANGED <<config, receipt>>
  <2>1. act.at \in Early /\ UNCHANGED <<config, receipt>>
    BY DEF SuspendHost, Lease, StopSource, StopHost, CopyConfig, Early,
           RollBack, Forward, Exit
  <2> QED
    BY <2>1 DEF SourceInv, Placed, Receipted
<1>1. Sided /\ gw \in Gateway
  BY Parts DEF SuspendHost, Lease, StopSource, StopHost, CopyConfig, Sided,
               Suspended, Resumed, Stopped, Gateway
<1>2. CASE Exit
  BY <1>0, <1>1, <1>2, SourceLeft DEF SourceInv
<1>3. CASE RollBack /\ act.at \in {"stop", "copy"}
  BY <1>0, <1>1, <1>3, SourceRollBack
<1>4. CASE \E stage \in Early : Onward(stage)
  <2>1. PICK stage \in Early : Onward(stage)
    BY <1>4
  <2>2. stage \in Forth
    BY DEF Early, Forth
  <2>3. /\ act'.at = stage /\ act'.moved = act.moved
        /\ AnyTime' /\ Home' = Home
    BY <1>1, <2>1, <2>2, SourceOnward
  <2> QED
    BY <1>0, <2>3 DEF SourceInv, Receipted, Placed, Early, Moving
<1> QED
  BY <1>0, <1>2, <1>3, <1>4
     DEF SuspendHost, Lease, StopSource, StopHost, CopyConfig, Forward, Onward,
         Early

LEMMA Directories ==
  ASSUME TypeInv
  PROVE  /\ "active" \in Place /\ "archive" \in Place /\ "failed" \in Place
         /\ Active \in Directory \cup {None}
         /\ dir["archive"] \in Directory \cup {None}
         /\ Found \in Directory /\ Found # None /\ Dirs
BY Parts, FoundType, HostAssumption DEF Dirs, Active, Place

LEMMA SourceSwitching ==
  ASSUME TypeInv, SourceInv, SaveSwitching PROVE SourceInv'
<1>0. Sided /\ UNCHANGED config /\ act.at = "switching"
  BY DEF SaveSwitching, Sided
<1>1. CASE RollBack
  BY <1>0, <1>1, SourceRollBack
<1>2. CASE receipt' = "switching" /\ Then("move") /\ UNCHANGED dir
  <2>1. act'.at = "move" /\ act'.moved = act.moved
    BY <1>2, Thens DEF Forth
  <2>2. Home' = Home /\ "switching" # None
    BY <1>2, TransitionAssumption DEF Home, Bound, Active, Receipt
  <2>3. Home /\ ~act.moved
    BY <1>0 DEF SourceInv, Placed, Early
  <2> QED
    BY <1>2, <2>1, <2>2, <2>3
       DEF SourceInv, Receipted, Placed, AnyTime, Early, Moving
<1> QED
  BY <1>1, <1>2 DEF SaveSwitching

LEMMA SourceMoved ==
  ASSUME TypeInv, SourceInv, MoveSource PROVE SourceInv'
<1>0. Sided /\ UNCHANGED config /\ act.at = "move" /\ receipt = "switching"
      /\ Home
  BY DEF MoveSource, Sided, SourceInv, Receipted, Placed
<1>1. CASE RollBack
  BY <1>0, <1>1, SourceRollBack
<1>2. CASE /\ dir' = [dir EXCEPT !["archive"] = Active, !["active"] = None]
           /\ act' = [act EXCEPT !.at = "candidate", !.moved = TRUE]
           /\ UNCHANGED receipt
  <2>1. act'.at = "candidate" /\ act'.moved
    BY <1>2, TransitionParts DEF Activation
  <2>2. dir'["archive"] = Active
    BY <1>2, Directories DEF Dirs
  <2>3. Stored'
    BY <1>0, <2>2 DEF Stored, Home, Bound
  <2>4. "switching" # None
    BY TransitionAssumption DEF Receipt
  <2> QED
    BY <1>0, <1>2, <2>1, <2>3, <2>4
       DEF SourceInv, Receipted, Placed, AnyTime, Early, Moving
<1> QED
  BY <1>1, <1>2 DEF MoveSource

LEMMA SourceCandidate ==
  ASSUME TypeInv, SourceInv, WriteCandidate PROVE SourceInv'
<1>0. Sided /\ UNCHANGED config /\ act.at = "candidate"
      /\ receipt = "switching" /\ Stored /\ act.moved
  BY DEF WriteCandidate, Sided, SourceInv, Receipted, Placed, Moving
<1>1. CASE RollBack
  BY <1>0, <1>1, SourceRollBack DEF Moving
<1>2. CASE /\ dir' = [dir EXCEPT !["active"] = [Found EXCEPT !.cred = "target"]]
           /\ Then("config") /\ UNCHANGED receipt
  <2>1. act'.at = "config" /\ act'.moved
    BY <1>0, <1>2, Thens DEF Forth
  <2> DEFINE D == [Found EXCEPT !.cred = "target"]
  <2>2. D \in Directory /\ D.cred = "target"
    BY Directories DEF Directory, Side
  <2>3. D # None
    BY <2>2, HostAssumption
  <2> HIDE DEF D
  <2>4. dir'["active"] = D /\ dir'["archive"] = dir["archive"]
    BY <1>2, Directories DEF Dirs, D
  <2>5. Stored' /\ Bound("target")'
    BY <1>0, <2>2, <2>3, <2>4 DEF Stored, Bound, Active
  <2>6. "switching" # None
    BY TransitionAssumption DEF Receipt
  <2> QED
    BY <1>0, <1>2, <2>1, <2>5, <2>6
       DEF SourceInv, Receipted, Placed, AnyTime, Early, Moving
<1> QED
  BY <1>1, <1>2 DEF WriteCandidate

LEMMA SourceConfigured ==
  ASSUME TypeInv, SourceInv, WriteConfig PROVE SourceInv'
<1>0. Sided /\ act.at = "config" /\ receipt = "switching" /\ Stored
      /\ act.moved /\ Bound("target")
  BY DEF WriteConfig, Sided, SourceInv, Receipted, Placed, Moving
<1>1. CASE RollBack /\ UNCHANGED config
  BY <1>0, <1>1, SourceRollBack DEF Moving
<1>2. CASE config' = "target" /\ Then("starting") /\ UNCHANGED <<dir, receipt>>
  <2>1. act'.at = "starting" /\ act'.moved
    BY <1>0, <1>2, Thens DEF Forth
  <2>2. Stored' /\ Bound("target")' /\ OfTarget'
    BY <1>0, <1>2 DEF Stored, Bound, Active, OfTarget
  <2>3. "switching" # None
    BY TransitionAssumption DEF Receipt
  <2> QED
    BY <1>0, <1>2, <2>1, <2>2, <2>3
       DEF SourceInv, Receipted, Placed, AnyTime, Early, Moving
<1> QED
  BY <1>1, <1>2 DEF WriteConfig, Forward

LEMMA SourceStarting ==
  ASSUME TypeInv, SourceInv, SaveStarting PROVE SourceInv'
<1>0. Sided /\ UNCHANGED config /\ act.at = "starting" /\ OfTarget
  BY DEF SaveStarting, Sided, SourceInv, Placed
<1>1. CASE RollBack
  BY <1>0, <1>1, SourceRollBack DEF Moving
<1>2. CASE receipt' = "starting_target" /\ Then("start") /\ UNCHANGED dir
  <2>1. act'.at = "start"
    BY <1>2, Thens DEF Forth
  <2>2. OfTarget'
    BY <1>0, <1>2 DEF OfTarget, Stored, Bound, Active
  <2>3. "starting_target" # None
    BY TransitionAssumption DEF Receipt
  <2> QED
    BY <1>2, <2>1, <2>2, <2>3
       DEF SourceInv, Receipted, Placed, AnyTime, Early, Moving, OfTarget
<1> QED
  BY <1>1, <1>2 DEF SaveStarting

LEMMA SourceStarted ==
  ASSUME TypeInv, SourceInv, StartTarget \/ SaveActivated PROVE SourceInv'
<1>0. UNCHANGED config /\ receipt = "starting_target" /\ OfTarget
      /\ "starting_target" # None
  BY TransitionAssumption DEF StartTarget, SaveActivated, SourceInv, Receipted,
                              AnyTime, Receipt
<1>1. CASE Exit /\ receipt' \in {"activated", "recovery_required"} /\ Sided
  BY <1>0, <1>1, SourceLeft DEF SourceInv
<1>2. CASE ManagerInstalled("target") /\ Then("activated") /\ UNCHANGED receipt
  <2>1. act'.at = "activated"
    BY <1>2, Thens DEF Forth
  <2>2. /\ dir'["active"] # None /\ dir'["active"].cred = "target"
        /\ dir'["archive"] = dir["archive"]
    BY <1>0, <1>2, ManagerDirs, Directories
       DEF Side, OfTarget, Bound, Active, Found, Place
  <2>3. OfTarget'
    BY <1>0, <2>2 DEF OfTarget, Stored, Bound, Active
  <2> QED
    BY <1>0, <1>2, <2>1, <2>3
       DEF SourceInv, Receipted, Placed, AnyTime, Early, Moving, OfTarget
<1>3. UNCHANGED gw => Sided
  BY DEF Sided
<1> QED
  BY <1>1, <1>2, <1>3 DEF StartTarget, SaveActivated, Unclear

LEMMA SourceStopped ==
  ASSUME TypeInv, SourceInv, StopAgain PROVE SourceInv'
<1>0. UNCHANGED config /\ act.at = "unstop" /\ Sided
  BY Parts DEF StopAgain, StopHost, Sided, Stopped, Gateway
<1>1. CASE GiveUp
  BY <1>0, <1>1, SourceGiveUp
<1>2. CASE Onward(IF act.moved THEN "away" ELSE "restore")
  <2>1. CASE act.moved
    <3>1. /\ act'.at = "away" /\ AnyTime' /\ Stored' = Stored
      BY <1>0, <1>2, <2>1, SourceOnward DEF Back
    <3> QED
      BY <1>0, <1>2, <2>1, <3>1
         DEF SourceInv, Receipted, Placed, Early, Moving, Onward
  <2>2. CASE ~act.moved
    <3>1. /\ act'.at = "restore" /\ AnyTime' /\ Home' = Home
      BY <1>0, <1>2, <2>2, SourceOnward DEF Back
    <3> QED
      BY <1>0, <1>2, <2>2, <3>1
         DEF SourceInv, Receipted, Placed, Early, Moving, Onward
  <2> QED
    BY <2>1, <2>2
<1> QED
  BY <1>0, <1>1, <1>2 DEF StopAgain, StopHost, Forward, Onward

LEMMA SourceBack ==
  ASSUME TypeInv, SourceInv, MoveAway \/ MoveBack PROVE SourceInv'
<1>0. UNCHANGED config /\ act.at \in {"away", "back"} /\ Sided /\ Stored
      /\ receipt = "switching" /\ "switching" # None
  BY TransitionAssumption
     DEF MoveAway, MoveBack, Sided, SourceInv, Receipted, Placed, Receipt
<1>1. CASE GiveUp
  BY <1>0, <1>1, SourceGiveUp
<1>2. CASE Onward("back")
  <2>1. /\ act'.at = "back" /\ AnyTime' /\ Stored' = Stored
    BY <1>0, <1>2, SourceOnward DEF Back
  <2> QED
    BY <1>0, <1>2, <2>1
       DEF SourceInv, Receipted, Placed, Early, Moving, Onward
<1>3. CASE /\ dir' = [dir EXCEPT !["failed"] = Active, !["active"] = None]
           /\ Then("back") /\ UNCHANGED receipt
  <2>1. act'.at = "back"
    BY <1>3, Thens DEF Back
  <2>2. Stored'
    BY <1>0, <1>3, Directories DEF Stored, Dirs
  <2> QED
    BY <1>0, <1>3, <2>1, <2>2
       DEF SourceInv, Receipted, Placed, AnyTime, Early, Moving
<1>4. CASE /\ dir' = [dir EXCEPT !["active"] = dir["archive"],
                                 !["archive"] = None]
           /\ Then("restore") /\ UNCHANGED receipt
  <2>1. act'.at = "restore"
    BY <1>4, Thens DEF Back
  <2>2. dir'["active"] = dir["archive"]
    BY <1>4, Directories DEF Dirs
  <2>3. Home'
    BY <1>0, <2>2 DEF Stored, Home, Bound, Active
  <2> QED
    BY <1>0, <1>4, <2>1, <2>3
       DEF SourceInv, Receipted, Placed, AnyTime, Early, Moving
<1> QED
  BY <1>0, <1>1, <1>2, <1>3, <1>4 DEF MoveAway, MoveBack, Forward, Onward

LEMMA SourceRestored ==
  ASSUME TypeInv, SourceInv, RestoreConfig PROVE SourceInv'
<1>0. act.at = "restore" /\ Sided /\ Home /\ receipt \in {None, "switching"}
      /\ "switching" \notin {None, "starting_target", "activated",
                             "recovery_required"}
  BY TransitionAssumption
     DEF RestoreConfig, Sided, SourceInv, Receipted, Placed, Receipt
<1>1. CASE GiveUp /\ UNCHANGED config
  BY <1>0, <1>1, SourceGiveUp
<1>2. CASE config' = "source" /\ Then("restart") /\ UNCHANGED <<dir, receipt, gw>>
  <2>1. act'.at = "restart"
    BY <1>2, Thens DEF Back
  <2>2. Home'
    BY <1>0, <1>2 DEF Home, Bound, Active
  <2>3. receipt = None => OfSource'
    BY <1>2, <2>2 DEF SourceInv, AnyTime, OfSource
  <2>4. AnyTime'
    BY <1>0, <1>2, <2>2, <2>3, TransitionAssumption DEF AnyTime, Receipt
  <2> QED
    BY <1>0, <1>2, <2>1, <2>2, <2>4
       DEF SourceInv, Receipted, Placed, Early, Moving
<1> QED
  BY <1>1, <1>2 DEF RestoreConfig, Forward

LEMMA SourceReturned ==
  ASSUME TypeInv, SourceInv, StartSource PROVE SourceInv'
<1>0. UNCHANGED config /\ act.at = "restart" /\ Home /\ config = "source"
      /\ receipt \in {None, "switching"}
      /\ "switching" \notin {None, "starting_target", "activated",
                             "recovery_required"}
  BY TransitionAssumption
     DEF StartSource, SourceInv, Receipted, Placed, Receipt
<1>1. CASE GiveUp /\ UNCHANGED gw
  BY <1>0, <1>1, SourceGiveUp DEF Sided
<1>2. CASE /\ ManagerInstalled("source") /\ gw' = Started /\ Then("forget")
           /\ UNCHANGED receipt
  <2>1. act'.at = "forget"
    BY <1>2, Thens DEF Back
  <2>2. /\ dir'["active"] # None /\ dir'["active"].cred = "source"
    BY <1>0, <1>2, ManagerDirs, Directories
       DEF Side, Home, Bound, Active, Found, Place
  <2>3. Home' /\ OfSource'
    BY <1>0, <1>2, <2>2 DEF Home, OfSource, Bound, Active, Started
  <2>4. AnyTime'
    BY <1>0, <1>2, <2>3, TransitionAssumption DEF AnyTime, Receipt
  <2> QED
    BY <1>0, <1>2, <2>1, <2>3, <2>4
       DEF SourceInv, Receipted, Placed, Early, Moving, OfSource
<1> QED
  BY <1>1, <1>2 DEF StartSource

LEMMA SourceForgotten ==
  ASSUME TypeInv, SourceInv, Forget \/ Uncopy PROVE SourceInv'
<1>0. UNCHANGED config /\ Sided /\ Home
  BY DEF Forget, Uncopy, Sided, SourceInv, Placed
<1>1. CASE GiveUp
  BY <1>0, <1>1, SourceGiveUp
<1>2. CASE Exit /\ UNCHANGED receipt
  BY <1>0, <1>2, SourceLeft DEF SourceInv
<1>3. CASE Forget /\ receipt' = None /\ Then("uncopy") /\ UNCHANGED dir
  <2>1. act'.at = "uncopy"
    BY <1>3, Thens DEF Back
  <2>2. config = "source" /\ (gw.up => gw.side = "source") /\ UNCHANGED gw
    BY <1>3 DEF Forget, SourceInv, Placed
  <2>3. Home' /\ OfSource'
    BY <1>0, <1>3, <2>2 DEF Home, Bound, Active, OfSource
  <2> QED
    BY <1>3, <2>1, <2>3, TransitionAssumption
       DEF SourceInv, Receipted, Placed, AnyTime, Early, Moving, Receipt
<1> QED
  BY <1>1, <1>2, <1>3 DEF Forget, Uncopy

LEMMA SourceEdges ==
  ASSUME TypeInv, SourceInv, Begin \/ Dies PROVE SourceInv'
<1>1. CASE Begin
  <2>1. act'.at = "suspend" /\ ~act'.moved /\ receipt = None
        /\ UNCHANGED <<receipt, config, gw>>
    BY <1>1 DEF Begin, Absent
  <2>2. /\ Active # None /\ Active \in Directory
        /\ dir' = [dir EXCEPT !["active"] =
                     [Active EXCEPT !.holder = "activate"]]
    BY <1>1, Directories DEF Begin, Lock, Active, Dirs
  <2> DEFINE D == [Active EXCEPT !.holder = "activate"]
  <2>3. D \in Directory /\ D.cred = Active.cred
    BY <2>2 DEF Directory, Holder
  <2>4. dir'["active"] = D /\ D # None
    BY <2>2, <2>3, Directories, HostAssumption DEF Dirs
  <2>5. Home /\ OfSource
    BY <2>1 DEF SourceInv, AnyTime, OfSource
  <2>6. Home' /\ OfSource'
    BY <2>1, <2>3, <2>4, <2>5 DEF Home, Bound, Active, OfSource
  <2> QED
    BY <2>1, <2>6, TransitionAssumption
       DEF SourceInv, Receipted, Placed, AnyTime, Early, Moving, Receipt
<1>2. CASE Dies
  BY <1>2, SourceLeft DEF Dies, SourceInv, Sided
<1> QED
  BY <1>1, <1>2

LEMMA SourceStep == TypeInv /\ SourceInv /\ [Next]_vars => SourceInv'
<1> SUFFICES ASSUME TypeInv, SourceInv, [Next]_vars PROVE SourceInv'
  OBVIOUS
<1>1. CASE Environment /\ Forgets /\ UNCHANGED transitionVars
  BY <1>1, ByItself, SourceAside DEF transitionVars
<1>2. CASE Update /\ UNCHANGED transitionVars
  BY <1>2, UpdateHeld, SourceAside
     DEF transitionVars, Held, Driven, Others, Sided
<1>3. CASE Begin \/ Steps \/ Dies
  BY <1>3, SourceSuspended, SourceSwitching, SourceMoved, SourceCandidate,
     SourceConfigured, SourceStarting, SourceStarted, SourceStopped,
     SourceBack, SourceRestored, SourceReturned, SourceForgotten, SourceEdges
     DEF Steps
<1>4. CASE UNCHANGED vars
  BY <1>4 DEF vars, host, transitionVars, SourceInv, Receipted, Placed,
              AnyTime, OfTarget, OfSource, Home, Stored, Bound, Active
<1> QED
  BY <1>1, <1>2, <1>3, <1>4 DEF Next

LEMMA SourceInit == Init => SourceInv
<1> SUFFICES ASSUME Init PROVE SourceInv
  OBVIOUS
<1>1. act.at = None /\ receipt = None /\ config = "source"
      /\ gw.side = "source"
  BY DEF Init, TransitionInit, HostInit, Absent
<1>2. dir["active"].cred = "source" /\ dir["active"] # None
  BY InitDirs, HostAssumption DEF Place
<1> QED
  BY <1>1, <1>2, TransitionAssumption
     DEF SourceInv, Receipted, Placed, AnyTime, OfSource, Home, Bound, Active,
         Early, Moving, Forth, Back, Receipt

(* The binding of the source is whole at every step of a transition and    *)
(* wherever it dies, and nothing is put back over a destination that was   *)
(* started (SourceSafe; endpoint-transition.js:68-111).                    *)
THEOREM SourceKept == Spec => []SourceSafe
<1>1. TypeInv /\ SourceInv => SourceSafe
  BY DEF TypeInv, SourceInv, AnyTime, SourceSafe, OfSource, OfTarget, Home,
         Stored, Bound, Active
<1>2. Init => TypeInv /\ SourceInv
  BY TypeInit, SourceInit
<1>3. TypeInv /\ SourceInv /\ [Next]_vars => TypeInv' /\ SourceInv'
  BY TypeStep, SourceStep
<1> QED
  BY <1>1, <1>2, <1>3, PTL DEF Spec

-----------------------------------------------------------------------------
(* The lock: an activation and a worker that works exclude each other, and *)
(* between its stop of the gateway and the start of a destination nothing  *)
(* else runs.  That no worker opens the lock of a directory that is being  *)
(* moved is the hypothesis ~Late.                                          *)

Holds(p, who) == dir[p] # None /\ dir[p].holder = who
Locked == Early \cup {"move", "restore", "restart", "forget", "uncopy"}
Away == Moving \cup {"start", "away", "back"}
Quiesced == ~unit /\ ~gw.up
Alone == Quiesced /\ worker.at = None /\ Holds("archive", "activate")

Owners ==
  /\ Working => Holds("active", "worker")
  /\ \A p \in Place : Holds(p, "worker") => Working
  /\ \A p \in Place : Holds(p, "activate") => act.at # None
Managed ==
  /\ act.at # None /\ ~act.manager => ~unit
  /\ unit => Active # None /\ Active.manager # None
Excluded ==
  /\ act.at \in Locked => Holds("active", "activate")
  /\ act.at = "unstop" => IF act.moved THEN Alone
                          ELSE Holds("active", "activate")
  /\ act.at \in {"copy", "switching", "move"} => Quiesced
  /\ act.at \in Away => Alone
  /\ act.at \in {"restore", "restart"} => ~gw.up

LockInv == Owners /\ Managed /\ Excluded

LEMMA Launched ==
  ASSUME TypeInv, Update, worker.at = None, worker'.at # None
  PROVE  unit \/ gw.up
<1>1. CASE Manage
  BY <1>1 DEF Manage, Offered, Tick, StartWorker, Schedule, Answers
<1>2. CASE Converge \/ Repairs \/ Defers
  BY <1>2, AtConverge, UpdateAssumption DEF Stage
<1>3. CASE Work \/ WorkerDies
  BY <1>3, UpdateAssumption
     DEF Work, WorkerDies, WorkerBegins, Preflight, Proceed, AttemptWritten,
         WorkerEnds, HostInstall, HostRepair, HostInstalls, Failing,
         Installed, Repaired, HostReload, Suspend, Restart, Stop, Down, Start,
         ReviveBegins, Reviving, Poll, Stage
<1> QED
  BY <1>1, <1>2, <1>3 DEF Update

LEMMA Exclusive ==
  ASSUME TypeInv, Owners, Holds("active", "activate") PROVE ~Working
BY HostAssumption DEF Owners, Holds

LEMMA StagesApart ==
  /\ None \notin Locked \cup Away \cup {"unstop", "lease", "stop"}
  /\ "activate" # None /\ "worker" # None /\ "worker" # "activate"
BY TransitionAssumption, HostAssumption
   DEF Locked, Away, Early, Moving, Forth, Back, Holder

(* What a step that keeps the holders and starts no gateway preserves.     *)
LEMMA LockAside ==
  ASSUME TypeInv, LockInv, Carried, HoldersKept, UNCHANGED act,
         worker'.at = worker.at,
         \/ UNCHANGED unit
         \/ act.at = None /\ (unit' => Active # None /\ Active.manager # None),
         gw'.up => gw.up \/ Untouched
  PROVE  LockInv'
<1>1. \A p \in Place, who \in Holder : Holds(p, who)' <=> Holds(p, who)
  BY StagesApart DEF Holds, HoldersKept, Carried, Holder
<1>2. (Working' <=> Working) /\ "active" \in Place /\ "archive" \in Place
      /\ "worker" \in Holder /\ "activate" \in Holder
  BY DEF Working, Place, Holder
<1>3. Owners'
  BY <1>1, <1>2 DEF LockInv, Owners
<1>4. Managed'
  BY <1>2 DEF LockInv, Managed, Carried, Active
<1>5. act.at \notin {None, "suspend", "lease", "stop"}
        => (gw'.up => gw.up) /\ UNCHANGED unit
  BY DEF Untouched
<1>6. act.at \in {"copy", "switching", "move", "unstop", "restore", "restart"}
                 \cup Away
        => act.at \notin {None, "suspend", "lease", "stop"}
  BY StagesApart DEF Away, Moving, Locked, Early
<1>7. Excluded'
  BY <1>1, <1>2, <1>5, <1>6 DEF LockInv, Excluded, Alone, Quiesced
<1> QED
  BY <1>3, <1>4, <1>7 DEF LockInv

LEMMA UnlockedHolders ==
  ASSUME TypeInv, NEW who \in Holder, dir' = Unlocked(who)
  PROVE  \A p \in Place, w \in Holder :
           Holds(p, w)' <=> Holds(p, w) /\ w # who
<1> SUFFICES ASSUME NEW p \in Place, NEW w \in Holder
             PROVE  Holds(p, w)' <=> Holds(p, w) /\ w # who
  OBVIOUS
<1>0. Dirs /\ w # None
  BY Parts, HostAssumption
<1>1. CASE dir[p] = None
  BY <1>0, <1>1, Unlocking DEF Holds
<1>2. CASE dir[p] # None
  BY <1>0, <1>2, UnlockedFields DEF Holds
<1> QED
  BY <1>1, <1>2

LEMMA LockUpdate ==
  ASSUME TypeInv, LockInv, Update, UNCHANGED act PROVE LockInv'
<1>0. Held /\ Driven /\ UNCHANGED unit
  BY UpdateHeld DEF Others
<1>1. "active" \in Place /\ "archive" \in Place /\ {"worker", "activate"} = Holder
      /\ "worker" # "activate"
  BY DEF Place, Holder
<1>2. Managed'
  BY <1>0, <1>1 DEF LockInv, Managed, Held, Carried, Active
<1>3. Owners'
  <2>1. CASE (Working' <=> Working) /\ HoldersKept
    <3>1. \A p \in Place, who \in Holder : Holds(p, who)' <=> Holds(p, who)
      BY <1>0, <2>1, StagesApart DEF Holds, HoldersKept, Held, Carried, Holder
    <3> QED
      BY <1>1, <2>1, <3>1 DEF LockInv, Owners
  <2>2. CASE ~Working' /\ dir' = Unlocked("worker")
    <3>1. \A p \in Place : /\ ~Holds(p, "worker")'
                           /\ Holds(p, "activate")' <=> Holds(p, "activate")
      BY <1>1, <2>2, UnlockedHolders
    <3> QED
      BY <1>1, <2>2, <3>1 DEF LockInv, Owners
  <2>3. CASE ~Working /\ Working' /\ LockTaken
    <3>1. Holds("active", "worker")' /\ ~Holds("active", "activate")'
          /\ \A p \in Place \ {"active"}, who \in Holder :
               Holds(p, who)' <=> Holds(p, who)
      BY <1>1, <2>3 DEF LockTaken, Holds
    <3> QED
      BY <1>1, <2>3, <3>1 DEF LockInv, Owners
  <2> QED
    BY <1>0, <2>1, <2>2, <2>3 DEF Held, Locking
<1>4. ASSUME ~Working, UNCHANGED gw,
             Holds("active", "activate") \/ worker'.at = None
      PROVE  \A p \in Place : Holds(p, "activate") => Holds(p, "activate")'
  <2>1. CASE HoldersKept
    BY <1>0, <2>1 DEF Holds, HoldersKept, Held, Carried
  <2>2. CASE dir' = Unlocked("worker")
    BY <1>1, <2>2, UnlockedHolders
  <2>3. CASE Working' /\ LockTaken
    <3>1. worker'.at # None
      BY <2>3 DEF Working
    <3>2. Holds("active", "activate") /\ Found.holder = None
      BY <1>4, <2>3, <3>1 DEF LockTaken
    <3> QED
      BY <3>2, StagesApart DEF Holds, Found, Active
  <2> QED
    BY <1>0, <1>4, <2>1, <2>2, <2>3 DEF Held, Locking
<1>5. ASSUME Holds("active", "activate")
      PROVE  UNCHANGED gw /\ Holds("active", "activate")'
  <2>1. ~Working
    BY <1>5, Exclusive DEF LockInv
  <2>2. UNCHANGED gw
    BY <1>0, <2>1 DEF Driven
  <2> QED
    BY <1>1, <1>4, <1>5, <2>1, <2>2
<1>6. ASSUME Alone PROVE UNCHANGED gw /\ Alone'
  <2>1. ~Working /\ worker'.at = None
    BY <1>6, Launched DEF Alone, Quiesced, Working
  <2>2. UNCHANGED gw
    BY <1>0, <2>1 DEF Driven
  <2>3. Holds("archive", "activate")'
    BY <1>1, <1>4, <1>6, <2>1, <2>2 DEF Alone
  <2> QED
    BY <1>0, <1>6, <2>1, <2>2, <2>3 DEF Alone, Quiesced
<1>7. Excluded'
  <2>1. act.at \in {"copy", "switching", "move", "restore", "restart"}
          => act.at \in Locked
    BY DEF Locked, Early
  <2>2. act.at = "unstop" => IF act.moved THEN Alone'
                             ELSE Holds("active", "activate")'
    BY <1>5, <1>6 DEF LockInv, Excluded
  <2>3. act.at \in Locked => UNCHANGED gw /\ Holds("active", "activate")'
    BY <1>5 DEF LockInv, Excluded
  <2>4. act.at \in Away => Alone'
    BY <1>6 DEF LockInv, Excluded
  <2> QED
    BY <1>0, <2>1, <2>2, <2>3, <2>4 DEF LockInv, Excluded, Quiesced
<1> QED
  BY <1>2, <1>3, <1>7 DEF LockInv

(* How an activation ends: its lock is freed wherever it is.               *)
LEMMA LockLeft ==
  ASSUME TypeInv, LockInv, Exit, UNCHANGED worker, unit' => unit
  PROVE  LockInv'
<1>1. act'.at = None /\ Carried /\ dir' = Unlocked("activate")
      /\ "activate" \in Holder /\ "worker" \in Holder
  BY Leaves DEF Absent, Holder
<1>2. \A p \in Place : ~Holds(p, "activate")'
                       /\ (Holds(p, "worker")' <=> Holds(p, "worker"))
  BY <1>1, UnlockedHolders, StagesApart
<1>3. Owners'
  BY <1>2 DEF LockInv, Owners, Working, Place
<1>4. Managed'
  BY <1>1 DEF LockInv, Managed, Carried, Active, Place
<1>5. Excluded'
  BY <1>1, StagesApart DEF Excluded, Locked, Early
<1> QED
  BY <1>3, <1>4, <1>5 DEF LockInv

(* Of a managed profile the unit is stopped, of another there is none.     *)
LEMMA StopsUnit == ASSUME LockInv, act.at # None PROVE ~UnitStopped
BY DEF LockInv, Managed, UnitStopped

(* A step to the next stage over directories that stay.                    *)
LEMMA LockThen ==
  ASSUME TypeInv, LockInv, NEW stage \in Forth \cup Back, Then(stage),
         UNCHANGED <<dir, worker>>, unit' => unit, act.at # None
  PROVE  /\ act'.at = stage /\ act'.moved = act.moved
         /\ Owners' /\ Managed'
         /\ \A p \in Place, who \in Holder : Holds(p, who)' = Holds(p, who)
<1>1. act'.at = stage /\ act'.moved = act.moved /\ act'.manager = act.manager
      /\ stage # None
  BY Thens, TransitionAssumption
<1>2. \A p \in Place, who \in Holder : Holds(p, who)' = Holds(p, who)
  BY DEF Holds
<1>3. Owners'
  BY <1>1 DEF LockInv, Owners, Working, Holds
<1>4. Managed'
  BY <1>1 DEF LockInv, Managed, Active
<1> QED
  BY <1>1, <1>2, <1>3, <1>4

LEMMA LockRollBack ==
  ASSUME TypeInv, SourceInv, LockInv, RollBack, UNCHANGED worker,
         unit' => unit, act.at \in {"stop", "copy", "switching", "move"}
           \/ (act.at \in Moving /\ UNCHANGED gw)
  PROVE  LockInv'
<1>1. act.at # None /\ act.at \notin {"unstop"}
  BY StagesApart DEF Locked, Away, Early, Moving
<1>2. /\ act'.at = "unstop" /\ act'.moved = act.moved /\ Owners' /\ Managed'
      /\ Holds("active", "activate")' = Holds("active", "activate")
      /\ Holds("archive", "activate")' = Holds("archive", "activate")
  BY <1>1, LockThen DEF RollBack, Back, Place, Holder
<1>3. CASE act.at \in {"stop", "copy", "switching", "move"}
  <2>1. ~act.moved /\ Holds("active", "activate")
    BY <1>3 DEF SourceInv, Placed, Early, LockInv, Excluded, Locked
  <2> QED
    BY <1>2, <2>1 DEF LockInv, Excluded, Locked, Away, Early, Moving
<1>4. CASE act.at \in Moving /\ UNCHANGED gw
  <2>1. act.moved /\ Alone
    BY <1>4 DEF SourceInv, Placed, LockInv, Excluded, Away
  <2> QED
    BY <1>2, <1>4, <2>1 DEF LockInv, Excluded, Locked, Away, Early, Moving,
                            Alone, Quiesced
<1> QED
  BY <1>3, <1>4

LEMMA LockEarly ==
  ASSUME TypeInv, SourceInv, LockInv, UNCHANGED worker,
         SuspendHost \/ Lease \/ StopSource \/ CopyConfig \/ SaveSwitching
  PROVE  LockInv'
<1>0. act.at \in Early /\ act.at # None /\ Holds("active", "activate")
      /\ gw \in Gateway
  <2>1. act.at \in Early
    BY DEF SuspendHost, Lease, StopSource, StopHost, CopyConfig,
           SaveSwitching, Early
  <2> QED
    BY <2>1, StagesApart, Parts DEF LockInv, Excluded, Locked
<1>1. unit' => unit
  <2>1. CASE act.at = "stop"
    BY <2>1 DEF SuspendHost, Lease, StopSource, StopHost, UnitStopped,
                CopyConfig, SaveSwitching
  <2>2. CASE act.at # "stop"
    <3>1. UNCHANGED unit
      BY <2>2 DEF SuspendHost, Lease, StopSource, StopHost, CopyConfig,
                  SaveSwitching
    <3> QED
      BY <2>2, <3>1
  <2> QED
    BY <2>1, <2>2
<1>2. CASE Exit
  BY <1>1, <1>2, LockLeft
<1>3. CASE RollBack /\ act.at \in {"stop", "copy", "switching"}
  BY <1>1, <1>3, LockRollBack
<1>4. ASSUME NEW stage \in Early \cup {"move"}, Then(stage), UNCHANGED dir,
             stage \in {"copy", "switching", "move"} => Quiesced'
      PROVE  LockInv'
  <2>1. stage \in Forth
    BY DEF Early, Forth
  <2>2. /\ act'.at = stage /\ Owners' /\ Managed'
        /\ Holds("active", "activate")' = Holds("active", "activate")
    BY <1>0, <1>1, <1>4, <2>1, LockThen DEF Place, Holder
  <2> QED
    BY <1>0, <1>4, <2>2
       DEF LockInv, Excluded, Locked, Away, Early, Moving
<1>5. CASE SuspendHost /\ Then("lease") /\ UNCHANGED dir
  BY <1>4, <1>5 DEF Early
<1>6. CASE Lease /\ Then("stop") /\ UNCHANGED dir
  BY <1>4, <1>6 DEF Early
<1>7. CASE /\ StopSource /\ unit' = UnitStopped /\ gw' = Stopped
           /\ Then("copy") /\ UNCHANGED dir
  <2>1. Quiesced'
    BY <1>0, <1>7, StopsUnit DEF Quiesced, Stopped, Gateway
  <2> QED
    BY <1>4, <1>7, <2>1 DEF Early
<1>8. CASE CopyConfig /\ Then("switching") /\ UNCHANGED dir
  <2>1. Quiesced'
    BY <1>8 DEF CopyConfig, LockInv, Excluded, Quiesced
  <2> QED
    BY <1>4, <1>8, <2>1 DEF Early
<1>9. CASE SaveSwitching /\ Then("move") /\ UNCHANGED dir
  <2>1. Quiesced'
    BY <1>9 DEF SaveSwitching, LockInv, Excluded, Quiesced
  <2> QED
    BY <1>4, <1>9, <2>1
<1>10. CASE SuspendHost
  BY <1>2, <1>5, <1>10 DEF SuspendHost
<1>11. CASE Lease
  BY <1>2, <1>6, <1>11 DEF Lease
<1>12. CASE StopSource
  BY <1>3, <1>7, <1>12 DEF StopSource, StopHost, Forward
<1>13. CASE CopyConfig
  BY <1>3, <1>8, <1>13 DEF CopyConfig, Forward
<1>14. CASE SaveSwitching
  BY <1>3, <1>9, <1>14 DEF SaveSwitching
<1> QED
  BY <1>10, <1>11, <1>12, <1>13, <1>14

LEMMA LockMove ==
  ASSUME TypeInv, SourceInv, LockInv, UNCHANGED worker, MoveSource,
         worker.at \notin NotStarted
  PROVE  LockInv'
<1>0. /\ act.at = "move" /\ Holds("active", "activate") /\ Quiesced
      /\ UNCHANGED <<gw, unit>>
  BY DEF MoveSource, LockInv, Excluded, Locked
<1>1. CASE RollBack
  BY <1>0, <1>1, LockRollBack
<1>2. CASE /\ dir' = [dir EXCEPT !["archive"] = Active, !["active"] = None]
           /\ act' = [act EXCEPT !.at = "candidate", !.moved = TRUE]
  <2>1. act'.at = "candidate" /\ act'.manager = act.manager
    BY <1>2, TransitionParts DEF Activation
  <2>2. worker.at = None /\ ~Working /\ ~Working'
    BY <1>0, Exclusive DEF LockInv, Working
  <2>3. /\ dir'["archive"] = dir["active"] /\ dir'["active"] = None
        /\ dir'["failed"] = dir["failed"]
    BY <1>2, Directories DEF Active, Dirs
  <2>4. Alone'
    BY <1>0, <2>2, <2>3 DEF Alone, Quiesced, Holds
  <2>5. Owners'
    <3>1. \A p \in Place : ~Holds(p, "worker")
      BY <2>2 DEF LockInv, Owners
    <3>2. \A p \in Place : ~Holds(p, "worker")'
      BY <2>3, <3>1 DEF Place, Holds
    <3> QED
      BY <2>1, <2>2, <3>2, StagesApart DEF Owners, Away, Moving
  <2>6. Managed'
    BY <1>0 DEF Managed, Quiesced
  <2> QED
    BY <2>1, <2>4, <2>5, <2>6
       DEF LockInv, Excluded, Locked, Away, Early, Moving
<1> QED
  BY <1>1, <1>2 DEF MoveSource

(* While the source is away.                                               *)
LEMMA LockAway ==
  ASSUME TypeInv, SourceInv, LockInv, UNCHANGED worker,
         WriteCandidate \/ WriteConfig \/ SaveStarting
  PROVE  LockInv'
<1>0. /\ act.at \in Moving /\ act.at # None /\ Alone /\ UNCHANGED <<gw, unit>>
  BY StagesApart
     DEF WriteCandidate, WriteConfig, SaveStarting, LockInv, Excluded, Away,
         Moving
<1>1. CASE RollBack
  BY <1>0, <1>1, LockRollBack
<1>2. CASE UNCHANGED dir /\ (Then("starting") \/ Then("start"))
  <2>1. PICK stage \in {"starting", "start"} : Then(stage)
    BY <1>2
  <2>2. /\ act'.at = stage /\ Owners' /\ Managed'
        /\ Holds("archive", "activate")' = Holds("archive", "activate")
    BY <1>0, <1>2, <2>1, LockThen DEF Forth, Place, Holder
  <2> QED
    BY <1>0, <2>2 DEF LockInv, Excluded, Alone, Quiesced, Locked, Away,
                      Early, Moving
<1>3. CASE /\ dir' = [dir EXCEPT !["active"] = [Found EXCEPT !.cred = "target"]]
           /\ Then("config")
  <2>1. act'.at = "config" /\ act'.manager = act.manager
    BY <1>3, Thens DEF Forth
  <2> DEFINE D == [Found EXCEPT !.cred = "target"]
  <2>2. D.holder = Found.holder
    BY Directories DEF Directory
  <2> HIDE DEF D
  <2>3. dir'["active"] = D /\ \A p \in Place \ {"active"} : dir'[p] = dir[p]
    BY <1>3, Directories DEF Dirs, D
  <2>4. \A p \in Place, who \in Holder : Holds(p, who)' => Holds(p, who)
    BY <2>2, <2>3, StagesApart DEF Holds, Found, Active, Empty, Holder
  <2>5. Holds("archive", "activate")'
    BY <1>0, <2>3 DEF Alone, Holds, Place
  <2>6. ~Working /\ ~Working'
    BY <1>0 DEF Working, Alone
  <2>7. Owners'
    BY <1>0, <2>1, <2>4, <2>6, StagesApart
       DEF LockInv, Owners, Holder, Away, Moving
  <2>8. Managed'
    BY <1>0 DEF Managed, Alone, Quiesced
  <2> QED
    BY <1>0, <2>1, <2>5, <2>7, <2>8
       DEF LockInv, Excluded, Alone, Quiesced, Locked, Away, Early, Moving
<1> QED
  BY <1>1, <1>2, <1>3 DEF WriteCandidate, WriteConfig, SaveStarting, Forward

LEMMA ManagerHolders ==
  ASSUME TypeInv, NEW side \in Side, ManagerInstalled(side), Active # None
  PROVE  \A p \in Place, who \in Holder : Holds(p, who)' <=> Holds(p, who)
<1>1. Found = Active
  BY DEF Found
<1>2. CASE UNCHANGED dir
  BY <1>2 DEF Holds
<1>3. CASE ~UNCHANGED dir
  BY <1>1, <1>3, ManagerDirs DEF Holds, Active
<1> QED
  BY <1>2, <1>3

LEMMA LockStarted ==
  ASSUME TypeInv, SourceInv, LockInv, UNCHANGED worker,
         StartTarget \/ SaveActivated
  PROVE  LockInv'
<1>0. act.at \in {"start", "activated"} /\ act.at # None /\ Bound("target")
  BY StagesApart, TransitionAssumption
     DEF StartTarget, SaveActivated, SourceInv, Receipted, AnyTime, OfTarget,
         Forth
<1>1. CASE Exit /\ UNCHANGED unit
  BY <1>1, LockLeft
<1>2. CASE ManagerInstalled("target") /\ Then("activated")
  <2>1. act'.at = "activated" /\ act'.manager = act.manager
    BY <1>2, Thens DEF Forth
  <2>2. \A p \in Place, who \in Holder : Holds(p, who)' <=> Holds(p, who)
    BY <1>0, <1>2, ManagerHolders DEF Bound, Side
  <2>3. Owners'
    BY <1>0, <2>1, <2>2, TransitionAssumption
       DEF LockInv, Owners, Working, Place, Holder, Forth
  <2>4. unit' = (unit \/ act.manager) /\ (~act.manager => ~unit)
    BY <1>0, <1>2 DEF ManagerInstalled, LockInv, Managed
  <2>5. Managed'
    <3>1. CASE act.manager
      <4>1. dir'["active"] # None /\ dir'["active"].manager # None
        BY <1>2, <3>1, ManagerDirs DEF Side
      <4> QED
        BY <2>1, <3>1, <4>1 DEF Managed, Active
    <3>2. CASE ~act.manager
      <4>1. ~unit'
        BY <2>4, <3>2
      <4> QED
        BY <4>1 DEF Managed
    <3> QED
      BY <3>1, <3>2
  <2>6. Excluded'
    BY <2>1 DEF Excluded, Locked, Away, Early, Moving
  <2> QED
    BY <2>3, <2>5, <2>6 DEF LockInv
<1> QED
  BY <1>1, <1>2 DEF StartTarget, SaveActivated, Unclear

LEMMA LockStopped ==
  ASSUME TypeInv, LockInv, UNCHANGED worker, StopAgain PROVE LockInv'
<1>0. act.at = "unstop" /\ act.at # None /\ gw \in Gateway
  BY StagesApart, Parts DEF StopAgain, StopHost
<1>1. unit' => unit
  BY DEF StopAgain, StopHost, UnitStopped
<1>2. CASE GiveUp
  BY <1>1, <1>2, LockLeft DEF GiveUp
<1>3. CASE /\ Then(IF act.moved THEN "away" ELSE "restore")
           /\ UNCHANGED dir /\ gw' = Stopped /\ unit' = UnitStopped
  <2>1. ~gw'.up
    BY <1>0, <1>3 DEF Stopped, Gateway
  <2>4. ~unit'
    BY <1>0, <1>3, StopsUnit
  <2>2. CASE act.moved
    <3>1. /\ act'.at = "away" /\ Owners' /\ Managed'
          /\ Holds("archive", "activate")' = Holds("archive", "activate")
      BY <1>0, <1>1, <1>3, <2>2, LockThen DEF Back, Place, Holder
    <3> QED
      BY <1>0, <2>1, <2>2, <2>4, <3>1
         DEF LockInv, Excluded, Alone, Quiesced, Locked, Away, Early, Moving
  <2>3. CASE ~act.moved
    <3>1. /\ act'.at = "restore" /\ Owners' /\ Managed'
          /\ Holds("active", "activate")' = Holds("active", "activate")
      BY <1>0, <1>1, <1>3, <2>3, LockThen DEF Back, Place, Holder
    <3> QED
      BY <1>0, <2>1, <2>3, <3>1
         DEF LockInv, Excluded, Locked, Away, Early, Moving
  <2> QED
    BY <2>2, <2>3
<1> QED
  BY <1>2, <1>3 DEF StopAgain, StopHost, Forward

LEMMA LockBack ==
  ASSUME TypeInv, SourceInv, LockInv, UNCHANGED worker, MoveAway \/ MoveBack
  PROVE  LockInv'
<1>0. act.at \in {"away", "back"} /\ act.at # None /\ Alone /\ Stored
      /\ UNCHANGED <<gw, unit>>
  BY StagesApart
     DEF MoveAway, MoveBack, LockInv, Excluded, Away, SourceInv, Placed
<1>1. CASE GiveUp
  BY <1>0, <1>1, LockLeft DEF GiveUp
<1>2. CASE UNCHANGED dir /\ Then("back")
  <2>1. /\ act'.at = "back" /\ Owners' /\ Managed'
        /\ Holds("archive", "activate")' = Holds("archive", "activate")
    BY <1>0, <1>2, LockThen DEF Back, Place, Holder
  <2> QED
    BY <1>0, <2>1 DEF LockInv, Excluded, Alone, Quiesced, Locked, Away,
                      Early, Moving
<1>3. ASSUME NEW stage \in {"back", "restore"}, Then(stage),
             \A p \in Place : ~Holds(p, "worker")'
      PROVE  act'.at = stage /\ Owners' /\ Managed'
  <2>1. act'.at = stage /\ act'.manager = act.manager /\ stage # None
    BY <1>3, Thens, TransitionAssumption DEF Back
  <2>2. ~Working'
    BY <1>0 DEF Working, Alone
  <2> QED
    BY <1>0, <1>3, <2>1, <2>2 DEF Owners, Managed, Alone, Quiesced
<1>4. \A p \in Place : ~Holds(p, "worker")
  BY <1>0 DEF LockInv, Owners, Alone, Working
<1>5. CASE /\ dir' = [dir EXCEPT !["failed"] = Active, !["active"] = None]
           /\ Then("back")
  <2>1. /\ dir'["archive"] = dir["archive"] /\ dir'["active"] = None
        /\ dir'["failed"] = dir["active"]
    BY <1>5, Directories DEF Active, Dirs
  <2>2. \A p \in Place : ~Holds(p, "worker")'
    BY <1>4, <2>1 DEF Holds, Place
  <2>3. act'.at = "back" /\ Owners' /\ Managed'
    BY <1>3, <1>5, <2>2
  <2> QED
    BY <1>0, <2>1, <2>3
       DEF LockInv, Excluded, Alone, Quiesced, Holds, Locked, Away, Early,
           Moving
<1>6. CASE /\ dir' = [dir EXCEPT !["active"] = dir["archive"],
                                 !["archive"] = None]
           /\ Then("restore")
  <2>1. /\ dir'["active"] = dir["archive"] /\ dir'["archive"] = None
        /\ dir'["failed"] = dir["failed"]
    BY <1>6, Directories DEF Dirs
  <2>2. \A p \in Place : ~Holds(p, "worker")'
    BY <1>4, <2>1 DEF Holds, Place
  <2>3. act'.at = "restore" /\ Owners' /\ Managed'
    BY <1>3, <1>6, <2>2
  <2>4. Holds("active", "activate")'
    BY <1>0, <2>1 DEF Alone, Holds
  <2> QED
    BY <1>0, <2>3, <2>4
       DEF LockInv, Excluded, Alone, Quiesced, Locked, Away, Early, Moving
<1> QED
  BY <1>1, <1>2, <1>5, <1>6 DEF MoveAway, MoveBack, Forward

LEMMA LockRestored ==
  ASSUME TypeInv, SourceInv, LockInv, UNCHANGED worker,
         RestoreConfig \/ StartSource \/ Forget \/ Uncopy
  PROVE  LockInv'
<1>0. /\ act.at \in {"restore", "restart", "forget", "uncopy"}
      /\ act.at # None /\ Holds("active", "activate") /\ Home
  <2>1. act.at \in {"restore", "restart", "forget", "uncopy"}
    BY DEF RestoreConfig, StartSource, Forget, Uncopy
  <2> QED
    BY <2>1, StagesApart DEF LockInv, Excluded, Locked, SourceInv, Placed
<1>1. CASE (GiveUp \/ Exit) /\ UNCHANGED unit
  BY <1>1, LockLeft DEF GiveUp
<1>2. CASE /\ UNCHANGED <<dir, unit, gw>>
           /\ \/ RestoreConfig /\ Then("restart")
              \/ Forget /\ Then("uncopy")
  <2>1. PICK stage \in {"restart", "uncopy"} :
          Then(stage) /\ (stage = "restart" => RestoreConfig)
    BY <1>2
  <2>2. /\ act'.at = stage /\ Owners' /\ Managed'
        /\ Holds("active", "activate")' = Holds("active", "activate")
    BY <1>0, <1>2, <2>1, LockThen DEF Back, Place, Holder
  <2>3. stage = "restart" => ~gw'.up
    BY <1>2, <2>1 DEF RestoreConfig, LockInv, Excluded
  <2> QED
    BY <1>0, <2>1, <2>2, <2>3
       DEF LockInv, Excluded, Locked, Away, Early, Moving
<1>3. CASE ManagerInstalled("source") /\ Then("forget")
  <2>1. act'.at = "forget" /\ act'.manager = act.manager
    BY <1>3, Thens DEF Back
  <2>2. \A p \in Place, who \in Holder : Holds(p, who)' <=> Holds(p, who)
    BY <1>0, <1>3, ManagerHolders DEF Home, Bound, Side
  <2>3. Owners'
    BY <1>0, <2>1, <2>2, TransitionAssumption
       DEF LockInv, Owners, Working, Place, Holder, Back
  <2>4. unit' = (unit \/ act.manager) /\ (~act.manager => ~unit)
    BY <1>0, <1>3 DEF ManagerInstalled, LockInv, Managed
  <2>5. Managed'
    <3>1. CASE act.manager
      <4>1. dir'["active"] # None /\ dir'["active"].manager # None
        BY <1>3, <3>1, ManagerDirs DEF Side
      <4> QED
        BY <2>1, <3>1, <4>1 DEF Managed, Active
    <3>2. CASE ~act.manager
      <4>1. ~unit'
        BY <2>4, <3>2
      <4> QED
        BY <4>1 DEF Managed
    <3> QED
      BY <3>1, <3>2
  <2>6. Holds("active", "activate")'
    BY <1>0, <2>2 DEF Place, Holder
  <2>7. Excluded'
    BY <2>1, <2>6 DEF Excluded, Locked, Away, Early, Moving
  <2> QED
    BY <2>3, <2>5, <2>7 DEF LockInv
<1> QED
  BY <1>1, <1>2, <1>3
     DEF RestoreConfig, StartSource, Forget, Uncopy, Forward, GiveUp

LEMMA LockBegun ==
  ASSUME TypeInv, LockInv, UNCHANGED worker, Begin PROVE LockInv'
<1>0. /\ Active # None /\ Active \in Directory /\ Active.holder = None
      /\ act' = [Absent EXCEPT !.at = "suspend",
                               !.manager = Active.manager # None]
      /\ dir' = [dir EXCEPT !["active"] = [Active EXCEPT !.holder = "activate"]]
      /\ UNCHANGED <<gw, unit>>
  BY Directories DEF Begin, Lock, Active, Dirs
<1>1. act'.at = "suspend" /\ act'.manager = (Active.manager # None)
  BY <1>0 DEF Absent
<1> DEFINE D == [Active EXCEPT !.holder = "activate"]
<1>2. D \in Directory /\ D.holder = "activate" /\ D.manager = Active.manager
  BY <1>0 DEF Directory, Holder
<1> HIDE DEF D
<1>3. /\ dir'["active"] = D /\ D # None
      /\ \A p \in Place \ {"active"} : dir'[p] = dir[p]
  BY <1>0, <1>2, Directories, HostAssumption DEF Dirs, D
<1>4. ~Working /\ ~Working'
  BY <1>0, StagesApart DEF LockInv, Owners, Holds, Active, Working
<1>5. \A p \in Place : ~Holds(p, "worker")'
  BY <1>2, <1>3, <1>4, StagesApart DEF LockInv, Owners, Holds
<1>6. Owners'
  BY <1>1, <1>4, <1>5, TransitionAssumption DEF Owners, Forth
<1>7. Managed'
  BY <1>0, <1>1, <1>2, <1>3 DEF LockInv, Managed, Active
<1>8. Excluded'
  BY <1>1, <1>2, <1>3 DEF Excluded, Locked, Away, Early, Moving, Holds
<1> QED
  BY <1>6, <1>7, <1>8 DEF LockInv

LEMMA LockStep ==
  ASSUME ~Late
  PROVE  TypeInv /\ SourceInv /\ LockInv /\ [Next]_vars => LockInv'
<1> SUFFICES ASSUME TypeInv, SourceInv, LockInv, [Next]_vars PROVE LockInv'
  OBVIOUS
<1>1. CASE Environment /\ Forgets /\ UNCHANGED transitionVars
  <2>1. /\ Carried /\ HoldersKept /\ UNCHANGED <<act, worker>>
    BY <1>1, ByItself DEF transitionVars
  <2>2. \/ UNCHANGED unit
        \/ act.at = None /\ Active # None /\ Active.manager # None
    BY <1>1 DEF Environment, WorkBegins, WorkEnds, CollectorReady, GatewayDies,
                GatewayReturns, UnitReturns
  <2>3. gw'.up => gw.up \/ Untouched
    BY <1>1, Parts DEF Environment, WorkBegins, WorkEnds, CollectorReady,
       GatewayDies, GatewayReturns, UnitReturns, Stopped, Gateway
  <2> QED
    BY <2>1, <2>2, <2>3, LockAside
<1>2. CASE Update /\ UNCHANGED transitionVars
  BY <1>2, LockUpdate DEF transitionVars
<1>3. CASE Begin /\ Forgets
  BY <1>3, LockBegun DEF Forgets
<1>4. CASE InTime /\ Steps /\ Forgets
  <2>1. UNCHANGED worker
    BY <1>4 DEF Forgets
  <2>2. CASE MoveSource
    <3>1. worker.at \notin NotStarted
      BY <1>4, <2>2 DEF InTime, MoveSource, NotStarted
    <3> QED
      BY <2>1, <2>2, <3>1, LockMove
  <2> QED
    BY <1>4, <2>1, <2>2, LockEarly, LockAway, LockStarted, LockStopped,
       LockBack, LockRestored DEF Steps
<1>5. CASE Dies /\ Forgets
  <2>1. Exit
    BY <1>5 DEF Dies
  <2>2. UNCHANGED worker
    BY <1>5 DEF Forgets
  <2>3. unit' => unit
    <3>1. \/ UNCHANGED unit
          \/ unit' = UnitStopped
      BY <1>5 DEF Dies
    <3> QED
      BY <3>1 DEF UnitStopped
  <2> QED
    BY <2>1, <2>2, <2>3, LockLeft
<1>6. CASE UNCHANGED vars
  <2>1. UNCHANGED <<gw, unit, dir, worker, act>>
    BY <1>6 DEF vars, host, updateVars, transitionVars
  <2> QED
    BY <2>1 DEF LockInv, Owners, Managed, Excluded, Alone, Quiesced, Working,
                Holds, Active
<1> QED
  BY <1>1, <1>2, <1>3, <1>4, <1>5, <1>6 DEF Next

LEMMA LockInit == Init => LockInv
<1> SUFFICES ASSUME Init PROVE LockInv
  OBVIOUS
<1>1. PICK d \in Directory :
        /\ dir = [p \in Place |-> IF p # "active" THEN None ELSE d]
        /\ d.holder = None /\ unit = (d.manager # None)
  BY InitDirs
<1>2. act.at = None /\ ~Working
  BY DEF Init, TransitionInit, Absent, UpdateInit, Gone, Working
<1>3. d # None /\ Active = d
  BY <1>1, HostAssumption DEF Active, Place
<1>4. \A p \in Place : ~Holds(p, "worker") /\ ~Holds(p, "activate")
  BY <1>1, StagesApart DEF Holds
<1>5. Excluded
  BY <1>2, StagesApart DEF Excluded, Locked, Early
<1> QED
  BY <1>1, <1>2, <1>3, <1>4, <1>5 DEF LockInv, Owners, Managed

-----------------------------------------------------------------------------
(* Work: a script that stops or starts a gateway does so over none, for it *)
(* holds the lease, or the gateway is down.                                *)

Leased == {"lease", "stop", "unstop"}
WorkInv ==
  /\ gw.work => gw.up
  /\ gw.fence => gw.up
  /\ act.at \in {"lease", "stop"} => gw.fence \/ faults > 0
  /\ act.at = "unstop" /\ gw.up => gw.fence \/ faults > 0
  /\ act.at \in Leased /\ gw.fence => ~gw.work
Spared ==
  gw.work /\ ~gw'.work =>
    faults' # faults \/ LeaseLost \/ gw' = [gw EXCEPT !.work = FALSE]
Safe == TypeInv /\ SourceInv /\ LockInv /\ WorkInv

LEMMA SafeParts ==
  ASSUME Safe
  PROVE  /\ TypeInv /\ SourceInv /\ LockInv /\ Owners /\ Excluded
         /\ gw \in Gateway /\ faults \in Nat /\ MaxFaults \in Nat
         /\ (gw.work => gw.up) /\ (gw.fence => gw.up)
BY Parts DEF Safe, WorkInv, LockInv

LEMMA WorkItself ==
  ASSUME Safe, Environment, Forgets, UNCHANGED act PROVE WorkInv' /\ Spared
<1>0. faults' >= faults /\ faults' \in Nat
  BY SafeParts, ByItself
<1>1. CASE WorkBegins
  BY <1>1, SafeParts DEF WorkBegins, Safe, WorkInv, Spared, Gateway
<1>2. CASE WorkEnds \/ CollectorReady
  <2>1. /\ gw'.up = gw.up /\ gw'.fence = gw.fence /\ (gw'.work => gw.work)
        /\ faults' = faults
    BY <1>2, SafeParts DEF WorkEnds, CollectorReady, Gateway
  <2>2. Spared
    BY <1>2, SafeParts DEF WorkEnds, CollectorReady, Gateway, Spared
  <2> QED
    BY <2>1, <2>2 DEF Safe, WorkInv
<1>3. CASE GatewayDies
  <2>1. ~gw'.up /\ ~gw'.fence /\ ~gw'.work
    BY <1>3, SafeParts DEF GatewayDies, Stopped, Gateway
  <2>2. faults' = faults + 1 /\ faults' > 0
    BY <1>3, SafeParts DEF GatewayDies, Fault
  <2> QED
    BY <2>1, <2>2, SafeParts DEF WorkInv, Spared
<1>4. CASE Untouched /\ GatewayReturns
  <2>1. ~gw.up /\ ~gw.fence /\ ~gw.work /\ faults' = faults
    BY <1>4, SafeParts DEF GatewayReturns
  <2>2. gw'.up /\ ~gw'.fence /\ ~gw'.work
    BY <1>4 DEF GatewayReturns, Started
  <2>3. act.at # "unstop"
    BY <1>4, TransitionAssumption DEF Untouched, Back
  <2> QED
    BY <2>1, <2>2, <2>3 DEF Safe, WorkInv, Spared
<1>5. CASE UnitReturns
  BY <1>5 DEF UnitReturns, Safe, WorkInv, Spared
<1> QED
  BY <1>1, <1>2, <1>3, <1>4, <1>5 DEF Environment

(* A worker that commands the gateway has the lock to itself.              *)
LEMMA WorkUpdate ==
  ASSUME Safe, Update, UNCHANGED act PROVE WorkInv' /\ Spared
<1>1. Driven /\ faults' >= faults /\ faults' \in Nat
  BY SafeParts, UpdateHeld DEF Others
<1>2. act.at \in Leased => UNCHANGED gw
  <2>1. act.at \in Leased => \/ Holds("active", "activate")
                             \/ worker.at = None
    BY SafeParts DEF Leased, Excluded, Locked, Early, Alone
  <2>2. act.at \in Leased => ~Working
    BY <2>1, SafeParts, Exclusive DEF Working
  <2> QED
    BY <1>1, <2>2 DEF Driven
<1>3. (gw'.work => gw'.up) /\ (gw'.fence => gw'.up)
  BY <1>1, SafeParts DEF Driven
<1>4. faults > 0 => faults' > 0
  BY <1>1, SafeParts
<1>5. WorkInv'
  BY <1>2, <1>3, <1>4 DEF Safe, WorkInv, Leased
<1>6. Spared
  BY <1>1, SafeParts DEF Driven, Spared
<1> QED
  BY <1>5, <1>6

(* A step of the transition that leaves the gateway alone.                 *)
LEMMA WorkLeft ==
  ASSUME Safe, UNCHANGED gw, faults' \in Nat, faults' >= faults,
         \/ act'.at \notin Leased
         \/ act.at = "lease" /\ act'.at = "stop"
         \/ act'.at = "unstop" /\ (~gw.up \/ act.at \in {"lease", "stop"})
  PROVE  WorkInv' /\ Spared
<1>1. faults > 0 => faults' > 0
  BY SafeParts
<1>2. WorkInv'
  BY <1>1, SafeParts DEF Safe, WorkInv, Leased
<1>3. Spared
  BY DEF Spared
<1> QED
  BY <1>2, <1>3

(* One that does not: the gateway is down, or has nothing at work.         *)
LEMMA WorkCommanded ==
  ASSUME Safe, gw' \in {Started, Stopped, Resumed}, act'.at \notin Leased,
         gw' = Resumed \/ ~gw.up \/ act.at \in {"stop", "unstop"}
  PROVE  WorkInv' /\ Spared
<1>0. /\ gw \in Gateway /\ (gw.work => gw.up) /\ (gw.fence => gw.up)
      /\ gw' = Started \/ gw' = Stopped \/ gw' = Resumed
  BY SafeParts
<1>1. (gw'.work => gw'.up) /\ (gw'.fence => gw'.up)
  <2>1. CASE gw' = Started
    BY <2>1 DEF Started
  <2>2. CASE gw' = Stopped
    BY <1>0, <2>2 DEF Stopped, Gateway
  <2>3. CASE gw' = Resumed
    BY <1>0, <2>3 DEF Resumed, Gateway
  <2> QED
    BY <1>0, <2>1, <2>2, <2>3
<1>2. WorkInv'
  BY <1>1 DEF WorkInv, Leased
<1> SUFFICES Spared
  BY <1>2
<1>3. CASE gw' = Resumed
  <2>1. ~(gw.work /\ ~gw'.work)
    BY <1>0, <1>3 DEF Resumed, Gateway
  <2> QED
    BY <2>1 DEF Spared
<1>4. CASE ~gw.up
  <2>1. ~gw.work
    BY <1>0, <1>4
  <2> QED
    BY <2>1 DEF Spared
<1>5. CASE act.at \in {"stop", "unstop"}
  <2>1. gw.work => ~gw.fence /\ faults > 0
    BY <1>0, <1>5 DEF Safe, WorkInv, Leased
  <2>2. gw.work => LeaseLost
    BY <1>5, <2>1 DEF LeaseLost
  <2> QED
    BY <2>2 DEF Spared
<1> QED
  BY <1>3, <1>4, <1>5

LEMMA NotLeased == None \notin Leased /\ Absent.at \notin Leased
BY StagesApart DEF Leased, Absent

LEMMA WorkHanded ==
  ASSUME Safe, UNCHANGED worker, SuspendHost \/ Lease \/ StopSource
  PROVE  WorkInv' /\ Spared
<1>0. faults' \in Nat /\ faults' >= faults
  BY SafeParts, TransitionTyped DEF Typed, Steps
<1>1. CASE SuspendHost
  <2>1. CASE gw.up /\ ~gw.work /\ gw' = Suspended /\ Then("lease")
    <3>1. act'.at = "lease"
      BY <2>1, SafeParts, Thens DEF Forth
    <3>2. gw'.up /\ gw'.fence /\ ~gw'.work
      BY <2>1, SafeParts DEF Suspended, Gateway
    <3> QED
      BY <2>1, <3>1, <3>2 DEF WorkInv, Spared
  <2>2. CASE Exit /\ UNCHANGED gw
    BY <1>0, <2>2, WorkLeft, NotLeased DEF Exit
  <2> QED
    BY <1>1, <2>1, <2>2 DEF SuspendHost
<1>2. CASE Lease
  <2>1. CASE Then("stop") /\ UNCHANGED gw
    <3>1. act.at = "lease" /\ act'.at = "stop"
      BY <1>2, <2>1, SafeParts, Thens DEF Forth, Lease
    <3> QED
      BY <1>0, <2>1, <3>1, WorkLeft
  <2>2. CASE gw' = gw /\ Exit
    BY <1>0, <2>2, WorkLeft, NotLeased DEF Exit
  <2>3. CASE gw' = Resumed /\ Exit
    BY <2>3, WorkCommanded, NotLeased DEF Exit
  <2> QED
    BY <1>2, <2>1, <2>2, <2>3 DEF Lease
<1>3. CASE StopSource
  <2>0. act.at = "stop"
    BY <1>3 DEF StopSource, StopHost
  <2>1. CASE gw' = Stopped /\ Then("copy")
    <3>1. act'.at \notin Leased
      BY <2>1, SafeParts, Thens DEF Forth, Leased
    <3> QED
      BY <2>0, <2>1, <3>1, WorkCommanded
  <2>2. CASE Then("unstop") /\ UNCHANGED gw
    <3>1. act'.at = "unstop"
      BY <2>2, SafeParts, Thens DEF Back
    <3> QED
      BY <1>0, <2>0, <2>2, <3>1, WorkLeft
  <2> QED
    BY <1>3, <2>1, <2>2 DEF StopSource, StopHost, Forward, RollBack
<1> QED
  BY <1>1, <1>2, <1>3

(* The gateway is down; a failure goes the way back.                       *)
LEMMA WorkDown ==
  ASSUME Safe, \/ CopyConfig \/ SaveSwitching \/ MoveSource \/ WriteCandidate
               \/ WriteConfig \/ SaveStarting \/ StartTarget
  PROVE  WorkInv' /\ Spared
<1>0. faults' \in Nat /\ faults' >= faults
  BY SafeParts, TransitionTyped DEF Typed, Steps
<1>1. ~gw.up
  BY SafeParts DEF CopyConfig, SaveSwitching, MoveSource, WriteCandidate,
     WriteConfig, SaveStarting, StartTarget, Excluded, Alone, Quiesced, Away,
     Moving
<1>2. CASE StartTarget
  <2>1. act'.at \notin Leased
    BY <1>2, SafeParts, Thens, NotLeased
       DEF StartTarget, Unclear, Exit, Forth, Leased
  <2>2. gw' = Started \/ UNCHANGED gw
    BY <1>2 DEF StartTarget
  <2> QED
    BY <1>0, <1>1, <2>1, <2>2, WorkCommanded, WorkLeft
<1>3. CASE ~StartTarget
  <2>1. UNCHANGED gw
    BY <1>3 DEF CopyConfig, SaveSwitching, MoveSource, WriteCandidate,
                WriteConfig, SaveStarting
  <2>2. \/ \E stage \in {"switching", "move", "config", "starting", "start",
                         "unstop"} : Then(stage)
        \/ act' = [act EXCEPT !.at = "candidate", !.moved = TRUE]
    BY <1>3 DEF CopyConfig, SaveSwitching, MoveSource, WriteCandidate,
                WriteConfig, SaveStarting, Forward, RollBack
  <2>3. act'.at \in {"candidate", "switching", "move", "config", "starting",
                    "start", "unstop"}
    BY <2>2, SafeParts, Thens, TransitionParts DEF Forth, Back, Activation
  <2>4. act'.at \notin Leased \/ act'.at = "unstop"
    BY <2>3 DEF Leased
  <2> QED
    BY <1>0, <1>1, <2>1, <2>4, WorkLeft
<1> QED
  BY <1>2, <1>3

LEMMA WorkBack ==
  ASSUME Safe, \/ SaveActivated \/ StopAgain \/ MoveAway \/ MoveBack
               \/ RestoreConfig \/ StartSource \/ Forget \/ Uncopy \/ Dies
               \/ Begin
  PROVE  WorkInv' /\ Spared
<1>0. faults' \in Nat /\ faults' >= faults
  BY SafeParts, TransitionTyped DEF Typed, Steps
<1>1. act'.at \notin Leased
  <2>1. \/ Exit
        \/ act' = [Absent EXCEPT !.at = "suspend",
                                 !.manager = Active.manager # None]
        \/ \E stage \in {"away", "restore", "back", "restart", "forget",
                         "uncopy"} : Then(stage)
    BY DEF SaveActivated, StopAgain, StopHost, MoveAway, MoveBack,
       RestoreConfig, StartSource, Forget, Uncopy, Dies, Begin, Forward,
       GiveUp, Unclear
  <2> QED
    BY <2>1, SafeParts, Thens, NotLeased DEF Exit, Absent, Back, Leased
<1>2. CASE StopAgain
  BY <1>0, <1>1, <1>2, WorkCommanded, WorkLeft DEF StopAgain, StopHost
<1>3. CASE StartSource
  <2>1. ~gw.up
    BY <1>3, SafeParts DEF StartSource, Excluded
  <2> QED
    BY <1>0, <1>1, <1>3, <2>1, WorkCommanded, WorkLeft DEF StartSource
<1>4. CASE ~StopAgain /\ ~StartSource
  <2>1. UNCHANGED gw
    BY <1>4 DEF SaveActivated, MoveAway, MoveBack, RestoreConfig, Forget,
                Uncopy, Dies, Begin
  <2> QED
    BY <1>0, <1>1, <2>1, WorkLeft
<1> QED
  BY <1>2, <1>3, <1>4

LEMMA WorkStep == Safe /\ [Next]_vars => WorkInv' /\ [Spared]_vars
<1> SUFFICES ASSUME Safe, [Next]_vars PROVE WorkInv' /\ (Spared \/ UNCHANGED vars)
  OBVIOUS
<1>1. CASE Environment /\ Forgets /\ UNCHANGED transitionVars
  BY <1>1, WorkItself DEF transitionVars
<1>2. CASE Update /\ UNCHANGED transitionVars
  BY <1>2, WorkUpdate DEF transitionVars
<1>3. CASE (Begin \/ Steps \/ Dies) /\ Forgets
  BY <1>3, WorkHanded, WorkDown, WorkBack DEF Steps, Forgets
<1>4. CASE UNCHANGED vars
  BY <1>4 DEF vars, host, transitionVars, Safe, WorkInv
<1> QED
  BY <1>1, <1>2, <1>3, <1>4 DEF Next

LEMMA WorkInit == Init => WorkInv
BY StagesApart DEF Init, HostInit, TransitionInit, Absent, WorkInv, Leased

(* No script cuts work of the host short: gateway stop --force and the     *)
(* restarts come only under the lease, or once the gateway is down; what   *)
(* remains is the lease that a crash has voided (LeaseLost).               *)
THEOREM WorkNotCut == ASSUME ~Late PROVE Spec => WorkSurvives
<1>1. Init => Safe
  BY TypeInit, SourceInit, LockInit, WorkInit DEF Safe
<1>2. Safe /\ [Next]_vars => Safe' /\ [Spared]_vars
  BY TypeStep, SourceStep, LockStep, WorkStep DEF Safe
<1> QED
  BY <1>1, <1>2, PTL DEF Spec, WorkSurvives, Spared

-----------------------------------------------------------------------------
(* Installs: a journal that is open announces each install before it is    *)
(* run, and the worker's copy agrees with it.                              *)

Undone(j) == j = None \/ Finished(j)
Allowed(d) == IF Undone(d.journal) THEN d.tries = 0
              ELSE d.tries <= d.journal.installs
Mutates == {"install", "repair"}
AtHand == worker.at \in Journaled \cup {"attempt"}
          \/ (worker.at \in {"activate", "restart"} /\ worker.mode # "revive")
Mutating == worker.at \in Mutates
            \/ (worker.at = "attempt" /\ worker.next \in Mutates)
Agreed == /\ Active.journal # None
          /\ worker.j.status = Active.journal.status
          /\ worker.j.installs = Active.journal.installs
Ending == Finished(worker.j) => worker.at = "attempt" /\ worker.next = "exit"

CountInv ==
  /\ \A p \in Place : dir[p] # None => Allowed(dir[p])
  /\ worker.at = "preflight" => Active.journal = None
  /\ AtHand => Agreed /\ Ending
  /\ Mutating => Active.tries < Active.journal.installs

(* The journals and their counts stay where they are.                      *)
CountsKept == \A p \in Place : dir'[p] # None =>
  IF dir[p] = None THEN dir'[p].journal = None /\ dir'[p].tries = 0
  ELSE dir'[p].journal = dir[p].journal /\ dir'[p].tries = dir[p].tries

LEMMA AtHandWorks ==
  ASSUME TypeInv, AtHand \/ Mutating \/ worker.at = "preflight" PROVE Working
BY AtWorkNow DEF AtHand, Mutating, Mutates, Journaled, Stage, NotStarted

LEMMA WorksHere ==
  ASSUME TypeInv, Owners, Working
  PROVE  Active # None /\ Active \in Directory
BY Parts DEF Owners, Holds, Active, Dirs, Place

LEMMA CountAside ==
  ASSUME TypeInv, Owners, CountInv, CountsKept, Carried,
         worker'.at = "preflight" => worker.at = "preflight",
         AtHand' => /\ AtHand /\ Ending'
                    /\ worker'.j.status = worker.j.status
                    /\ worker'.j.installs = worker.j.installs,
         Mutating' => Mutating
  PROVE  CountInv'
<1>1. \A p \in Place : dir'[p] # None => Allowed(dir'[p])
  BY DEF CountInv, CountsKept, Allowed, Undone, Finished
<1>2. Working => /\ Active' # None /\ Active'.journal = Active.journal
                 /\ Active'.tries = Active.tries
  BY WorksHere DEF CountsKept, Carried, Active, Place
<1>3. worker'.at = "preflight" => Active'.journal = None
  BY <1>2, AtHandWorks DEF CountInv
<1>4. AtHand' => Agreed' /\ Ending'
  BY <1>2, AtHandWorks DEF CountInv, Agreed
<1>5. Mutating' => Active'.tries < Active'.journal.installs
  BY <1>2, AtHandWorks DEF CountInv
<1> QED
  BY <1>1, <1>3, <1>4, <1>5 DEF CountInv

LEMMA CountSame ==
  ASSUME TypeInv, Owners, CountInv, CountsKept, Carried, UNCHANGED worker
  PROVE  CountInv'
<1>1. /\ AtHand' <=> AtHand
      /\ Mutating' <=> Mutating
      /\ Ending' <=> Ending
  BY DEF AtHand, Mutating, Ending
<1>2. AtHand => Ending
  BY DEF CountInv
<1> QED
  BY <1>1, <1>2, CountAside

LEMMA StaysCounted ==
  ASSUME TypeInv, UNCHANGED dir PROVE CountsKept /\ Carried
BY DEF CountsKept, Carried

LEMMA UnlockedCounts ==
  ASSUME TypeInv, NEW who \in Holder, dir' = Unlocked(who)
  PROVE  CountsKept
<1> SUFFICES ASSUME NEW p \in Place, dir'[p] # None
             PROVE  /\ dir[p] # None /\ dir'[p].journal = dir[p].journal
                    /\ dir'[p].tries = dir[p].tries
  BY DEF CountsKept
<1>1. dir[p] # None
  BY Parts, Unlocking
<1> QED
  BY <1>1, Parts, UnlockedFields

(* Nothing is at work: directories may be renamed, too.                    *)
LEMMA CountMoved ==
  ASSUME TypeInv, CountInv, ~Working, UNCHANGED worker,
         \A p \in Place : dir'[p] # None =>
           \/ dir'[p].journal = None /\ dir'[p].tries = 0
           \/ \E q \in Place : /\ dir[q] # None
                               /\ dir'[p].journal = dir[q].journal
                               /\ dir'[p].tries = dir[q].tries
  PROVE  CountInv'
<1>1. \A p \in Place : dir'[p] # None => Allowed(dir'[p])
  BY DEF CountInv, Allowed, Undone, Finished
<1>2. ~AtHand /\ ~Mutating /\ worker.at # "preflight"
  BY AtHandWorks
<1>3. ~AtHand' /\ ~Mutating' /\ worker'.at # "preflight"
  BY <1>2 DEF AtHand, Mutating
<1> QED
  BY <1>1, <1>3 DEF CountInv

(* A write of the journal that says as much as the one before.             *)
LEMMA WritesCount ==
  ASSUME TypeInv, Owners, CountInv, Working,
         NEW j \in Journal, NEW say \in Saying, NEW next \in After,
         Write(j, say, next),
         Finished(j) => next = "exit",
         ~Finished(j) => Active.tries <= j.installs,
         next \in Mutates => ~Finished(j) /\ Active.tries < j.installs
  PROVE  CountInv'
<1> DEFINE n == IF Finished(j) THEN 0 ELSE Active.tries
           D == [Active EXCEPT !.journal = j, !.tries = n]
<1>1. Active # None /\ Active \in Directory /\ Dirs /\ worker \in WorkerState
  BY WorksHere, Parts
<1>2. D \in Directory /\ D.journal = j /\ D.tries = n
  BY <1>1 DEF Directory
<1>3. dir' = [dir EXCEPT !["active"] = D]
  BY <1>1 DEF Write, Active, Dirs
<1>4. /\ worker'.at = "attempt" /\ worker'.j = j /\ worker'.next = next
  BY <1>1 DEF Write, WorkerState
<1> HIDE DEF D
<1>5. Active' = D /\ j # None
      /\ \A p \in Place \ {"active"} : dir'[p] = dir[p]
  BY <1>1, <1>3, HostAssumption DEF Dirs, Active, Place
<1>6. Allowed(D) /\ (next \in Mutates => D.tries < D.journal.installs)
  BY <1>2, <1>5 DEF Allowed, Undone
<1>7. \A p \in Place : dir'[p] # None => Allowed(dir'[p])
  BY <1>5, <1>6 DEF CountInv, Active
<1>8. Agreed' /\ Ending'
  BY <1>2, <1>4, <1>5 DEF Agreed, Ending
<1>9. Mutating' => Active'.tries < Active'.journal.installs
  BY <1>4, <1>5, <1>6 DEF Mutating, Mutates
<1> QED
  BY <1>4, <1>7, <1>8, <1>9 DEF CountInv

LEMMA EndsCount ==
  ASSUME TypeInv, Owners, CountInv, Working,
         NEW status \in {"completed", "failed"}, End(status)
  PROVE  CountInv'
<1> DEFINE base == IF worker.j = None THEN "source" ELSE worker.j.base
           J == Blank(status, base)
<1>1. base \in Side
  BY Parts DEF WorkerState, Journal, Side
<1>2. J \in Journal /\ Finished(J)
  <2>1. J \in Journal
    BY <1>1 DEF Blank, Journal
  <2>2. J.status = status
    BY DEF Blank
  <2> HIDE DEF J
  <2> QED
    BY <2>1, <2>2, HostAssumption DEF Finished
<1>3. Write(J, status, "exit")
  BY DEF End
<1> HIDE DEF J
<1>4. status \in Saying /\ "exit" \in After /\ "exit" \notin Mutates
  BY DEF Saying, After, Mutates
<1> QED
  BY <1>2, <1>3, <1>4, WritesCount

LEMMA FailsCount ==
  ASSUME TypeInv, Owners, CountInv, Working, Fail PROVE CountInv'
BY EndsCount DEF Fail

LEMMA HandCounts ==
  ASSUME TypeInv, Owners, CountInv, AtHand, worker.at # "attempt"
  PROVE  /\ worker.j \in Journal /\ ~Finished(worker.j) /\ Working
         /\ Active # None /\ Active \in Directory
         /\ Active.tries <= worker.j.installs
         /\ Active.tries \in Nat /\ worker.j.installs \in 0..2
<1>1. Working /\ Active # None /\ Active \in Directory
  BY AtHandWorks, WorksHere
<1>2. worker.j \in Journal
  BY Parts, OwnJournal DEF AtHand, WorkerOK, Asked, WorkerState
<1>3. Agreed /\ ~Finished(worker.j)
  BY DEF CountInv, Ending
<1>4. ~Finished(Active.journal) /\ Active.journal # None
  BY <1>2, <1>3, HostAssumption DEF Agreed, Finished
<1>5. Allowed(Active)
  BY <1>1 DEF CountInv, Active, Place
<1>6. Active.tries <= worker.j.installs
  BY <1>3, <1>4, <1>5 DEF Allowed, Undone, Agreed
<1> QED
  BY <1>1, <1>2, <1>3, <1>6 DEF Directory, Journal

LEMMA WritesOn ==
  ASSUME TypeInv, Owners, CountInv, AtHand, worker.at # "attempt",
         NEW j \in Journal, NEW say \in Saying, NEW next \in After,
         Write(j, say, next), j.status = worker.j.status,
         j.installs >= worker.j.installs,
         next \in Mutates => j.installs > worker.j.installs
  PROVE  CountInv'
<1>1. ~Finished(j) /\ Working
  BY HandCounts, HostAssumption DEF Finished
<1>2. j.installs \in 0..2
  BY DEF Journal
<1>3. Active.tries <= j.installs
      /\ (next \in Mutates => Active.tries < j.installs)
  BY <1>2, HandCounts
<1> QED
  BY <1>1, <1>3, WritesCount

(* A step of the worker that keeps the directory and its journal.          *)
LEMMA GoesCount ==
  ASSUME TypeInv, Owners, CountInv, UNCHANGED dir,
         worker'.at \notin Mutates \cup {"preflight", "attempt"},
         AtHand' => /\ AtHand /\ worker.at # "attempt"
                    /\ worker'.j.status = worker.j.status
                    /\ worker'.j.installs = worker.j.installs
                    /\ ~Finished(worker'.j)
  PROVE  CountInv'
<1>1. CountsKept /\ Carried
  BY StaysCounted
<1>2. AtHand' => Ending'
  BY DEF Ending
<1>3. ~Mutating'
  BY DEF Mutating
<1> QED
  BY <1>1, <1>2, <1>3, CountAside

LEMMA LeavesCount ==
  ASSUME TypeInv, Owners, CountInv, CountsKept, Carried, worker' = Gone
  PROVE  CountInv'
<1>1. worker'.at = None
  BY DEF Gone
<1>2. ~AtHand' /\ ~Mutating' /\ worker'.at # "preflight"
  BY <1>1, UpdateAssumption DEF AtHand, Mutating, Mutates, Journaled, Stage
<1> QED
  BY <1>2, CountAside

LEMMA ExitsCount ==
  ASSUME TypeInv, Owners, CountInv, WorkerExit PROVE CountInv'
<1>1. Carried /\ CountsKept /\ worker' = Gone
  BY Exits, UnlockedCounts DEF Held, WorkerExit, Holder
<1> QED
  BY <1>1, LeavesCount

-----------------------------------------------------------------------------
(* The steps of the update, counted.                                       *)

LEMMA ManageCount ==
  ASSUME TypeInv, Owners, CountInv, Manage PROVE CountInv'
<1>1. CASE Offered
  BY <1>1, StaysCounted, CountSame DEF Offered, host
<1>2. CASE Tick
  <2>1. Carried /\ UNCHANGED worker
    BY <1>2, TickHeld DEF Held, Tick
  <2>2. CountsKept
    <3>1. CASE gw.ready
      <4>1. dir' = [dir EXCEPT !["active"].base = gw.loaded]
            /\ Active # None /\ Active \in Directory /\ Dirs
        BY <1>2, <3>1, Parts DEF Tick, Dirs, Active, Place
      <4> QED
        BY <4>1 DEF CountsKept, Dirs, Active, Place, Directory
    <3>2. CASE ~gw.ready
      BY <1>2, <3>2, StaysCounted DEF Tick
    <3> QED
      BY <3>1, <3>2
  <2> QED
    BY <2>1, <2>2, CountSame
<1>3. CASE StartWorker \/ Schedule
  <2>1. UNCHANGED dir
    BY <1>3 DEF StartWorker, Schedule, host
  <2>2. CASE UNCHANGED worker
    BY <2>1, <2>2, StaysCounted, CountSame
  <2>3. CASE worker' # worker
    <3>1. worker'.at \in NotStarted
      BY <1>3, <2>3 DEF StartWorker, Schedule, Gone, NotStarted
    <3>2. ~AtHand' /\ worker'.at \notin Mutates \cup {"preflight", "attempt"}
      BY <3>1 DEF AtHand, Mutates, Journaled, NotStarted
    <3> QED
      BY <2>1, <3>2, GoesCount
  <2> QED
    BY <2>2, <2>3
<1> QED
  BY <1>1, <1>2, <1>3 DEF Manage

LEMMA ConvergeCount ==
  ASSUME TypeInv, Owners, CountInv, worker.at = "converge",
         Lost \/ Misbound \/ Completed \/ Busy \/ Activates \/ Installs
         \/ Reloads \/ Repairs \/ Defers
  PROVE  CountInv'
<1>0. /\ AtHand /\ worker.at # "attempt" /\ worker.j \in Journal /\ Working
      /\ ~Finished(worker.j) /\ worker.j.installs \in 0..2
      /\ worker \in WorkerState
  BY HandCounts, Parts DEF AtHand, Journaled
<1>words. /\ {"converge", "reload", "install", "activate", "exit"}
                \subseteq After
          /\ {"waiting", "updating", "deferred"} \subseteq Saying
          /\ {"converge", "reload", "activate", "start", "exit"} \cap Mutates = {}
  BY DEF After, Saying, Mutates
<1>1. \A say \in {"waiting", "updating", "deferred"},
         next \in {"converge", "exit"} :
        Write(worker.j, say, next) => CountInv'
  BY <1>0, <1>words, WritesOn
<1>2. CASE Lost
  <2>1. CASE Goto("stopped") /\ UNCHANGED dir
    <3>1. worker'.at = "stopped" /\ worker'.j = worker.j
      BY <1>0, <2>1 DEF Goto, WorkerState
    <3> QED
      BY <1>0, <2>1, <3>1, GoesCount DEF Mutates
  <2> QED
    BY <1>1, <1>2, <2>1 DEF Lost
<1>3. CASE Misbound \/ Completed
  BY <1>0, <1>3, FailsCount, EndsCount DEF Misbound, Completed
<1>4. CASE Busy \/ Defers
  BY <1>1, <1>4 DEF Busy, Defers
<1>5. CASE Activates
  <2> DEFINE J == [worker.j EXCEPT !.staged = TRUE, !.mutated = TRUE,
                                   !.intent = FALSE]
  <2>1. J \in Journal /\ J.status = worker.j.status
        /\ J.installs = worker.j.installs
    BY <1>0 DEF Journal
  <2>2. Write(J, "updating", "activate")
    BY <1>5 DEF Activates
  <2> HIDE DEF J
  <2> QED
    BY <1>0, <1>words, <2>1, <2>2, WritesOn
<1>6. CASE Installs
  <2>1. CASE worker.j.installs >= 2
    BY <1>0, <1>6, <2>1, FailsCount DEF Installs
  <2>2. CASE ~(worker.j.installs >= 2)
    <3> DEFINE J == [worker.j EXCEPT !.installs = worker.j.installs + 1,
                                     !.mutated = TRUE, !.intent = TRUE]
    <3>1. worker.j.installs + 1 \in 0..2
      BY <1>0, <2>2
    <3>2. J \in Journal /\ J.status = worker.j.status
          /\ J.installs = worker.j.installs + 1
      BY <1>0, <3>1 DEF Journal
    <3>3. Write(J, "updating", "install")
      BY <1>6, <2>2 DEF Installs
    <3> HIDE DEF J
    <3>4. J.installs > worker.j.installs
      BY <1>0, <3>2
    <3> QED
      BY <1>0, <1>words, <3>2, <3>3, <3>4, WritesOn
  <2> QED
    BY <2>1, <2>2
<1>7. CASE Reloads
  <2> DEFINE J == [worker.j EXCEPT !.intent = FALSE]
  <2>1. J \in Journal /\ J.status = worker.j.status
        /\ J.installs = worker.j.installs
    BY <1>0 DEF Journal
  <2>2. Write(J, "updating", "reload")
    BY <1>7 DEF Reloads
  <2> HIDE DEF J
  <2> QED
    BY <1>0, <1>words, <2>1, <2>2, WritesOn
<1>8. CASE Repairs
  <2>1. CASE worker.j.installs >= 2
    BY <1>0, <1>8, <2>1, FailsCount DEF Repairs
  <2>2. CASE ~(worker.j.installs >= 2)
    <3> DEFINE J == [worker.j EXCEPT !.staged = FALSE, !.activated = FALSE,
                                     !.intent = FALSE]
    <3>1. J \in Journal /\ J.status = worker.j.status
          /\ J.installs = worker.j.installs
      BY <1>0 DEF Journal
    <3>2. Write(J, "updating", "converge")
      BY <1>8, <2>2 DEF Repairs
    <3> HIDE DEF J
    <3> QED
      BY <1>0, <1>words, <3>1, <3>2, WritesOn
  <2> QED
    BY <2>1, <2>2
<1> QED
  BY <1>2, <1>3, <1>4, <1>5, <1>6, <1>7, <1>8

LEMMA BeginsCount ==
  ASSUME TypeInv, Owners, CountInv, WorkerBegins PROVE CountInv'
<1>0. Dirs /\ Found \in Directory /\ Found # None /\ worker \in WorkerState
      /\ Carried
  BY Parts, FoundType, HostAssumption, WorkerBeginsHeld DEF Held
<1>1. CASE worker' = Gone /\ dir' = [dir EXCEPT !["active"] = Found]
  <2>1. CountsKept
    BY <1>0, <1>1 DEF CountsKept, Dirs, Found, Active, Empty, Place
  <2> QED
    BY <1>0, <1>1, <2>1, LeavesCount
<1>2. CASE /\ ~Finished(Found.journal)
           /\ worker' = [worker EXCEPT !.j = Found.journal,
                !.at = IF Found.journal = None THEN "preflight" ELSE "proceed"]
           /\ dir' = [dir EXCEPT !["active"] =
                                   [Found EXCEPT !.holder = "worker"]]
  <2> DEFINE D == [Found EXCEPT !.holder = "worker"]
             at == IF Found.journal = None THEN "preflight" ELSE "proceed"
  <2>1. D \in Directory /\ D.journal = Found.journal /\ D.tries = Found.tries
    BY <1>0 DEF Directory, Holder
  <2>2. dir' = [dir EXCEPT !["active"] = D]
    BY <1>2
  <2>3. worker'.at = at /\ worker'.j = Found.journal
    BY <1>0, <1>2 DEF WorkerState
  <2> HIDE DEF D
  <2>4. Active' = D /\ \A p \in Place \ {"active"} : dir'[p] = dir[p]
    BY <1>0, <2>2 DEF Dirs, Active, Place
  <2>5. Allowed(D)
    BY <1>0, <2>1 DEF CountInv, Allowed, Undone, Finished, Found, Active,
                      Empty, Place
  <2>6. \A p \in Place : dir'[p] # None => Allowed(dir'[p])
    BY <2>4, <2>5 DEF CountInv, Active
  <2>7. ~Mutating' /\ (AtHand' => Found.journal # None)
    BY <2>3 DEF Mutating, Mutates, AtHand, Journaled
  <2>8. worker'.at = "preflight" => Active'.journal = None
    BY <2>1, <2>3, <2>4
  <2>9. AtHand' => Agreed' /\ Ending'
    BY <1>2, <2>1, <2>3, <2>4, <2>7 DEF Agreed, Ending
  <2> QED
    BY <2>6, <2>7, <2>8, <2>9 DEF CountInv
<1> QED
  BY <1>1, <1>2 DEF WorkerBegins

LEMMA OpeningCount ==
  ASSUME TypeInv, Owners, CountInv, Preflight \/ Proceed PROVE CountInv'
<1>1. CASE Preflight
  <2> DEFINE base == IF Answers THEN gw.side ELSE Active.cred
             J == Blank("open", base)
  <2>1. Working /\ Active # None /\ Active \in Directory
    BY <1>1, AtWorkNow, WorksHere DEF Preflight, Stage, NotStarted
  <2>2. Active.tries = 0
    BY <1>1, <2>1 DEF Preflight, CountInv, Allowed, Undone, Active, Place
  <2>3. CASE Write(J, "waiting", "proceed") /\ Active.cred # None
             /\ base = Active.cred
    <3>1. base \in Side
      BY <2>1, <2>3 DEF Directory
    <3>2. J \in Journal /\ J.status = "open" /\ J.installs = 0
      BY <3>1 DEF Blank, Journal
    <3> HIDE DEF J
    <3>3. ~Finished(J) /\ Active.tries <= J.installs
      BY <2>2, <3>2 DEF Finished
    <3>4. "waiting" \in Saying /\ "proceed" \in After /\ "proceed" \notin Mutates
      BY DEF Saying, After, Mutates
    <3> QED
      BY <2>1, <2>3, <3>2, <3>3, <3>4, WritesCount
  <2>4. CASE Fail
    BY <2>1, <2>4, FailsCount
  <2> QED
    BY <1>1, <2>3, <2>4 DEF Preflight
<1>2. CASE Proceed
  <2>1. /\ AtHand /\ worker.at # "attempt" /\ worker.j \in Journal /\ Working
        /\ ~Finished(worker.j) /\ worker \in WorkerState
    BY <1>2, HandCounts, Parts DEF AtHand, Journaled, Proceed
  <2>2. CASE /\ worker' = [worker EXCEPT !.at = "converge",
                  !.j.staged = @ \/ (worker.j.intent /\ disk = "new")]
             /\ UNCHANGED dir
    <3> DEFINE J == [worker.j EXCEPT !.staged =
                       worker.j.staged \/ (worker.j.intent /\ disk = "new")]
    <3>1. J.status = worker.j.status /\ J.installs = worker.j.installs
          /\ J \in Journal
      BY <2>1 DEF Journal
    <3>2. worker' = [worker EXCEPT !.at = "converge", !.j = J]
      BY <2>1, <2>2 DEF WorkerState
    <3> HIDE DEF J
    <3>3. worker'.at = "converge" /\ worker'.j = J /\ ~Finished(J)
      BY <2>1, <3>1, <3>2, HostAssumption DEF WorkerState, Finished
    <3> QED
      BY <2>1, <2>2, <3>1, <3>3, GoesCount DEF Mutates
  <2>3. CASE Fail
    BY <2>1, <2>3, FailsCount
  <2> QED
    BY <1>2, <2>2, <2>3 DEF Proceed
<1> QED
  BY <1>1, <1>2

LEMMA AttemptCount ==
  ASSUME TypeInv, Owners, CountInv, AttemptWritten PROVE CountInv'
<1>0. /\ Working /\ Active # None /\ Active \in Directory /\ Dirs
      /\ worker \in WorkerState /\ worker.at = "attempt"
      /\ worker.next \in After /\ worker.mode = "update"
  BY AtWorkNow, WorksHere, Parts
     DEF AttemptWritten, Stage, NotStarted, WorkerOK, Says, WorkerState
<1>1. Carried
  BY AttemptHeld DEF Held
<1>2. CountsKept
  <2> DEFINE D == [Active EXCEPT !.attempt = [rev |-> 1,
                                              status |-> worker.say]]
  <2>1. D.journal = Active.journal /\ D.tries = Active.tries
    BY <1>0 DEF Directory
  <2>2. dir' = [dir EXCEPT !["active"] = D]
    BY <1>0 DEF AttemptWritten, Active, Dirs
  <2> HIDE DEF D
  <2> QED
    BY <1>0, <2>1, <2>2 DEF CountsKept, Dirs, Active, Place
<1>3. /\ worker'.at = worker.next /\ worker'.j = worker.j
      /\ worker'.mode = "update"
  BY <1>0 DEF AttemptWritten, WorkerState
<1>4. worker'.at \notin {"preflight", "attempt"}
  BY <1>0, <1>3 DEF After
<1>5. AtHand' => AtHand /\ Ending'
  <2>1. AtHand /\ Ending
    BY <1>0 DEF AtHand, CountInv
  <2>2. AtHand' => worker'.at # "exit"
    BY DEF AtHand, Journaled
  <2> QED
    BY <1>3, <2>1, <2>2 DEF Ending
<1>6. Mutating' => Mutating
  BY <1>0, <1>3, <1>4 DEF Mutating
<1> QED
  BY <1>1, <1>2, <1>3, <1>4, <1>5, <1>6, CountAside

(* The install itself: one more of those that were announced.              *)
LEMMA InstallCount ==
  ASSUME TypeInv, Owners, CountInv, HostInstall \/ HostRepair PROVE CountInv'
<1>0. PICK stage \in {"install", "repair"},
           next \in {"installed", "repaired"} : HostInstalls(stage, next)
  BY DEF HostInstall, HostRepair
<1>1. worker.at = stage
  BY <1>0 DEF HostInstalls
<1>2. /\ AtHand /\ worker.at # "attempt" /\ worker.j \in Journal
      /\ ~Finished(worker.j) /\ Active # None /\ Active \in Directory
      /\ Active.tries \in Nat /\ worker.j.installs \in 0..2 /\ Dirs
      /\ worker \in WorkerState
  BY <1>1, HandCounts, Parts DEF AtHand, Journaled
<1>3. Agreed /\ Active.tries < Active.journal.installs
  BY <1>1, <1>2 DEF CountInv, Mutating, Mutates
<1> DEFINE D == [Active EXCEPT !.tries = Active.tries + 1]
<1>4. D \in Directory /\ D.journal = Active.journal
      /\ D.tries = Active.tries + 1
  BY <1>2 DEF Directory
<1>5. dir' = [dir EXCEPT !["active"] = D]
  BY <1>0, <1>2 DEF HostInstalls, Active, Dirs
<1> HIDE DEF D
<1>6. Active' = D /\ \A p \in Place \ {"active"} : dir'[p] = dir[p]
  BY <1>2, <1>5 DEF Dirs, Active, Place
<1>7. Allowed(D)
  <2>1. ~Undone(D.journal)
    BY <1>2, <1>3, <1>4, HostAssumption DEF Undone, Agreed, Finished
  <2>2. D.tries <= D.journal.installs
    BY <1>2, <1>3, <1>4 DEF Agreed
  <2> QED
    BY <2>1, <2>2 DEF Allowed
<1>8. \A p \in Place : dir'[p] # None => Allowed(dir'[p])
  BY <1>6, <1>7 DEF CountInv, Active
<1>9. worker'.at \in {next, "failing"} /\ worker'.j = worker.j
  BY <1>0, <1>2 DEF HostInstalls, Goto, WorkerState
<1>10. ~Mutating' /\ worker'.at # "preflight" /\ worker'.at # "attempt"
  BY <1>9 DEF Mutating, Mutates
<1>11. Agreed' /\ Ending'
  BY <1>2, <1>3, <1>4, <1>6, <1>9 DEF Agreed, Ending
<1> QED
  BY <1>8, <1>10, <1>11 DEF CountInv

LEMMA RefusedCount ==
  ASSUME TypeInv, Owners, CountInv, worker.at \in {"activate", "restart"},
         NEW busy \in BOOLEAN, Refused(busy)
  PROVE  CountInv'
<1>0. worker.mode \in Mode /\ Working /\ worker \in WorkerState
  BY Parts, AtWorkNow DEF WorkerOK, Asked, WorkerState, Stage, NotStarted
<1>1. worker.mode # "revive" =>
        AtHand /\ worker.at # "attempt" /\ worker.j \in Journal
        /\ ~Finished(worker.j) /\ worker.j.installs \in 0..2
  BY HandCounts DEF AtHand
<1>2. CASE worker.mode = "update"
  <2>1. CASE Write(worker.j, "waiting", "converge")
    <3>1. "waiting" \in Saying /\ "converge" \in After
          /\ "converge" \notin Mutates
      BY DEF Saying, After, Mutates
    <3> QED
      BY <1>1, <1>2, <2>1, <3>1, WritesOn
  <2>2. CASE Fail
    BY <1>0, <2>2, FailsCount
  <2> QED
    BY <1>2, <2>1, <2>2 DEF Refused
<1>3. CASE worker.mode = "lost"
  <2>1. Goto("down") /\ UNCHANGED dir
    BY <1>3 DEF Refused
  <2>2. worker'.at = "down" /\ worker'.j = worker.j
    BY <1>0, <2>1 DEF Goto, WorkerState
  <2> QED
    BY <1>1, <1>3, <2>1, <2>2, GoesCount DEF Mutates
<1>4. CASE worker.mode = "revive"
  BY <1>4, ExitsCount DEF Refused
<1> QED
  BY <1>0, <1>2, <1>3, <1>4 DEF Mode

LEMMA GatewayCount ==
  ASSUME TypeInv, Owners, CountInv, HostReload \/ Suspend \/ Restart
  PROVE  CountInv'
<1>0. /\ worker.at \in {"reload", "activate", "restart"} /\ Working
      /\ worker \in WorkerState
  BY AtWorkNow, Parts DEF HostReload, Suspend, Restart, Stage, NotStarted
<1>1. worker.at = "reload" \/ worker.mode # "revive" =>
        AtHand /\ worker.at # "attempt" /\ worker.j \in Journal
        /\ ~Finished(worker.j) /\ worker.j.installs \in 0..2
  BY <1>0, HandCounts DEF AtHand, Journaled
<1>2. {"waiting", "updating"} \subseteq Saying /\ "converge" \in After
      /\ "converge" \notin Mutates
  BY DEF Saying, After, Mutates
<1>3. CASE HostReload
  <2>1. worker.at = "reload"
    BY <1>3 DEF HostReload
  <2>2. CASE \/ Write(worker.j, "waiting", "converge")
             \/ Write(worker.j, "updating", "converge")
    BY <1>1, <1>2, <2>1, <2>2, WritesOn
  <2>3. CASE Fail
    BY <1>0, <2>3, FailsCount
  <2> QED
    BY <1>3, <2>2, <2>3 DEF HostReload
<1>4. CASE Suspend
  <2>1. CASE Goto("restart") /\ UNCHANGED dir
    <3>1. worker'.at = "restart" /\ worker'.j = worker.j
          /\ worker'.mode = worker.mode
      BY <1>0, <2>1 DEF Goto, WorkerState
    <3> QED
      BY <1>1, <2>1, <3>1, GoesCount DEF Mutates, AtHand, Journaled
  <2>2. CASE Refused(TRUE) \/ Refused(FALSE)
    BY <1>4, <2>2, RefusedCount DEF Suspend
  <2> QED
    BY <1>4, <2>1, <2>2 DEF Suspend
<1>5. CASE Restart
  <2>1. CASE Goto("poll") /\ UNCHANGED dir
    <3>1. worker'.at = "poll"
      BY <1>0, <2>1 DEF Goto, WorkerState
    <3> QED
      BY <2>1, <3>1, GoesCount DEF Mutates, AtHand, Journaled
  <2>2. CASE worker.mode # "revive"
             /\ Write([worker.j EXCEPT !.activated = TRUE], "updating",
                      "converge")
    <3> DEFINE J == [worker.j EXCEPT !.activated = TRUE]
    <3>1. J \in Journal /\ J.status = worker.j.status
          /\ J.installs = worker.j.installs
      BY <1>1, <2>2 DEF Journal
    <3>2. Write(J, "updating", "converge")
      BY <2>2
    <3> HIDE DEF J
    <3> QED
      BY <1>1, <1>2, <2>2, <3>1, <3>2, WritesOn
  <2>3. CASE Refused(FALSE)
    BY <1>5, <2>3, RefusedCount DEF Restart
  <2> QED
    BY <1>5, <2>1, <2>2, <2>3 DEF Restart
<1> QED
  BY <1>3, <1>4, <1>5

LEMMA RecoverCount ==
  ASSUME TypeInv, Owners, CountInv, Stop \/ Down \/ Start PROVE CountInv'
<1>0. /\ worker.at \in {"stopped", "down", "start"} /\ worker.at # "attempt"
      /\ AtHand /\ worker.j \in Journal /\ Working /\ ~Finished(worker.j)
      /\ worker.j.installs \in 0..2 /\ worker \in WorkerState
  BY HandCounts, Parts DEF Stop, Down, Start, AtHand, Journaled
<1>1. "updating" \in Saying /\ {"converge", "repair"} \subseteq After
      /\ "converge" \notin Mutates
  BY DEF Saying, After, Mutates
<1>2. CASE Stop
  <2>1. worker'.at \in {"activate", "down"} /\ worker'.j = worker.j
        /\ UNCHANGED dir
    BY <1>0, <1>2 DEF Stop, Goto, WorkerState
  <2> QED
    BY <1>0, <2>1, GoesCount DEF Mutates
<1>3. CASE Down
  <2>1. CASE Write(worker.j, "updating", "converge")
    BY <1>0, <1>1, <2>1, WritesOn
  <2>2. CASE Goto("start") /\ UNCHANGED dir
    <3>1. worker'.at = "start" /\ worker'.j = worker.j
      BY <1>0, <2>2 DEF Goto, WorkerState
    <3> QED
      BY <1>0, <2>2, <3>1, GoesCount DEF Mutates
  <2>3. CASE Fail
    BY <1>0, <2>3, FailsCount
  <2>4. CASE /\ ~(worker.j.installs >= 2)
             /\ Write([worker.j EXCEPT !.installs = @ + 1, !.intent = TRUE],
                      "updating", "repair")
    <3> DEFINE J == [worker.j EXCEPT !.installs = worker.j.installs + 1,
                                     !.intent = TRUE]
    <3>1. worker.j.installs + 1 \in 0..2
      BY <1>0, <2>4
    <3>2. J \in Journal /\ J.status = worker.j.status
          /\ J.installs = worker.j.installs + 1
      BY <1>0, <3>1 DEF Journal
    <3>3. Write(J, "updating", "repair")
      BY <2>4
    <3> HIDE DEF J
    <3>4. J.installs > worker.j.installs
      BY <1>0, <3>2
    <3> QED
      BY <1>0, <1>1, <3>2, <3>3, <3>4, WritesOn
  <2> QED
    BY <1>3, <2>1, <2>2, <2>3, <2>4 DEF Down
<1>4. CASE Start
  <2>1. CASE Write([worker.j EXCEPT !.activated = TRUE], "updating",
                   "converge")
    <3> DEFINE J == [worker.j EXCEPT !.activated = TRUE]
    <3>1. J \in Journal /\ J.status = worker.j.status
          /\ J.installs = worker.j.installs
      BY <1>0 DEF Journal
    <3>2. Write(J, "updating", "converge")
      BY <2>1
    <3> HIDE DEF J
    <3> QED
      BY <1>0, <1>1, <3>1, <3>2, WritesOn
  <2>2. CASE Fail
    BY <1>0, <2>2, FailsCount
  <2> QED
    BY <1>4, <2>1, <2>2 DEF Start
<1> QED
  BY <1>2, <1>3, <1>4

LEMMA RevivalCount ==
  ASSUME TypeInv, Owners, CountInv, ReviveBegins \/ Reviving \/ Poll
  PROVE  CountInv'
<1>0. worker.mode = "revive" /\ worker \in WorkerState /\ Dirs
  BY Parts DEF ReviveBegins, Reviving, Poll, WorkerOK
<1>1. CASE WorkerExit
  BY <1>1, ExitsCount
<1>2. CASE worker' = Gone /\ UNCHANGED dir
  BY <1>2, StaysCounted, LeavesCount
<1>3. CASE \/ (Goto("activate") \/ Goto("poll")) /\ UNCHANGED dir
           \/ ReviveBegins /\ dir' = Lock("worker") /\ Goto("reviving")
              /\ Active # None
  <2>1. worker'.at \in {"activate", "poll", "reviving"}
        /\ worker'.mode = "revive"
    BY <1>0, <1>3 DEF Goto, WorkerState
  <2>2. ~AtHand' /\ ~Mutating' /\ worker'.at # "preflight"
    BY <2>1 DEF AtHand, Mutating, Mutates, Journaled
  <2>3. CASE UNCHANGED dir
    BY <2>2, <2>3, StaysCounted, CountAside
  <2>4. CASE ReviveBegins /\ dir' = Lock("worker") /\ Active # None
    <3>1. Carried
      BY <2>4, RevivalHeld DEF Held
    <3>2. Active \in Directory
      BY <1>0, <2>4 DEF Dirs, Active, Place
    <3>3. CountsKept
      BY <1>0, <2>4, <3>2 DEF CountsKept, Lock, Dirs, Active, Place, Directory
    <3> QED
      BY <2>2, <3>1, <3>3, CountAside
  <2> QED
    BY <1>3, <2>3, <2>4
<1> QED
  BY <1>1, <1>2, <1>3 DEF ReviveBegins, Reviving, Poll

LEMMA LastCount ==
  ASSUME TypeInv, Owners, CountInv,
         WorkerEnds \/ Failing \/ Installed \/ Repaired \/ WorkerDies
  PROVE  CountInv'
<1>1. CASE WorkerEnds \/ WorkerDies
  BY <1>1, ExitsCount DEF WorkerEnds, WorkerDies
<1>2. CASE Failing
  <2>1. Working
    BY <1>2, AtWorkNow DEF Failing, Stage, NotStarted
  <2> QED
    BY <1>2, <2>1, FailsCount DEF Failing
<1>3. CASE Installed \/ Repaired
  <2>1. /\ worker.at # "attempt" /\ AtHand /\ worker.j \in Journal
        /\ worker.j.installs \in 0..2 /\ worker \in WorkerState
        /\ (Installed => worker.say \in Saying)
    BY <1>3, HandCounts, Parts
       DEF Installed, Repaired, AtHand, Journaled, WorkerOK, WorkerState
  <2>2. /\ "updating" \in Saying /\ {"converge", "start"} \subseteq After
        /\ {"converge", "start"} \cap Mutates = {}
    BY DEF Saying, After, Mutates
  <2>3. PICK J \in Journal, say \in Saying, next \in {"converge", "start"} :
          /\ J.status = worker.j.status /\ J.installs = worker.j.installs
          /\ Write(J, say, next)
    <3>1. CASE Installed
      <4> DEFINE J == [worker.j EXCEPT !.staged = TRUE, !.intent = FALSE]
      <4>1. J \in Journal /\ J.status = worker.j.status
            /\ J.installs = worker.j.installs
        BY <2>1 DEF Journal
      <4>2. Write(J, worker.say, "converge")
        BY <3>1 DEF Installed
      <4> QED
        BY <2>1, <3>1, <4>1, <4>2
    <3>2. CASE Repaired
      <4> DEFINE J == [worker.j EXCEPT !.staged = TRUE, !.repaired = TRUE,
                                       !.intent = FALSE]
      <4>1. J \in Journal /\ J.status = worker.j.status
            /\ J.installs = worker.j.installs
        BY <2>1 DEF Journal
      <4>2. Write(J, "updating", "start")
        BY <3>2 DEF Repaired
      <4> QED
        BY <2>2, <4>1, <4>2
    <3> QED
      BY <1>3, <3>1, <3>2
  <2> QED
    BY <2>1, <2>2, <2>3, WritesOn
<1> QED
  BY <1>1, <1>2, <1>3

LEMMA UpdateCount ==
  ASSUME TypeInv, Owners, CountInv, Update PROVE CountInv'
<1>1. CASE Manage
  BY <1>1, ManageCount
<1>2. CASE Converge \/ Repairs \/ Defers
  BY <1>2, AtConverge, ConvergeCount DEF Converge
<1>3. CASE Work \/ WorkerDies
  BY <1>3, BeginsCount, OpeningCount, AttemptCount, InstallCount,
     GatewayCount, RecoverCount, RevivalCount, LastCount DEF Work
<1> QED
  BY <1>1, <1>2, <1>3 DEF Update

LEMMA ItselfCount ==
  ASSUME TypeInv, Owners, CountInv, Environment, Forgets PROVE CountInv'
<1>1. Carried /\ UNCHANGED worker
  BY ByItself
<1>2. CASE UNCHANGED dir
  BY <1>1, <1>2, StaysCounted, CountSame
<1>3. CASE GatewayReturns
  <2>1. \A p \in Place : dir[p] # None => dir'[p] = dir[p]
    BY <1>3, Parts, Reopens DEF GatewayReturns
  <2>2. Active = None => dir'["active"] = Empty
    BY <1>3, Parts DEF GatewayReturns, Found, Dirs, Place
  <2>3. CountsKept
    BY <1>1, <2>1, <2>2 DEF CountsKept, Carried, Active, Empty
  <2> QED
    BY <1>1, <2>3, CountSame
<1> QED
  BY <1>2, <1>3 DEF Environment, WorkBegins, WorkEnds, CollectorReady,
                    GatewayDies, UnitReturns

(* The steps of the transition that rename or make a directory: no worker  *)
(* is at work meanwhile.                                                   *)
LEMMA RenamingCount ==
  ASSUME TypeInv, LockInv, CountInv, UNCHANGED worker,
         \/ MoveSource \/ WriteCandidate \/ MoveAway \/ MoveBack
         \/ StartTarget \/ StartSource,
         dir' # dir, ~Exit
  PROVE  CountInv'
<1>0. Dirs /\ Found \in Directory /\ Owners /\ Excluded
  BY Parts, FoundType DEF LockInv
<1>1. act.at \in Away \cup {"move", "restart"}
  BY DEF MoveSource, WriteCandidate, MoveAway, MoveBack, StartTarget,
         StartSource, Away, Moving
<1>2. ~Working
  <2>1. CASE act.at \in {"move", "restart"}
    BY <1>0, <2>1, Exclusive DEF Excluded, Locked
  <2>2. CASE act.at \in Away
    BY <1>0, <2>2 DEF Excluded, Alone, Working
  <2> QED
    BY <1>1, <2>1, <2>2
<1>3. IF Active = None THEN Found.journal = None /\ Found.tries = 0
      ELSE Found = Active
  BY DEF Found, Empty
<1>4. CASE MoveSource \/ MoveAway \/ MoveBack
  <2>1. \/ dir' = [dir EXCEPT !["archive"] = Active, !["active"] = None]
        \/ dir' = [dir EXCEPT !["failed"] = Active, !["active"] = None]
        \/ dir' = [dir EXCEPT !["active"] = dir["archive"],
                              !["archive"] = None]
    BY <1>4 DEF MoveSource, MoveAway, MoveBack, RollBack, GiveUp, Forward
  <2>2. \A p \in Place : dir'[p] # None =>
          \E q \in Place : dir[q] # None /\ dir'[p] = dir[q]
    BY <1>0, <2>1 DEF Dirs, Active, Place
  <2>3. \A p \in Place : dir'[p] # None =>
          \E q \in Place : /\ dir[q] # None
                           /\ dir'[p].journal = dir[q].journal
                           /\ dir'[p].tries = dir[q].tries
    BY <2>2
  <2> QED
    BY <1>2, <2>3, CountMoved
<1>5. CASE WriteCandidate \/ StartTarget \/ StartSource
  <2>1. /\ dir'["active"].journal = Found.journal
        /\ dir'["active"].tries = Found.tries
        /\ \A p \in Place \ {"active"} : dir'[p] = dir[p]
    <3>1. CASE ManagerInstalled("target") \/ ManagerInstalled("source")
      BY <3>1, ManagerDirs DEF Side
    <3>2. CASE dir' = [dir EXCEPT !["active"] = [Found EXCEPT !.cred = "target"]]
      BY <1>0, <3>2 DEF Dirs, Place, Directory
    <3> QED
      BY <1>5, <3>1, <3>2 DEF WriteCandidate, StartTarget, StartSource,
                              RollBack, GiveUp, Unclear
  <2>2. "active" \in Place
    BY DEF Place
  <2> QED
    BY <1>2, <1>3, <2>1, <2>2, CountMoved DEF Active
<1> QED
  BY <1>4, <1>5

LEMMA TransitionCount ==
  ASSUME TypeInv, LockInv, CountInv, UNCHANGED worker, Begin \/ Steps \/ Dies
  PROVE  CountInv'
<1>0. Owners /\ Dirs
  BY Parts DEF LockInv
<1>1. CASE UNCHANGED dir
  BY <1>0, <1>1, StaysCounted, CountSame
<1>2. CASE Exit
  <2>1. Carried /\ CountsKept
    BY <1>2, Leaves, UnlockedCounts DEF Exit, Holder
  <2> QED
    BY <1>0, <2>1, CountSame
<1>3. CASE Begin
  <2>1. dir' = Lock("activate") /\ Active # None /\ Active \in Directory
    BY <1>0, <1>3 DEF Begin, Dirs, Active, Place
  <2>2. CountsKept /\ Carried
    BY <1>0, <2>1, HostAssumption
       DEF CountsKept, Carried, Lock, Dirs, Active, Place, Directory, Holder
  <2> QED
    BY <1>0, <2>2, CountSame
<1>4. CASE /\ \/ MoveSource \/ WriteCandidate \/ MoveAway \/ MoveBack
              \/ StartTarget \/ StartSource
           /\ dir' # dir /\ ~Exit
  BY <1>4, RenamingCount
<1> QED
  BY <1>1, <1>2, <1>3, <1>4
     DEF Steps, Dies, SuspendHost, Lease, StopSource, CopyConfig,
         SaveSwitching, WriteConfig, SaveStarting, SaveActivated, StopAgain,
         RestoreConfig, Forget, Uncopy, StopHost, RollBack, Forward, GiveUp,
         Unclear

LEMMA CountStep ==
  TypeInv /\ LockInv /\ CountInv /\ [Next]_vars => CountInv'
<1> SUFFICES ASSUME TypeInv, LockInv, CountInv, [Next]_vars PROVE CountInv'
  OBVIOUS
<1>0. Owners
  BY DEF LockInv
<1>1. CASE Environment /\ Forgets
  BY <1>0, <1>1, ItselfCount
<1>2. CASE Update
  BY <1>0, <1>2, UpdateCount
<1>3. CASE (Begin \/ Steps \/ Dies) /\ Forgets
  BY <1>3, TransitionCount DEF Forgets
<1>4. CASE UNCHANGED vars
  <2>1. UNCHANGED <<dir, worker>>
    BY <1>4 DEF vars, host, updateVars
  <2> QED
    BY <1>0, <2>1, StaysCounted, CountSame
<1> QED
  BY <1>1, <1>2, <1>3, <1>4 DEF Next

LEMMA CountInit == Init => CountInv
<1> SUFFICES ASSUME Init PROVE CountInv
  OBVIOUS
<1>1. PICK d \in Directory :
        /\ dir = [p \in Place |-> IF p # "active" THEN None ELSE d]
        /\ d.journal = None /\ d.tries = 0
  BY InitDirs
<1>2. worker.at = None
  BY DEF Init, UpdateInit, Gone
<1>3. ~AtHand /\ ~Mutating /\ worker.at # "preflight"
  BY <1>2, UpdateAssumption DEF AtHand, Mutating, Mutates, Journaled, Stage
<1>4. \A p \in Place : dir[p] # None => Allowed(dir[p])
  BY <1>1 DEF Allowed, Undone
<1> QED
  BY <1>3, <1>4 DEF CountInv

LEMMA CountBounds == TypeInv /\ CountInv => InstallsBounded
<1> SUFFICES ASSUME TypeInv, CountInv, Active # None PROVE Active.tries <= 2
  BY DEF InstallsBounded
<1>1. Active \in Directory /\ Allowed(Active)
  BY Parts DEF Dirs, Active, Place, CountInv
<1>2. CASE Undone(Active.journal)
  BY <1>1, <1>2 DEF Allowed
<1>3. CASE ~Undone(Active.journal)
  <2>1. Active.journal.installs \in 0..2 /\ Active.tries \in Nat
    BY <1>1, <1>3 DEF Undone, Directory, Journal
  <2> QED
    BY <1>1, <1>3, <2>1 DEF Allowed
<1> QED
  BY <1>2, <1>3

(* At most two installs of one journal, whatever dies and resumes: each is *)
(* announced, durably, before the command is run (convergeCurrentRelease   *)
(* and recoverStopped), and the lock lets no second worker announce.       *)
THEOREM InstallsLimited == ASSUME ~Late PROVE Spec => []InstallsBounded
<1> DEFINE I == TypeInv /\ SourceInv /\ LockInv /\ CountInv
<1>1. Init => I
  BY TypeInit, SourceInit, LockInit, CountInit
<1>2. I /\ [Next]_vars => I'
  BY TypeStep, SourceStep, LockStep, CountStep
<1>3. I => InstallsBounded
  BY CountBounds
<1> QED
  BY <1>1, <1>2, <1>3, PTL DEF Spec
=============================================================================
