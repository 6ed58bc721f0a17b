----------------------------- MODULE WriterLock -----------------------------
(***************************************************************************)
(* The writer lock of the spool: acquireWriterLock and releaseWriterLock   *)
(* of delivery/spool.js, run by processes that start, crash and have their *)
(* pid used again, on a machine that may boot again.                       *)
(*                                                                         *)
(* Two things are taken.  The guard is a reservation in a SQLite file; the *)
(* operating system drops it when its process ends.  The lock file stays:  *)
(* it names its owner, and an owner that is provably gone is removed.      *)
(* A release without the guard may still run: its record has no identity.  *)
(*                                                                         *)
(* Definitions that no action uses, each before the one it resembles, are  *)
(* plausible defects of that one, which the properties below must detect.  *)
(***************************************************************************)
EXTENDS Naturals, FiniteSets

CONSTANTS
  Pid,        \* process ids
  Legacy,     \* the pid of a writer of an older release, at the beginning
  NoPid,      \* not a pid
  Linux,      \* the platform tells a process from another of the same pid
  MaxRuns,    \* bound: how many processes are ever started
  MaxBoots    \* bound: how often the machine boots

ASSUME WriterLockAssumption ==
  /\ IsFiniteSet(Pid) /\ Legacy \in Pid /\ NoPid \notin Pid
  /\ Linux \in BOOLEAN
  /\ MaxRuns \in Nat \ {0} /\ MaxBoots \in Nat \ {0}

VARIABLES
  process,  \* process[p]: the number of the process with pid p, 0 = none
  started,  \* processes started so far, their numbers
  boot,     \* boots so far
  guard,    \* the pid whose process holds the reservation
  file,     \* the lock file: its inode, 0 = no file, and what is in it
  pc,       \* pc[p]: how far openSpool or close of p's process is
  attempt,  \* attempt[p] of the loop
  seen,     \* seen[p]: the file inspected
  handle    \* handle[p]: the inode created, 0 = none

machine == <<process, started, boot>>
progress == <<pc, attempt, seen, handle>>
vars == <<machine, guard, file, progress>>

Inode == 1..(Cardinality(Pid) + 1)

(* What is in the file: nothing yet (or what a crash left of it), or the   *)
(* owner's record.  The number of the process stands for bootId and        *)
(* startTicks and for the token; 0 is a record without an identity.        *)
Torn == [pid |-> NoPid, number |-> 0, boot |-> 0]
Owner == [pid : Pid, number : 0..MaxRuns, boot : 1..MaxBoots]
File == [inode : Inode, owner : Owner \cup {Torn}]
NoFile == [inode |-> 0, owner |-> Torn]

(* "off": not in openSpool; "guarded": about to create the file; "stale":  *)
(* the owner is gone; "confirmed": the file has not changed since;         *)
(* "created": not yet written; "open": writing; "releasing": own token     *)
(* found; "legacy": the writer of the older release.                       *)
Point == {"off", "guarded", "stale", "confirmed", "created", "open",
          "releasing", "legacy"}

TypeOK ==
  /\ process \in [Pid -> 0..MaxRuns] /\ started \in 1..MaxRuns
  /\ boot \in 1..MaxBoots
  /\ guard \in Pid \cup {NoPid}
  /\ file \in File \cup {NoFile}
  /\ pc \in [Pid -> Point]
  /\ attempt \in [Pid -> 1..2]
  /\ seen \in [Pid -> File \cup {NoFile}]
  /\ handle \in [Pid -> Inode \cup {0}]

Alive(p) == process[p] # 0

Record(p) ==
  [pid |-> p, number |-> IF Linux THEN process[p] ELSE 0, boot |-> boot]

LegacyRecord == [pid |-> Legacy, number |-> 0, boot |-> 1]

(* The writer of the older release made its file before the first step.    *)
Init ==
  /\ process = [p \in Pid |-> IF p = Legacy THEN 1 ELSE 0]
  /\ started = 1 /\ boot = 1
  /\ guard = NoPid
  /\ file = [inode |-> 1, owner |-> LegacyRecord]
  /\ pc = [p \in Pid |-> IF p = Legacy THEN "legacy" ELSE "off"]
  /\ attempt = [p \in Pid |-> 1]
  /\ seen = [p \in Pid |-> NoFile]
  /\ handle = [p \in Pid |-> 0]

DeadPidOnly(owner) == owner # Torn /\ ~Alive(owner.pid)

(* staleOwner: nobody has the pid, or another process has it, or the       *)
(* record without an identity is of an earlier boot.                       *)
StaleOwner(owner) ==
  /\ owner # Torn
  /\ \/ ~Alive(owner.pid)
     \/ /\ Linux
        /\ IF owner.number # 0
           THEN owner.number # process[owner.pid]
           ELSE owner.boot < boot

(* The attempt or the writer of p is over: the guard is closed.            *)
Over(p) ==
  /\ pc' = [pc EXCEPT ![p] = "off"]
  /\ attempt' = [attempt EXCEPT ![p] = 1]
  /\ seen' = [seen EXCEPT ![p] = NoFile]
  /\ handle' = [handle EXCEPT ![p] = 0]

Locked(p) ==
  /\ Over(p)
  /\ guard' = NoPid
  /\ UNCHANGED <<machine, file>>

-----------------------------------------------------------------------------
Unguarded(p) ==
  /\ Alive(p) /\ pc[p] = "off"
  /\ guard' = p
  /\ pc' = [pc EXCEPT ![p] = "guarded"]
  /\ UNCHANGED <<machine, file, attempt, seen, handle>>

(* BEGIN IMMEDIATE with no busy timeout.  While the reservation is taken   *)
(* openSpool throws "locked" and nothing has changed.                      *)
Open(p) ==
  /\ Alive(p) /\ pc[p] = "off"
  /\ guard = NoPid
  /\ guard' = p
  /\ pc' = [pc EXCEPT ![p] = "guarded"]
  /\ UNCHANGED <<machine, file, attempt, seen, handle>>

(* open(lockFile, "wx"); the inode of an open handle is not used again.    *)
Create(p) ==
  /\ pc[p] = "guarded"
  /\ file = NoFile
  /\ \E i \in Inode \ {handle[q] : q \in Pid} :
       /\ file' = [inode |-> i, owner |-> Torn]
       /\ handle' = [handle EXCEPT ![p] = i]
  /\ pc' = [pc EXCEPT ![p] = "created"]
  /\ UNCHANGED <<machine, guard, attempt, seen>>

TornIsStale(p) ==
  /\ pc[p] = "guarded"
  /\ file # NoFile
  /\ IF file.owner = Torn \/ StaleOwner(file.owner)
     THEN /\ pc' = [pc EXCEPT ![p] = "stale"]
          /\ seen' = [seen EXCEPT ![p] = file]
          /\ UNCHANGED <<machine, guard, file, attempt, handle>>
     ELSE Locked(p)

(* EEXIST: lstat, readFile, JSON.parse and staleOwner.                     *)
Inspect(p) ==
  /\ pc[p] = "guarded"
  /\ file # NoFile
  /\ IF StaleOwner(file.owner)
     THEN /\ pc' = [pc EXCEPT ![p] = "stale"]
          /\ seen' = [seen EXCEPT ![p] = file]
          /\ UNCHANGED <<machine, guard, file, attempt, handle>>
     ELSE Locked(p)

(* lstat and readFile again.                                               *)
Recheck(p) ==
  /\ pc[p] = "stale"
  /\ IF file = seen[p]
     THEN /\ pc' = [pc EXCEPT ![p] = "confirmed"]
          /\ UNCHANGED <<machine, guard, file, attempt, seen, handle>>
     ELSE Locked(p)

(* unlink, by path, and the second attempt; there is no third.             *)
Unlink(p) ==
  /\ pc[p] = "confirmed"
  /\ file' = NoFile
  /\ IF attempt[p] = 1
     THEN /\ pc' = [pc EXCEPT ![p] = "guarded"]
          /\ attempt' = [attempt EXCEPT ![p] = 2]
          /\ UNCHANGED <<guard, seen, handle>>
     ELSE Over(p) /\ guard' = NoPid
  /\ UNCHANGED machine

(* writeFile and sync go to the inode, whatever the path names by now.     *)
Write(p) ==
  /\ pc[p] = "created"
  /\ file' = IF file.inode = handle[p]
             THEN [file EXCEPT !.owner = Record(p)] ELSE file
  /\ pc' = [pc EXCEPT ![p] = "open"]
  /\ UNCHANGED <<machine, guard, attempt, seen, handle>>

(* They fail: the path is unlinked, or that fails as well.                 *)
WriteFailed(p) ==
  /\ pc[p] = "created"
  /\ file' \in {NoFile, file}
  /\ Over(p)
  /\ guard' = NoPid
  /\ UNCHANGED machine

(* close, or a schema openSpool refuses: the handle is closed, the record  *)
(* read.  Another owner's file is left alone.                              *)
Close(p) ==
  /\ pc[p] = "open"
  /\ IF file # NoFile /\ file.owner = Record(p)
     THEN /\ pc' = [pc EXCEPT ![p] = "releasing"]
          /\ handle' = [handle EXCEPT ![p] = 0]
          /\ UNCHANGED <<machine, guard, file, attempt, seen>>
     ELSE Locked(p)

Release(p) ==
  /\ pc[p] = "releasing"
  /\ file' = NoFile
  /\ Over(p)
  /\ guard' = NoPid
  /\ UNCHANGED machine

(* The unlink fails: the guard is closed all the same.                     *)
ReleaseFailed(p) ==
  /\ pc[p] = "releasing"
  /\ Locked(p)

-----------------------------------------------------------------------------
Start(p) ==
  /\ ~Alive(p)
  /\ started < MaxRuns
  /\ started' = started + 1
  /\ process' = [process EXCEPT ![p] = started']
  /\ UNCHANGED <<boot, guard, file, progress>>

(* The process of p ends, at any point.                                    *)
Crash(p) ==
  /\ Alive(p)
  /\ process' = [process EXCEPT ![p] = 0]
  /\ Over(p)
  /\ guard' = IF guard = p THEN NoPid ELSE guard
  /\ UNCHANGED <<started, boot, file>>

(* The writer of the older release ends in good order.                     *)
LegacyExit ==
  /\ pc[Legacy] = "legacy"
  /\ file' = IF file.owner = LegacyRecord THEN NoFile ELSE file
  /\ process' = [process EXCEPT ![Legacy] = 0]
  /\ Over(Legacy)
  /\ UNCHANGED <<started, boot, guard>>

Reboot ==
  /\ boot < MaxBoots
  /\ boot' = boot + 1
  /\ process' = [p \in Pid |-> 0]
  /\ guard' = NoPid
  /\ pc' = [p \in Pid |-> "off"]
  /\ attempt' = [p \in Pid |-> 1]
  /\ seen' = [p \in Pid |-> NoFile]
  /\ handle' = [p \in Pid |-> 0]
  /\ UNCHANGED <<started, file>>

Acquire(p) ==
  \/ Open(p)
  \/ Create(p)
  \/ Inspect(p)
  \/ Recheck(p)
  \/ Unlink(p)
  \/ Write(p)

Next ==
  \/ LegacyExit
  \/ Reboot
  \/ \E p \in Pid :
       \/ Acquire(p)
       \/ WriteFailed(p)
       \/ Close(p)
       \/ Release(p)
       \/ ReleaseFailed(p)
       \/ Start(p)
       \/ Crash(p)

Spec == Init /\ [][Next]_vars

(* A start that finds the spool locked is made again after a while         *)
(* (core/startup-recovery.js), and a file operation ends.                  *)
Fairness == \A p \in Pid :
  /\ WF_vars(Acquire(p))
  /\ WF_vars(Release(p) \/ ReleaseFailed(p))

FairSpec == Spec /\ Fairness

-----------------------------------------------------------------------------
(* The processes that write to the spool.                                  *)
Writers == {p \in Pid : pc[p] \in {"open", "legacy"}}

(* "Spool already has a writer": never two at once, a writer of the older  *)
(* release included, whatever crashes and whoever reclaims                 *)
(* (spool.js:45-72); and what the lock and its guard hold is well-formed   *)
(* (TypeOK).                                                               *)
OneWriter == TypeOK /\ Cardinality(Writers) <= 1

(* A record nobody can read is not removed, except by the one who is       *)
(* writing it (spool.js:57-58; test/spool.test.js:77).                     *)
UnknownOwnerKept ==
  [][file # NoFile /\ file.owner = Torn
       => file' = file \/ \E p \in Pid : pc[p] = "created" /\ pc'[p] # "created"]_vars

(* What keeps every start out: a record nobody can read, of a process that *)
(* still runs, or of a pid used again when the two cannot be told apart.   *)
KeptOut ==
  /\ file # NoFile
  /\ \/ file.owner = Torn
     \/ /\ Alive(file.owner.pid)
        /\ \/ file.owner.number = process[file.owner.pid]
           \/ ~Linux
           \/ file.owner.number = 0 /\ file.owner.boot = boot

(* After a crash or a boot the spool is written again by whoever is there, *)
(* unless the file keeps every start out.                                  *)
WriterReturns ==
  <>[](\E p \in Pid : Alive(p)) => []<>(Writers # {} \/ KeptOut)
=============================================================================
