-------------------------- MODULE WriterLockProofs --------------------------
(***************************************************************************)
(* Proofs about WriterLock for any number of pids, processes and boots:    *)
(* there is one writer, and a record nobody can read stays.                *)
(*                                                                         *)
(* The argument: between open and release the guard names the process      *)
(* (Guarded), so two writers of this release exclude each other.  A writer *)
(* of the older release has no guard; it is excluded by its file, which    *)
(* nobody finds stale as long as it lives (LegacyHolds).  And what is      *)
(* unlinked was inspected: no other process has the guard, and so the file *)
(* is still the one inspected (Inspected).                                 *)
(***************************************************************************)
EXTENDS WriterLock, TLAPS, FiniteSetTheorems

(* Whoever is between open and release lives and holds the guard, and what *)
(* it created has an inode.                                                *)
Guarded ==
  \A p \in Pid :
    /\ pc[p] # "off" => Alive(p)
    /\ pc[p] \notin {"off", "legacy"} => guard = p
    /\ pc[p] = "legacy" => p = Legacy
    /\ pc[p] = "created" => handle[p] # 0

(* While the writer of the older release lives, the file is its file, and  *)
(* nobody is past the inspection.                                          *)
LegacyHolds ==
  pc[Legacy] = "legacy" =>
    /\ boot = 1 /\ file # NoFile /\ file.owner = LegacyRecord
    /\ \A p \in Pid \ {Legacy} : pc[p] \in {"off", "guarded"}

(* What is about to be unlinked is a record that could be read.            *)
Inspected ==
  \A p \in Pid :
    /\ pc[p] \in {"stale", "confirmed"} => seen[p].owner # Torn
    /\ pc[p] = "confirmed" => file = seen[p]
    /\ pc[p] = "releasing" => file.owner # Torn

IInv == TypeOK /\ Guarded /\ LegacyHolds /\ Inspected

-----------------------------------------------------------------------------
(* A record names a pid, so that it is not the record nobody can read.     *)
LEMMA RecordReadable ==
  ASSUME TypeOK, NEW p \in Pid
  PROVE  Record(p) \in Owner /\ Record(p) # Torn
BY WriterLockAssumption DEF TypeOK, Record, Owner, Torn

LEMMA LegacyReadable == LegacyRecord \in Owner /\ LegacyRecord # Torn
BY WriterLockAssumption DEF LegacyRecord, Owner, Torn

LEMMA InodeNumbers == Inode \subseteq Nat \ {0} /\ 1 \in Inode
<1>1. Cardinality(Pid) \in Nat
  BY WriterLockAssumption, FS_CardinalityType
<1> QED
  BY <1>1 DEF Inode

(* The file of a writer of the older release is never stale: its pid is    *)
(* taken, and its boot is the present one.                                 *)
LEMMA LegacyNotStale ==
  ASSUME TypeOK, Guarded, LegacyHolds, pc[Legacy] = "legacy"
  PROVE  ~StaleOwner(file.owner)
BY WriterLockAssumption
   DEF TypeOK, Guarded, LegacyHolds, LegacyRecord, StaleOwner, Alive

LEMMA InitInv == Init => IInv
<1> SUFFICES ASSUME Init PROVE IInv
  OBVIOUS
<1>1. TypeOK
  BY WriterLockAssumption, InodeNumbers, LegacyReadable
     DEF Init, TypeOK, File, NoFile, Point
<1>2. Guarded /\ LegacyHolds /\ Inspected
  BY WriterLockAssumption, InodeNumbers
     DEF Init, Guarded, LegacyHolds, Inspected, Alive, NoFile
<1> QED
  BY <1>1, <1>2 DEF IInv

-----------------------------------------------------------------------------
(* An attempt that ends, with the file left alone or gone.                 *)
LEMMA OverInv ==
  ASSUME IInv, NEW p \in Pid, pc[p] \notin {"off", "legacy"},
         Over(p), guard' = NoPid, file' \in {file, NoFile}, UNCHANGED machine,
         file' # file => pc[p] \notin {"guarded", "stale"}
  PROVE  IInv'
<1> USE DEF IInv
<1>1. TypeOK'
  BY DEF TypeOK, Over, machine, Point
<1>2. Guarded'
  BY DEF TypeOK, Guarded, Over, machine, Alive
<1>3. LegacyHolds'
  BY WriterLockAssumption DEF TypeOK, LegacyHolds, Guarded, Over, machine
<1>4. Inspected'
  BY DEF TypeOK, Inspected, Guarded, Over, machine
<1> QED
  BY <1>1, <1>2, <1>3, <1>4

LEMMA AcquireInv ==
  ASSUME IInv, NEW p \in Pid, Acquire(p)
  PROVE  IInv'
<1> USE DEF IInv
<1>1. CASE Open(p)
  BY <1>1, WriterLockAssumption
     DEF Open, TypeOK, Guarded, LegacyHolds, Inspected, machine, Alive, Point
<1>2. CASE Create(p)
  <2>1. TypeOK'
    BY <1>2 DEF Create, TypeOK, machine, Point, File
  <2>2. Guarded' /\ LegacyHolds' /\ Inspected'
    BY <1>2, WriterLockAssumption, InodeNumbers
       DEF Create, TypeOK, Guarded, LegacyHolds, Inspected, machine, Alive
  <2> QED
    BY <2>1, <2>2
<1>3. CASE Inspect(p)
  <2>1. CASE StaleOwner(file.owner)
    <3>1. TypeOK'
      BY <1>3, <2>1 DEF Inspect, TypeOK, machine, Point
    <3>2. pc[Legacy] # "legacy"
      BY <2>1, LegacyNotStale
    <3>3. Guarded' /\ LegacyHolds' /\ Inspected'
      BY <1>3, <2>1, <3>2, WriterLockAssumption
         DEF Inspect, TypeOK, Guarded, LegacyHolds, Inspected, machine, Alive,
             StaleOwner
    <3> QED
      BY <3>1, <3>3
  <2>2. CASE ~StaleOwner(file.owner)
    BY <1>3, <2>2, OverInv DEF Inspect, Locked, machine
  <2> QED
    BY <2>1, <2>2
<1>4. CASE Recheck(p)
  <2>1. CASE file = seen[p]
    BY <1>4, <2>1, WriterLockAssumption
       DEF Recheck, TypeOK, Guarded, LegacyHolds, Inspected, machine, Alive,
           Point
  <2>2. CASE file # seen[p]
    BY <1>4, <2>2, OverInv DEF Recheck, Locked, machine
  <2> QED
    BY <2>1, <2>2
<1>5. CASE Unlink(p)
  <2>1. CASE attempt[p] = 1
    BY <1>5, <2>1, WriterLockAssumption
       DEF Unlink, TypeOK, Guarded, LegacyHolds, Inspected, machine, Alive,
           Point
  <2>2. CASE attempt[p] # 1
    BY <1>5, <2>2, OverInv DEF Unlink, machine
  <2> QED
    BY <2>1, <2>2
<1>6. CASE Write(p)
  <2>1. file' \in File \cup {NoFile}
    <3>1. CASE file.inode = handle[p]
      <4>1. file \in File
        BY <1>6, <3>1 DEF Write, Guarded, TypeOK, NoFile
      <4>2. file' = [inode |-> file.inode, owner |-> Record(p)]
        BY <1>6, <3>1, <4>1 DEF Write, File
      <4> QED
        BY <4>1, <4>2, RecordReadable DEF File
    <3>2. CASE file.inode # handle[p]
      BY <1>6, <3>2 DEF Write, TypeOK
    <3> QED
      BY <3>1, <3>2
  <2>2. TypeOK'
    BY <1>6, <2>1 DEF Write, TypeOK, machine, Point
  <2>3. Guarded' /\ LegacyHolds' /\ Inspected'
    BY <1>6, WriterLockAssumption
       DEF Write, TypeOK, Guarded, LegacyHolds, Inspected, machine, Alive
  <2> QED
    BY <2>2, <2>3
<1> QED
  BY <1>1, <1>2, <1>3, <1>4, <1>5, <1>6 DEF Acquire

LEMMA CloseInv ==
  ASSUME IInv, NEW p \in Pid,
         WriteFailed(p) \/ Close(p) \/ Release(p) \/ ReleaseFailed(p)
  PROVE  IInv'
<1> USE DEF IInv
<1>1. CASE WriteFailed(p)
  BY <1>1, OverInv DEF WriteFailed
<1>2. CASE Close(p)
  <2>1. CASE file # NoFile /\ file.owner = Record(p)
    BY <1>2, <2>1, WriterLockAssumption, RecordReadable
       DEF Close, TypeOK, Guarded, LegacyHolds, Inspected, machine, Alive,
           Point
  <2>2. CASE ~(file # NoFile /\ file.owner = Record(p))
    BY <1>2, <2>2, OverInv DEF Close, Locked, machine
  <2> QED
    BY <2>1, <2>2
<1>3. CASE Release(p)
  BY <1>3, OverInv DEF Release
<1>4. CASE ReleaseFailed(p)
  BY <1>4, OverInv DEF ReleaseFailed, Locked
<1> QED
  BY <1>1, <1>2, <1>3, <1>4

(* Processes that start and end, the writer of the older release, boots.   *)
LEMMA MachineInv ==
  ASSUME IInv, LegacyExit \/ Reboot \/ \E p \in Pid : Start(p) \/ Crash(p)
  PROVE  IInv'
<1> USE DEF IInv
<1>1. CASE LegacyExit
  <2>1. TypeOK'
    BY <1>1, WriterLockAssumption DEF LegacyExit, TypeOK, Over, Point
  <2>2. Guarded' /\ LegacyHolds' /\ Inspected'
    BY <1>1, WriterLockAssumption
       DEF LegacyExit, TypeOK, Guarded, LegacyHolds, Inspected, Over, Alive
  <2> QED
    BY <2>1, <2>2
<1>2. CASE Reboot
  <2>1. TypeOK'
    BY <1>2, WriterLockAssumption DEF Reboot, TypeOK, Point
  <2>2. Guarded' /\ LegacyHolds' /\ Inspected'
    BY <1>2, WriterLockAssumption
       DEF Reboot, Guarded, LegacyHolds, Inspected
  <2> QED
    BY <2>1, <2>2
<1>3. ASSUME NEW p \in Pid, Start(p)
      PROVE  IInv'
  <2>1. TypeOK'
    BY <1>3, WriterLockAssumption DEF Start, TypeOK, progress
  <2>2. Guarded' /\ LegacyHolds' /\ Inspected'
    BY <1>3, WriterLockAssumption
       DEF Start, TypeOK, Guarded, LegacyHolds, Inspected, progress, Alive
  <2> QED
    BY <2>1, <2>2
<1>4. ASSUME NEW p \in Pid, Crash(p)
      PROVE  IInv'
  <2>1. TypeOK'
    BY <1>4, WriterLockAssumption DEF Crash, TypeOK, Over, Point
  <2>2. Guarded' /\ LegacyHolds' /\ Inspected'
    BY <1>4, WriterLockAssumption
       DEF Crash, TypeOK, Guarded, LegacyHolds, Inspected, Over, Alive
  <2> QED
    BY <2>1, <2>2
<1> QED
  BY <1>1, <1>2, <1>3, <1>4

LEMMA NextInv == IInv /\ [Next]_vars => IInv'
<1> SUFFICES ASSUME IInv, [Next]_vars PROVE IInv'
  OBVIOUS
<1>1. CASE UNCHANGED vars
  BY <1>1 DEF vars, machine, progress, IInv, TypeOK, Guarded, LegacyHolds,
             Inspected, Alive
<1>2. CASE Next
  BY <1>2, AcquireInv, CloseInv, MachineInv DEF Next
<1> QED
  BY <1>1, <1>2

LEMMA Invariance == Spec => []IInv
BY InitInv, NextInv, PTL DEF Spec

-----------------------------------------------------------------------------
(* The guard names every writer of this release, and one of the older      *)
(* release leaves no room for any.                                         *)
LEMMA AtMostOne == IInv => Cardinality(Writers) <= 1
<1> SUFFICES ASSUME IInv PROVE Cardinality(Writers) <= 1
  OBVIOUS
<1>1. \A p, q \in Writers : p = q
  BY DEF IInv, Guarded, LegacyHolds, Writers
<1>2. CASE Writers = {}
  BY <1>2, FS_EmptySet
<1>3. CASE Writers # {}
  <2>1. PICK p \in Writers : TRUE
    BY <1>3
  <2>2. Writers = {p}
    BY <1>1, <2>1
  <2>3. Cardinality({p}) = 1
    BY FS_Singleton
  <2> QED
    BY <2>2, <2>3
<1> QED
  BY <1>2, <1>3

(* "Spool already has a writer", for any number of pids and processes      *)
(* (spool.js:45-72).                                                       *)
THEOREM SingleWriter == Spec => []OneWriter
<1>1. IInv => OneWriter
  BY AtMostOne DEF IInv, OneWriter
<1> QED
  BY <1>1, Invariance, PTL

(* A lock file nobody can read is removed by nobody but its writer         *)
(* (spool.js:57-58).                                                       *)
THEOREM UnknownOwnerStays == Spec => UnknownOwnerKept
<1> DEFINE Stays ==
      file # NoFile /\ file.owner = Torn
        => file' = file \/ \E p \in Pid : pc[p] = "created" /\ pc'[p] # "created"
<1>1. IInv /\ [Next]_vars => [Stays]_vars
  <2> SUFFICES ASSUME IInv, Next, file # NoFile, file.owner = Torn
               PROVE  \/ file' = file
                      \/ \E p \in Pid : pc[p] = "created" /\ pc'[p] # "created"
    OBVIOUS
  <2>1. ASSUME NEW p \in Pid, Write(p) \/ WriteFailed(p)
        PROVE  pc[p] = "created" /\ pc'[p] # "created"
    BY <2>1 DEF Write, WriteFailed, Over, IInv, TypeOK
  <2>2. ASSUME NEW p \in Pid, Acquire(p), ~Write(p)
        PROVE  file' = file
    BY <2>2 DEF IInv, Inspected, Acquire, Open, Create, Inspect, Recheck,
                Unlink, Locked
  <2>3. ASSUME NEW p \in Pid, Close(p) \/ Release(p) \/ ReleaseFailed(p)
        PROVE  file' = file
    BY <2>3 DEF IInv, Inspected, Close, Release, ReleaseFailed, Locked
  <2>4. ASSUME NEW p \in Pid, Start(p) \/ Crash(p)
        PROVE  file' = file
    BY <2>4 DEF Start, Crash
  <2>5. CASE LegacyExit \/ Reboot
    BY <2>5, LegacyReadable DEF LegacyExit, Reboot
  <2> QED
    BY <2>1, <2>2, <2>3, <2>4, <2>5 DEF Next
<1>2. Spec => [][Stays]_vars
  BY <1>1, Invariance, PTL DEF Spec
<1> QED
  BY <1>2 DEF UnknownOwnerKept
=============================================================================
