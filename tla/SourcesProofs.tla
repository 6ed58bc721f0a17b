---------------------------- MODULE SourcesProofs ----------------------------
(***************************************************************************)
(* Proofs about RuntimeSources for any number of hooks, rows, installations*)
(* and faults: no staged hook is lost or imported half-written, and the    *)
(* receipts told are exactly those behind the baseline.                    *)
(*                                                                         *)
(* The argument for the inbox: a file has its name only when it is         *)
(* complete (Complete), and a worker moves or removes a file only after    *)
(* the spool has its event or has refused it (InHand).                     *)
(***************************************************************************)
EXTENDS RuntimeSources, TLAPS, FiniteSetTheorems, WellFoundedInduction

(* What is in the inbox, or was seen there, is no longer being written.    *)
Complete ==
  \A e \in Event :
    /\ e \in inbox \cup staged \/ (\E w \in Worker : e \in worker[w].todo)
         => hook[e] \in {"spawn", "ended"} /\ e \notin partial
    /\ hook[e] = "rename" => e \notin partial

(* What the spool has taken, wherever it is now.                           *)
Safe == spool \cup server \cup kept

(* The event a worker is about to unlink or to reject.                     *)
InHand ==
  \A w \in Worker :
    /\ At(w, "unlink") => worker[w].event \in Safe
    /\ At(w, "reject") => worker[w].event \in refused \cup Safe

(* The worker of a hook is not there before its Spawn.                     *)
NotYet == \A e \in Event : hook[e] # "ended" => worker[e] = Ended

InboxInv == EventKept /\ Complete /\ InHand /\ NotYet

-----------------------------------------------------------------------------
LEMMA InboxInitInv == InboxInit => InboxInv
<1> SUFFICES ASSUME InboxInit PROVE InboxInv
  OBVIOUS
<1>1. Ended \in WorkerState
  BY InboxAssumption DEF Ended, WorkerState
<1>2. InboxTypeOK
  BY <1>1, InboxAssumption
     DEF InboxInit, InboxTypeOK, Ended, Worker, Nobody, Account
<1>3. EventKept
  BY <1>2 DEF InboxInit, EventKept
<1>4. Complete /\ InHand /\ NotYet
  BY DEF InboxInit, Complete, InHand, NotYet, Ended, At, Worker
<1> QED
  BY <1>3, <1>4 DEF InboxInv

LEMMA EndedState == Ended \in WorkerState /\ Event \subseteq Worker
BY InboxAssumption DEF Ended, WorkerState, Worker

(* A worker that begins, or that only has its lock to give back.           *)
LEMMA BegunState ==
  ASSUME account \in Account
  PROVE  Begun \in WorkerState /\ Begun.at = "open" /\ Begun.todo = {}
<1>1. account \in 0..MaxAccounts
  BY InboxAssumption DEF Account
<1>2. Ended \in WorkerState /\ Ended.todo = {}
  BY EndedState DEF Ended
<1> QED
  BY <1>1, <1>2 DEF Begun, WorkerState

LEMMA ClosesState ==
  Closing \in WorkerState /\ Closing.at = "close" /\ Closing.todo = {}
BY EndedState DEF Closing, Ended, WorkerState

(* One worker goes on, and the lock with it.                               *)
LEMMA OneWorker ==
  ASSUME InboxTypeOK, NEW w \in Worker, NEW W \in WorkerState,
         worker' = [worker EXCEPT ![w] = W],
         W.at \in {"ended", "open"} <=> lock' # w,
         \A v \in Worker \ {w} : lock' = v <=> lock = v
  PROVE  /\ worker' \in [Worker -> WorkerState]
         /\ \A v \in Worker : worker'[v].at \in {"ended", "open"} <=> lock' # v
<1>1. worker' \in [Worker -> WorkerState]
  BY DEF InboxTypeOK
<1>2. ASSUME NEW v \in Worker
      PROVE  worker'[v].at \in {"ended", "open"} <=> lock' # v
  <2>1. CASE v = w
    BY <2>1 DEF InboxTypeOK
  <2>2. CASE v # w
    <3>1. worker'[v] = worker[v]
      BY <2>2 DEF InboxTypeOK
    <3> QED
      BY <2>2, <3>1 DEF InboxTypeOK
  <2> QED
    BY <2>1, <2>2
<1> QED
  BY <1>1, <1>2

(* A step of a hook.                                                       *)
LEMMA HookInv ==
  ASSUME InboxInv, NEW e \in Event, Hooks(e) \/ HookFails(e)
  PROVE  InboxInv'
<1>0. EventKept /\ Complete /\ InHand /\ NotYet /\ InboxTypeOK
  BY DEF InboxInv, EventKept
<1>1. hook' \in [Event -> {"new", "write", "rename", "spawn", "ended"}]
  BY <1>0 DEF Hooks, Stage, Written, Renamed, Spawn, HookFails, Step,
              InboxTypeOK
<1>2. faults' \in 0..MaxFaults
  BY <1>0, InboxAssumption
     DEF Hooks, Stage, Written, Renamed, Spawn, HookFails, Fault, InboxTypeOK
<1>3. (partial \cup inbox \cup rejected \cup spool \cup server \cup kept
         \cup staged \cup refused)' \subseteq Event
      /\ UNCHANGED <<store, lock, account>>
  BY <1>0 DEF Hooks, Stage, Written, Renamed, Spawn, HookFails, NotImporting,
              files, store, InboxTypeOK
<1>6. stamp' \in [Event -> 0..MaxAccounts]
  <2>1. account \in 0..MaxAccounts /\ stamp \in [Event -> 0..MaxAccounts]
    BY <1>0, InboxAssumption DEF InboxTypeOK, Account
  <2> QED
    BY <2>1 DEF Hooks, Stage, Written, Renamed, Spawn, HookFails, Stamped
<1>4. CASE Stage(e) \/ Written(e) \/ Renamed(e) \/ HookFails(e)
  <2>1. UNCHANGED <<worker, lock>>
    BY <1>4 DEF Stage, Written, Renamed, HookFails, NotImporting
  <2>2. InboxTypeOK'
    BY <1>0, <1>1, <1>2, <1>3, <1>6, <2>1 DEF InboxTypeOK
  <2>3. EventKept'
    BY <1>0, <1>3, <1>4, <2>2
       DEF Stage, Written, Renamed, HookFails, NotImporting, files, store,
           EventKept
  <2>4. Complete'
    BY <1>0, <1>4, <2>1
       DEF Stage, Written, Renamed, HookFails, Step, files, Complete,
           InboxTypeOK
  <2>5. InHand' /\ NotYet'
    BY <1>0, <1>3, <1>4, <2>1
       DEF Stage, Written, Renamed, HookFails, Step, NotImporting, InHand,
           Safe, store, NotYet, At, InboxTypeOK
  <2> QED
    BY <2>3, <2>4, <2>5 DEF InboxInv
<1>5. CASE Spawn(e)
  <2> DEFINE W == Begun
  <2>1. worker[e] = Ended /\ hook[e] = "spawn" /\ hook'[e] = "ended"
        /\ \A f \in Event \ {e} : hook'[f] = hook[f]
    BY <1>0, <1>5 DEF Spawn, Step, NotYet, InboxTypeOK
  <2>2. e \in Worker /\ W \in WorkerState /\ W.at = "open" /\ W.todo = {}
    BY <1>0, EndedState, BegunState DEF InboxTypeOK
  <2>3. worker' = [worker EXCEPT ![e] = W] /\ lock' = lock
    BY <1>5 DEF Spawn, NotImporting
  <2>4. lock # e
    BY <1>0, <2>1, <2>2 DEF InboxTypeOK, Ended
  <2> HIDE DEF W
  <2>5. InboxTypeOK'
    BY <1>0, <1>1, <1>2, <1>3, <1>6, <2>2, <2>3, <2>4, OneWorker
       DEF InboxTypeOK
  <2>6. EventKept'
    BY <1>0, <1>3, <1>5, <2>5 DEF Spawn, NotImporting, files, store, EventKept
  <2>7. worker'[e] = W /\ \A v \in Worker \ {e} : worker'[v] = worker[v]
    BY <1>0, <2>2, <2>3 DEF InboxTypeOK
  <2>8. Complete'
    BY <1>0, <1>5, <2>1, <2>2, <2>7 DEF Spawn, files, Complete, InboxTypeOK
  <2>9. InHand' /\ NotYet'
    BY <1>0, <1>3, <1>5, <2>1, <2>2, <2>7, EndedState
       DEF Spawn, NotImporting, InHand, Safe, store, NotYet, At
  <2> QED
    BY <2>6, <2>8, <2>9 DEF InboxInv
<1> QED
  BY <1>4, <1>5 DEF Hooks

(* A step of a worker may take files from the inbox whose event the spool  *)
(* has taken or refused, and no event from what has been taken.            *)
LEMMA WorkerInv ==
  ASSUME InboxInv, NEW w \in Worker, NEW W \in WorkerState,
         worker' = [worker EXCEPT ![w] = W],
         UNCHANGED <<hook, partial, staged, account, stamp>>,
         worker[w] # Ended \/ w = "later",
         W.at \in {"ended", "open"} <=> lock' # w,
         \A v \in Worker \ {w} : lock' = v <=> lock = v,
         lock' \in Worker \cup {Nobody, Unreadable}, faults' \in 0..MaxFaults,
         W.todo \subseteq worker[w].todo \cup inbox,
         inbox' \subseteq inbox,
         inbox \ inbox' \subseteq (Safe \cup refused)',
         Safe \subseteq Safe', refused \subseteq refused',
         (Safe \cup refused)' \subseteq Event,
         rejected' \subseteq rejected \cup refused \cup Safe,
         W.at = "unlink" => W.event \in Safe',
         W.at = "reject" => W.event \in (refused \cup Safe)'
  PROVE  InboxInv'
<1>0. EventKept /\ Complete /\ InHand /\ NotYet /\ InboxTypeOK
  BY DEF InboxInv, EventKept
<1>1. worker'[w] = W /\ \A v \in Worker \ {w} : worker'[v] = worker[v]
  BY <1>0 DEF InboxTypeOK
<1>2. InboxTypeOK'
  <2>1. /\ worker' \in [Worker -> WorkerState]
        /\ \A v \in Worker : worker'[v].at \in {"ended", "open"} <=> lock' # v
    BY <1>0, OneWorker
  <2>2. (partial \cup inbox \cup rejected \cup spool \cup server \cup kept
           \cup staged \cup refused)' \subseteq Event
    BY <1>0 DEF InboxTypeOK, Safe
  <2> QED
    BY <1>0, <2>1, <2>2 DEF InboxTypeOK
<1>3. EventKept'
  BY <1>0, <1>2 DEF EventKept, Safe
<1>4. Complete'
  <2>1. ASSUME NEW e \in Event, NEW v \in Worker, e \in worker'[v].todo
        PROVE  e \in inbox \/ \E u \in Worker : e \in worker[u].todo
    BY <1>1, <2>1
  <2> QED
    BY <1>0, <2>1 DEF Complete
<1>5. InHand'
  <2>1. ASSUME NEW v \in Worker \ {w}
        PROVE  /\ At(v, "unlink")' => worker'[v].event \in Safe'
               /\ At(v, "reject")' => worker'[v].event \in (refused \cup Safe)'
    BY <1>0, <1>1 DEF InHand, At
  <2> QED
    BY <1>1, <2>1 DEF InHand, At
<1>6. NotYet'
  <2> SUFFICES ASSUME NEW e \in Event, hook'[e] # "ended"
               PROVE  worker'[e] = Ended
    BY DEF NotYet
  <2>1. worker[e] = Ended /\ e \in Worker /\ e # "later"
    BY <1>0, EndedState, InboxAssumption DEF NotYet
  <2> QED
    BY <1>1, <2>1
<1> QED
  BY <1>3, <1>4, <1>5, <1>6 DEF InboxInv

LEMMA LaterInv == ASSUME InboxInv, LaterHook PROVE InboxInv'
<1>0. EventKept /\ Complete /\ InHand /\ NotYet /\ InboxTypeOK
  BY DEF InboxInv, EventKept
<1> DEFINE W == Begun
<1>1. "later" \in Worker /\ worker["later"] = Ended /\ lock # "later"
  BY <1>0 DEF LaterHook, Worker, InboxTypeOK, Ended
<1>2. W \in WorkerState /\ W.at = "open" /\ W.todo = {}
  BY <1>0, BegunState DEF InboxTypeOK
<1>3. /\ worker' = [worker EXCEPT !["later"] = W]
      /\ UNCHANGED <<hook, partial, staged, inbox, rejected, Safe, lock,
                     account, stamp, refused, faults>>
  BY DEF LaterHook, NotImporting, files, store, Safe
<1>4. (Safe \cup refused)' \subseteq Event
      /\ lock' \in Worker \cup {Nobody, Unreadable} /\ faults' \in 0..MaxFaults
  BY <1>0, <1>3 DEF InboxTypeOK, Safe
<1> HIDE DEF W
<1> QED
  BY <1>1, <1>2, <1>3, <1>4, WorkerInv

(* Another installation changes nothing that has been staged.              *)
LEMMA EnrollInv == ASSUME InboxInv, Enroll PROVE InboxInv'
<1>0. EventKept /\ Complete /\ InHand /\ NotYet /\ InboxTypeOK
  BY DEF InboxInv, EventKept
<1>1. /\ account' \in Account /\ faults' \in 0..MaxFaults
      /\ UNCHANGED <<hook, partial, inbox, rejected, spool, server, kept, lock,
                     stamp, worker, staged, refused>>
  BY <1>0, InboxAssumption
     DEF Enroll, Fault, Account, InboxTypeOK, files, store
<1>2. InboxTypeOK'
  BY <1>0, <1>1 DEF InboxTypeOK
<1> QED
  BY <1>0, <1>1, <1>2
     DEF InboxInv, EventKept, Complete, InHand, Safe, NotYet, At

(* The steps of a worker that has its lock for as long as it goes on.      *)
LEMMA WorkerStep ==
  ASSUME InboxInv, NEW w \in Worker, Drains(w) \/ WorkerCrashes(w)
  PROVE  InboxInv'
<1> DEFINE x == worker[w]
<1>0. EventKept /\ Complete /\ InHand /\ NotYet /\ InboxTypeOK
  BY DEF InboxInv, EventKept
<1>1. /\ x \in WorkerState /\ worker \in [Worker -> WorkerState]
      /\ lock \in Worker \cup {Nobody, Unreadable} /\ faults \in 0..MaxFaults
      /\ x.at \in {"ended", "open"} <=> lock # w
      /\ Safe \cup refused \cup inbox \cup rejected \subseteq Event
      /\ Nobody \notin Worker /\ Unreadable \notin Worker
  <2>1. Nobody \notin Worker /\ Unreadable \notin Worker
    BY InboxAssumption DEF Worker, Nobody, Unreadable
  <2> QED
    BY <1>0, <2>1 DEF InboxTypeOK, Safe
<1>2. ASSUME Fault PROVE faults' \in 0..MaxFaults
  BY <1>1, <1>2, InboxAssumption DEF Fault
<1>3. Ended \in WorkerState /\ Ended.at = "ended" /\ Ended.todo = {}
  BY EndedState DEF Ended
<1>4. CASE Open(w)
  <2> DEFINE W == [x EXCEPT !.at = "create"]
  <2>1. x # Ended /\ x.at = "open" /\ lock # w
    BY <1>1, <1>3, <1>4 DEF Open, At
  <2>2. UNCHANGED <<hook, partial, inbox, rejected, Safe, account, stamp,
                    staged, refused, faults>>
    BY <1>4 DEF Open, files, store, bindings, Safe
  <2>3. CASE lock = Nobody
    <3>1. W \in WorkerState /\ W.at = "create" /\ W.todo = x.todo
      BY <1>1 DEF WorkerState
    <3>2. worker' = [worker EXCEPT ![w] = W] /\ lock' = w
      BY <1>4, <2>3 DEF Open, Goto
    <3> HIDE DEF W, x
    <3> QED
      BY <1>1, <2>1, <2>2, <2>3, <3>1, <3>2, WorkerInv DEF x
  <2>4. CASE lock # Nobody
    <3>1. worker' = [worker EXCEPT ![w] = Ended] /\ lock' = lock
      BY <1>4, <2>4 DEF Open
    <3> QED
      BY <1>1, <1>3, <2>1, <2>2, <3>1, WorkerInv
  <2> QED
    BY <2>3, <2>4
<1>13. CASE Recorded(w)
  <2> DEFINE W == [x EXCEPT !.at = "scan"]
  <2>1. /\ x # Ended /\ lock = w
        /\ UNCHANGED <<hook, partial, inbox, rejected, Safe, account, stamp,
                       lock, staged, refused, faults>>
    BY <1>1, <1>3, <1>13 DEF Recorded, At, files, store, bindings, Safe
  <2>2. W \in WorkerState /\ W.at = "scan" /\ W.todo = x.todo
    BY <1>1 DEF WorkerState
  <2>3. worker' = [worker EXCEPT ![w] = W]
    BY <1>1, <1>13 DEF Recorded, Goto
  <2> HIDE DEF W
  <2> QED
    BY <1>1, <2>1, <2>2, <2>3, WorkerInv
<1>5. CASE Scan(w)
  <2>1. PICK others \in BOOLEAN :
          worker' = [worker EXCEPT ![w].at = "next", ![w].todo = inbox,
                                   ![w].got = others]
    BY <1>5 DEF Scan
  <2> DEFINE W == [x EXCEPT !.at = "next", !.todo = inbox, !.got = others]
  <2>2. W \in WorkerState /\ W.at = "next" /\ W.todo = inbox
    BY <1>1 DEF WorkerState
  <2>3. worker' = [worker EXCEPT ![w] = W]
    BY <1>1, <2>1
  <2>4. x # Ended /\ lock = w
    BY <1>1, <1>3, <1>5 DEF Scan, At
  <2>5. UNCHANGED <<hook, partial, inbox, rejected, Safe, account, stamp,
                    lock, staged, refused, faults>>
    BY <1>5 DEF Scan, files, store, bindings, Safe
  <2> HIDE DEF W
  <2> QED
    BY <1>1, <2>2, <2>3, <2>4, <2>5, WorkerInv
<1>6. CASE WorkerCrashes(w)
  <2>1. /\ worker' = [worker EXCEPT ![w] = Ended] /\ x # Ended
        /\ lock = w => lock' \in {Nobody, Unreadable}
        /\ lock # w => lock' = lock
        /\ UNCHANGED <<hook, partial, inbox, rejected, Safe, account, stamp,
                       staged, refused>>
        /\ Fault
    BY <1>6 DEF WorkerCrashes, files, store, bindings, Safe
  <2> QED
    BY <1>1, <1>2, <1>3, <2>1, WorkerInv
<1>7. CASE Close(w)
  <2>1. /\ worker' = [worker EXCEPT ![w] = Ended] /\ x.at = "close"
        /\ lock' = Nobody
        /\ UNCHANGED <<hook, partial, inbox, rejected, Safe, account, stamp,
                       staged, refused, faults>>
    BY <1>7 DEF Close, At, files, store, bindings, Safe
  <2>2. x # Ended /\ lock = w
    BY <1>1, <1>3, <2>1
  <2> QED
    BY <1>1, <1>3, <2>1, <2>2, WorkerInv
<1>8. CASE Unlink(w)
  <2>1. /\ x.at = "unlink" /\ x # Ended /\ lock = w
        /\ x.event \in Safe
        /\ UNCHANGED <<hook, partial, rejected, Safe, account, stamp, lock,
                       staged, refused>>
    BY <1>0, <1>1, <1>3, <1>8 DEF Unlink, At, InHand, store, bindings, Safe
  <2>2. CASE /\ inbox' = inbox \ {x.event} /\ UNCHANGED faults
             /\ worker' = [worker EXCEPT ![w].at = "next",
                             ![w].event = NoEvent, ![w].got = TRUE]
    <3> DEFINE W == [x EXCEPT !.at = "next", !.event = NoEvent, !.got = TRUE]
    <3>1. W \in WorkerState /\ W.at = "next" /\ W.todo = x.todo
      BY <1>1 DEF WorkerState
    <3>2. worker' = [worker EXCEPT ![w] = W]
      BY <1>1, <2>2
    <3>3. inbox' \subseteq inbox
          /\ inbox \ inbox' \subseteq (Safe \cup refused)'
      BY <2>1, <2>2
    <3> HIDE DEF W
    <3> QED
      BY <1>1, <2>1, <2>2, <3>1, <3>2, <3>3, WorkerInv
  <2>3. CASE Fault /\ Goto(w, "reject") /\ UNCHANGED inbox
    <3> DEFINE W == [x EXCEPT !.at = "reject"]
    <3>1. W \in WorkerState /\ W.at = "reject" /\ W.todo = x.todo
          /\ W.event = x.event
      BY <1>1 DEF WorkerState
    <3>2. worker' = [worker EXCEPT ![w] = W]
      BY <1>1, <2>3 DEF Goto
    <3> HIDE DEF W
    <3> QED
      BY <1>1, <1>2, <2>1, <2>3, <3>1, <3>2, WorkerInv
  <2> QED
    BY <1>8, <2>2, <2>3 DEF Unlink
<1>9. CASE Reject(w)
  <2>1. /\ x.at = "reject" /\ x # Ended /\ lock = w
        /\ x.event \in refused \cup Safe
        /\ UNCHANGED <<hook, partial, Safe, account, stamp, lock, staged,
                       refused>>
    BY <1>0, <1>1, <1>3, <1>9 DEF Reject, At, InHand, store, bindings, Safe
  <2>2. /\ inbox' \in {inbox, inbox \ {x.event}}
        /\ rejected' \in {rejected, rejected \cup {x.event}}
    BY <1>9 DEF Reject
  <2>3. faults' \in 0..MaxFaults
    BY <1>1, <1>2, <1>9 DEF Reject
  <2>4. /\ inbox' \subseteq inbox
        /\ inbox \ inbox' \subseteq (Safe \cup refused)'
        /\ rejected' \subseteq rejected \cup refused \cup Safe
    BY <2>1, <2>2
  <2>5. CASE worker' = [worker EXCEPT ![w].at = "next", ![w].event = NoEvent]
    <3> DEFINE W == [x EXCEPT !.at = "next", !.event = NoEvent]
    <3>1. W \in WorkerState /\ W.at = "next" /\ W.todo = x.todo
      BY <1>1 DEF WorkerState
    <3>2. worker' = [worker EXCEPT ![w] = W]
      BY <1>1, <2>5
    <3> HIDE DEF W
    <3> QED
      BY <1>1, <2>1, <2>3, <2>4, <3>1, <3>2, WorkerInv
  <2>6. CASE Closes(w)
    BY <1>1, <2>1, <2>3, <2>4, <2>6, ClosesState, WorkerInv DEF Closes
  <2> QED
    BY <1>9, <2>5, <2>6 DEF Reject
<1>10. CASE Imported(w)
  <2>1. /\ x.at = "next" /\ x # Ended /\ lock = w
        /\ UNCHANGED <<hook, partial, inbox, rejected, Safe, account, stamp,
                       lock, staged, refused, faults>>
    BY <1>1, <1>3, <1>10 DEF Imported, At, files, store, bindings, Safe
  <2>2. CASE worker' = [worker EXCEPT ![w].at = "upload", ![w].got = FALSE]
    <3> DEFINE W == [x EXCEPT !.at = "upload", !.got = FALSE]
    <3>1. W \in WorkerState /\ W.at = "upload" /\ W.todo = x.todo
      BY <1>1 DEF WorkerState
    <3>2. worker' = [worker EXCEPT ![w] = W]
      BY <1>1, <2>2
    <3> HIDE DEF W
    <3> QED
      BY <1>1, <2>1, <3>1, <3>2, WorkerInv
  <2>3. CASE Closes(w)
    BY <1>1, <2>1, <2>3, ClosesState, WorkerInv DEF Closes
  <2> QED
    BY <1>10, <2>2, <2>3 DEF Imported
<1>11. ASSUME NEW e \in Event, Import(w, e) PROVE InboxInv'
  <2>1. /\ x.at = "next" /\ x # Ended /\ lock = w /\ e \in x.todo
        /\ e \notin partial
        /\ UNCHANGED <<hook, partial, inbox, rejected, server, kept, account,
                       stamp, lock, staged>>
    BY <1>0, <1>1, <1>3, <1>11 DEF Import, At, files, bindings, Complete
  <2>2. PICK stage \in {"unlink", "reject"} :
          /\ worker' = [worker EXCEPT ![w].at = stage,
                          ![w].todo = @ \ {e}, ![w].event = e]
          /\ \/ /\ stage = "unlink" /\ spool' = spool \cup {e}
                /\ UNCHANGED <<refused, faults>>
             \/ /\ stage = "reject" /\ refused' = refused \cup {e}
                /\ Fault /\ UNCHANGED spool
    BY <1>11, <2>1 DEF Import
  <2>3. faults' \in 0..MaxFaults
    BY <1>1, <1>2, <2>2
  <2> DEFINE W == [x EXCEPT !.at = stage, !.todo = @ \ {e}, !.event = e]
  <2>4. W \in WorkerState /\ W.at = stage /\ W.todo = x.todo \ {e} /\ W.event = e
    BY <1>1 DEF WorkerState
  <2>5. worker' = [worker EXCEPT ![w] = W]
    BY <1>1, <2>2
  <2>6. /\ Safe \subseteq Safe' /\ refused \subseteq refused'
        /\ (Safe \cup refused)' \subseteq Event
        /\ W.todo \subseteq x.todo
        /\ stage = "unlink" => e \in Safe'
        /\ stage = "reject" => e \in refused'
    BY <1>1, <2>1, <2>2, <2>4 DEF Safe
  <2> HIDE DEF W
  <2> QED
    BY <1>1, <2>1, <2>3, <2>4, <2>5, <2>6, WorkerInv
<1>12. ASSUME NEW acked \in SUBSET Own(w), NEW dead \in SUBSET Own(w),
               Upload(w, acked, dead)
       PROVE  InboxInv'
  <2>1. /\ x.at = "upload" /\ x # Ended /\ lock = w
        /\ UNCHANGED <<hook, partial, inbox, rejected, account, stamp, lock,
                       staged, refused, faults>>
    BY <1>1, <1>3, <1>12 DEF Upload, At, files, bindings
  <2>2. Safe \subseteq Safe' /\ (Safe \cup refused)' \subseteq Event
    BY <1>1, <1>12, <2>1 DEF Upload, Own, Safe
  <2>3. CASE x.pass < Passes - 1
    <3> DEFINE W == [x EXCEPT !.at = "scan", !.pass = x.pass + 1]
    <3>1. x.pass + 1 \in 0..(Passes - 1)
      BY <1>1, <2>3, InboxAssumption DEF WorkerState
    <3>2. W \in WorkerState /\ W.at = "scan" /\ W.todo = x.todo
      BY <1>1, <3>1 DEF WorkerState
    <3>3. worker' = [worker EXCEPT ![w] = W]
      BY <1>1, <1>12, <2>3 DEF Upload
    <3> HIDE DEF W
    <3> QED
      BY <1>1, <2>1, <2>2, <3>2, <3>3, WorkerInv
  <2>4. CASE ~(x.pass < Passes - 1)
    <3>1. Closes(w)
      BY <1>12, <2>4 DEF Upload
    <3> QED
      BY <1>1, <2>1, <2>2, <3>1, ClosesState, WorkerInv DEF Closes
  <2> QED
    BY <2>3, <2>4
<1>14. CASE UploadThrows(w)
  <2>1. /\ x.at = "upload" /\ x # Ended /\ lock = w /\ Closes(w)
        /\ UNCHANGED <<hook, partial, inbox, rejected, account, stamp, lock,
                       staged, refused, faults>>
    BY <1>1, <1>3, <1>14 DEF UploadThrows, At, files, bindings
  <2>2. Safe \subseteq Safe' /\ (Safe \cup refused)' \subseteq Event
    BY <1>1, <1>14, <2>1 DEF UploadThrows, Own, Safe
  <2> QED
    BY <1>1, <2>1, <2>2, ClosesState, WorkerInv DEF Closes
<1> QED
  BY <1>4, <1>5, <1>6, <1>7, <1>8, <1>9, <1>10, <1>11, <1>12, <1>13, <1>14
     DEF Drains

LEMMA InboxStep == InboxInv /\ [InboxNext]_inboxVars => InboxInv'
<1> SUFFICES ASSUME InboxInv, [InboxNext]_inboxVars PROVE InboxInv'
  OBVIOUS
<1>1. CASE InboxNext
  BY <1>1, HookInv, LaterInv, EnrollInv, WorkerStep DEF InboxNext
<1>2. CASE UNCHANGED inboxVars
  BY <1>2 DEF inboxVars, files, store, bindings, InboxInv, EventKept,
              InboxTypeOK, Complete, InHand, Safe, NotYet, At
<1> QED
  BY <1>1, <1>2

(* What a hook has staged is in the inbox, in the spool, acknowledged or   *)
(* kept beside the queue, unless the spool refused it, whatever hooks,     *)
(* workers and enrollments do or fail to do at once (EventKept; bridge.js, *)
(* runtime-hook-drain.mjs).                                                *)
THEOREM StagedKept == SourcesSpec => []EventKept
<1>1. SourcesInit => InboxInv
  BY InboxInitInv DEF SourcesInit
<1>2. InboxInv /\ [SourcesNext]_sourceVars => InboxInv'
  BY InboxStep DEF SourcesNext, sourceVars, Cron, Inbox
<1>3. InboxInv => EventKept
  BY DEF InboxInv
<1> QED
  BY <1>1, <1>2, <1>3, PTL DEF SourcesSpec

-----------------------------------------------------------------------------
(* The receipts.  Nothing is known of them when the host writes rows in    *)
(* another order than that of the query (InOrder).                         *)

(* What is behind the cursor, and who had the installation then.           *)
Bounded == table = {} \/ \E m \in table : \A q \in table : q <= m

CursorInv ==
  /\ cursor.at \in table \cup {None} /\ cursor.inst <= bound
  /\ \A i \in Inst : base[i] \in table \cup {None}
  /\ cursor.inst # None => base[cursor.inst] <= cursor.at
  /\ cursor.inst # None /\ cursor.inst = bound
       => \A r \in table : r > base[bound] => under[r] = bound

ToldInv ==
  \A r \in Row, i \in Inst :
    told[r][i] > 0 => /\ r \in table /\ i <= cursor.inst
                      /\ told[r][i] = 1 /\ under[r] = i
                      /\ i = cursor.inst => r <= cursor.at

CronInv == CronTypeOK /\ Bounded /\ CursorInv /\ ToldInv /\ NoneSkipped

LEMMA CronNumbers ==
  /\ Row \subseteq Nat \ {0} /\ Inst \subseteq Nat \ {0} /\ None = 0
  /\ Confirmed \subseteq Row /\ Limit \in Nat \ {0}
  /\ MaxChanges \in Nat /\ MaxStops \in Nat /\ MaxEvents \in Nat
BY CronAssumption, FS_CardinalityType DEF CronAssumption, None

LEMMA OrNone ==
  /\ \A i \in Inst \cup {None} : i \in Nat
  /\ \A r \in Row \cup {None} : r \in Nat
<1>1. Inst \subseteq Nat /\ Row \subseteq Nat /\ None \in Nat
  BY CronNumbers
<1> QED
  BY <1>1

LEMMA BoundedMax ==
  ASSUME NEW S \in SUBSET Nat, S # {}, NEW m \in Nat, \A s \in S : s <= m
  PROVE  Max(S) \in S /\ \A s \in S : s <= Max(S)
<1> DEFINE U == {n \in Nat : \A s \in S : s <= n}
<1>1. PICK n \in U : \A k \in U : ~(<<k, n>> \in OpToRel(<, Nat))
  <2>1. U \subseteq Nat /\ U # {}
    OBVIOUS
  <2> HIDE DEF U
  <2> QED
    BY <2>1, WFMin, NatLessThanWellFounded
<1>2. \A k \in U : ~(k < n)
  BY <1>1 DEF OpToRel
<1>3. n \in S
  <2> SUFFICES ASSUME n \notin S PROVE FALSE
    OBVIOUS
  <2>1. n \in Nat /\ \A s \in S : s \in Nat /\ s < n /\ s <= n - 1
    OBVIOUS
  <2>2. n - 1 \in Nat
    <3>1. PICK s \in S : s \in Nat /\ s < n
      BY <2>1
    <3> HIDE DEF U
    <3> QED
      BY <2>1, <3>1
  <2>3. n - 1 \in U /\ n - 1 < n
    BY <2>1, <2>2
  <2> QED
    BY <1>2, <2>3
<1>4. \E x \in S : \A y \in S : x >= y
  BY <1>3
<1> QED
  BY <1>4 DEF Max

(* The last row of a table that has rows, and of none.                     *)
LEMMA LastRow ==
  ASSUME NEW S, S \subseteq table, table \subseteq Row, Bounded
  PROVE  Last(S) \in S \cup {None} /\ \A s \in S : s <= Last(S)
<1>1. CASE S = {}
  BY <1>1 DEF Last
<1>2. CASE S # {}
  <2>1. PICK m \in table : \A q \in table : q <= m
    BY <1>2 DEF Bounded
  <2>2. S \in SUBSET Nat /\ m \in Nat /\ \A s \in S : s <= m
    BY <2>1, CronNumbers
  <2>3. Max(S) \in S /\ \A s \in S : s <= Max(S)
    BY <1>2, <2>2, BoundedMax
  <2> QED
    BY <1>2, <2>3 DEF Last
<1> QED
  BY <1>1, <1>2

(* The rows of a query are the first ones of those behind the cursor.      *)
LEMMA BatchFirst ==
  ASSUME table \subseteq Row, Bounded, NEW r \in Batch, NEW q \in Fresh, q < r
  PROVE  q \in Batch
<1> DEFINE Q == {p \in Fresh : p < q}
           R == {p \in Fresh : p < r}
<1>1. Fresh \subseteq Nat /\ Batch \subseteq Fresh /\ q \in Nat /\ r \in Nat
  BY CronNumbers DEF Fresh, Batch
<1>2. Q \subseteq R /\ R \in SUBSET Nat /\ \A p \in R : p <= r
  <2>1. \A p \in Fresh : p < q => p < r
    BY <1>1
  <2>2. Q \subseteq R
    BY <2>1
  <2>3. \A p \in R : p \in Nat /\ p <= r
    BY <1>1
  <2> QED
    BY <2>2, <2>3
<1>3. IsFiniteSet(R) /\ Cardinality(R) \in Nat
  <2> HIDE DEF R
  <2> QED
    BY <1>1, <1>2, FS_BoundedSetOfNaturals, FS_CardinalityType
<1>4. IsFiniteSet(Q) /\ Cardinality(Q) <= Cardinality(R) /\ Cardinality(Q) \in Nat
  <2> HIDE DEF R, Q
  <2> QED
    BY <1>2, <1>3, FS_Subset, FS_CardinalityType
<1>5. Cardinality(R) < Limit
  BY DEF Batch
<1> QED
  BY <1>3, <1>4, <1>5, CronNumbers DEF Batch

LEMMA CronInitInv == CronInit => CronInv
<1> SUFFICES ASSUME CronInit PROVE CronInv
  OBVIOUS
<1>1. CronTypeOK
  <2>1. /\ table \subseteq Row /\ under \in [Row -> Inst \cup {None}]
        /\ inventory \in Version /\ bound \in Inst \cup {None}
    BY CronNumbers DEF CronInit, Version
  <2>2. /\ cursor \in [inst : Inst \cup {None}, at : Row \cup {None}]
        /\ told \in [Row -> [Inst -> 0..2]]
        /\ base \in [Inst -> Row \cup {None}]
        /\ reported \in [Inst -> Version \cup {None}]
    BY DEF CronInit
  <2>3. /\ sample \in [inst : Inst \cup {None}, version : Version \cup {None}]
        /\ sample.inst = None
    BY DEF CronInit, NoSample
  <2>4. /\ mode = "down" /\ phase = "idle" /\ stops \in 0..MaxStops
        /\ reads \subseteq Version /\ seen \in Version \cup {None}
    BY CronNumbers DEF CronInit
  <2>5. {dirty, timer, debounce} \subseteq BOOLEAN
    BY DEF CronInit
  <2> QED
    BY <2>1, <2>2, <2>3, <2>4, <2>5 DEF CronTypeOK
<1>2. Bounded /\ CursorInv /\ ToldInv /\ NoneSkipped
  BY CronNumbers DEF CronInit, Bounded, CursorInv, ToldInv, NoneSkipped
<1> QED
  BY <1>1, <1>2 DEF CronInv

(* The steps that leave the rows, the binding and the receipts alone.      *)
Aside ==
  \/ InventoryChanges \/ Start \/ TimerFires
  \/ (Disabled /\ Collect) \/ (NothingFresh /\ Collect)
  \/ (CollectThrows /\ Collect)
  \/ ReadInventory \/ Posted \/ NotPosted \/ Settled
  \/ DebounceOver \/ (\E v \in Version : ReadOver(v))
  \/ Stop \/ Stopped \/ Crash

Receipts == <<table, under, bound, cursor, told, base>>

LEMMA AsideReceipts == Aside => UNCHANGED Receipts
BY DEF Aside, Receipts, InventoryChanges, Start, TimerFires, Disabled, Collect,
       NothingFresh, CollectThrows, ReadInventory, Posted, NotPosted,
       Settled, DebounceOver, ReadOver, Stop, Stopped, Crash, host, receipts

LEMMA RunType ==
  ASSUME CronTypeOK, NEW changed \in BOOLEAN, Run(changed)
  PROVE  /\ phase' \in {"idle", "collect", "read", "post", "over"}
         /\ dirty' \in BOOLEAN
         /\ phase' \in {"read", "post"} <=> phase \in {"read", "post"}
BY DEF CronTypeOK, Run

LEMMA ExecutedType ==
  ASSUME CronTypeOK, Executed
  PROVE  /\ sample' = NoSample /\ phase' \in {"collect", "over"}
         /\ dirty' \in BOOLEAN
BY DEF CronTypeOK, Executed

LEMMA NoSampleType ==
  /\ NoSample \in [inst : Inst \cup {None}, version : Version \cup {None}]
  /\ NoSample.inst = None
BY DEF NoSample

LEMMA AsideType == ASSUME CronTypeOK, Aside PROVE CronTypeOK'
<1>0. UNCHANGED Receipts
  BY AsideReceipts
<1>1. CASE InventoryChanges
  <2>1. inventory' \in Version
    BY <1>1, CronNumbers DEF InventoryChanges, CronTypeOK, Version
  <2>2. debounce' \in BOOLEAN
    BY <1>1 DEF InventoryChanges, Noticed, CronTypeOK
  <2> QED
    BY <1>0, <1>1, <2>1, <2>2
       DEF InventoryChanges, delivery, Receipts, CronTypeOK
<1>2. CASE Start \/ TimerFires
  <2>1. Run(FALSE)
    BY <1>2 DEF Start, TimerFires
  <2>2. /\ phase' \in {"idle", "collect", "read", "post", "over"}
        /\ dirty' \in BOOLEAN
        /\ phase' \in {"read", "post"} <=> phase \in {"read", "post"}
    BY <2>1, RunType
  <2> QED
    BY <1>0, <1>2, <2>2
       DEF Start, TimerFires, host, watcher, Receipts, CronTypeOK
<1>3. CASE \/ (Disabled /\ Collect) \/ (CollectThrows /\ Collect)
           \/ Posted \/ NotPosted
  <2>1. Executed
    BY <1>3 DEF Disabled, CollectThrows, Posted, NotPosted
  <2>2. reported' \in [Inst -> Version \cup {None}]
    BY <1>3 DEF Collect, Posted, NotPosted, CronTypeOK
  <2> QED
    BY <1>0, <1>3, <2>1, <2>2, ExecutedType, NoSampleType
       DEF Collect, Posted, NotPosted, host, watcher, Receipts, CronTypeOK
<1>4. CASE NothingFresh /\ Collect
  <2>1. /\ sample' = [NoSample EXCEPT !.inst = bound]
        /\ bound # None /\ bound \in Inst
    BY <1>4 DEF NothingFresh, CronTypeOK
  <2>2. /\ sample' \in [inst : Inst \cup {None}, version : Version \cup {None}]
        /\ sample'.inst # None
    BY <2>1 DEF NoSample
  <2> QED
    BY <1>0, <1>4, <2>2
       DEF NothingFresh, Collect, host, watcher, Receipts, CronTypeOK
<1>5. CASE ReadInventory
  <2>1. /\ sample' \in [inst : Inst \cup {None}, version : Version \cup {None}]
        /\ sample'.inst = sample.inst
    BY <1>5 DEF ReadInventory, CronTypeOK
  <2> QED
    BY <1>0, <1>5, <2>1
       DEF ReadInventory, host, watcher, Receipts, CronTypeOK
<1>6. CASE Settled
  <2>1. timer' \in BOOLEAN
    BY <1>6 DEF Settled
  <2> QED
    BY <1>0, <1>6, <2>1 DEF Settled, host, watcher, Receipts, CronTypeOK
<1>7. CASE DebounceOver
  <2>1. reads' \subseteq Version
    BY <1>7 DEF DebounceOver, CronTypeOK
  <2>2. {dirty', timer', debounce'} \subseteq BOOLEAN
    BY <1>7 DEF DebounceOver, delivery, CronTypeOK
  <2> QED
    <3>1. UNCHANGED <<table, under, bound, cursor, told, base, inventory,
                      reported, mode, phase, sample, seen, stops>>
      BY <1>0, <1>7 DEF DebounceOver, delivery, Receipts, host
    <3> QED
      BY <2>1, <2>2, <3>1 DEF CronTypeOK
<1>8. ASSUME NEW v \in Version, ReadOver(v) PROVE CronTypeOK'
  <2>1. /\ phase' \in {"idle", "collect", "read", "post", "over"}
        /\ dirty' \in BOOLEAN
        /\ phase' \in {"read", "post"} <=> phase \in {"read", "post"}
    <3>1. CASE v # seen
      BY <1>8, <3>1, RunType DEF ReadOver
    <3>2. CASE v = seen
      BY <1>8, <3>2 DEF ReadOver, CronTypeOK
    <3> QED
      BY <3>1, <3>2
  <2>2. reads' \subseteq Version /\ seen' \in Version
    BY <1>8 DEF ReadOver, CronTypeOK
  <2> QED
    BY <1>0, <1>8, <2>1, <2>2 DEF ReadOver, host, Receipts, CronTypeOK
<1>9. CASE Stop \/ Crash
  <2>1. stops' \in 0..MaxStops
    BY <1>9, CronNumbers DEF Stop, Crash, CronTypeOK
  <2> QED
    BY <1>0, <1>9, <2>1, NoSampleType
       DEF Stop, Crash, Unwatched, host, Receipts, CronTypeOK
<1>10. CASE Stopped
  BY <1>0, <1>10 DEF Stopped, host, watcher, Receipts, CronTypeOK
<1> QED
  BY <1>1, <1>2, <1>3, <1>4, <1>5, <1>6, <1>7, <1>8, <1>9, <1>10 DEF Aside

LEMMA AsideInv == ASSUME CronInv, Aside PROVE CronInv'
BY AsideReceipts, AsideType
   DEF CronInv, Receipts, Bounded, CursorInv, ToldInv, NoneSkipped

(* A row is written, the last one of the order.                            *)
LEMMA RowInv ==
  ASSUME CronInv, InOrder, NEW r \in Row, RowEnds(r)
  PROVE  CronInv'
<1>0. CronTypeOK /\ Bounded /\ CursorInv /\ ToldInv /\ NoneSkipped
  BY DEF CronInv
<1>1. /\ r \notin table /\ \A q \in table : q < r
      /\ table' = table \cup {r} /\ under' = [under EXCEPT ![r] = bound]
      /\ UNCHANGED <<inventory, bound, cursor, told, base, reported, mode,
                     phase, sample, dirty, timer, reads, seen, stops>>
  BY DEF RowEnds, receipts, delivery
<1>2. /\ bound \in Inst \cup {None} /\ table \subseteq Row
      /\ under'[r] = bound /\ \A q \in table : under'[q] = under[q]
      /\ cursor.at \in table \cup {None} /\ cursor.at < r
      /\ r \in Nat /\ cursor.at \in Nat
  <2>1. /\ bound \in Inst \cup {None} /\ table \subseteq Row
        /\ under \in [Row -> Inst \cup {None}]
    BY <1>0 DEF CronTypeOK
  <2>2. cursor.at \in table \cup {None} /\ r \in Nat \ {0} /\ None = 0
    BY <1>0, CronNumbers DEF CursorInv
  <2>3. cursor.at \in Nat /\ cursor.at < r
    <3>1. CASE cursor.at \in table
      BY <1>1, <2>1, <3>1, CronNumbers
    <3>2. CASE cursor.at = None
      BY <2>2, <3>2
    <3> QED
      BY <2>2, <3>1, <3>2
  <2> QED
    BY <1>1, <2>1, <2>2, <2>3
<1>3. CronTypeOK'
  <2>1. debounce' \in BOOLEAN
    BY <1>0 DEF RowEnds, Noticed, CronTypeOK
  <2> QED
    BY <1>0, <1>1, <2>1 DEF CronTypeOK
<1>4. Bounded'
  <2>1. r \in table' /\ \A q \in table' : q <= r
    BY <1>1, <1>2, CronNumbers
  <2> QED
    BY <2>1 DEF Bounded
<1>5. CursorInv'
  BY <1>0, <1>1, <1>2 DEF CursorInv
<1>6. ToldInv'
  <2>1. \A q \in Row, i \in Inst : told[q][i] > 0 => q \in table
    BY <1>0 DEF ToldInv
  <2> QED
    BY <1>0, <1>1, <1>2, <2>1 DEF ToldInv
<1>7. NoneSkipped'
  <2>1. ~(r <= cursor.at)
    BY <1>2
  <2> QED
    BY <1>0, <1>1, <2>1 DEF NoneSkipped
<1> QED
  BY <1>3, <1>4, <1>5, <1>6, <1>7 DEF CronInv

LEMMA BindInv == ASSUME CronInv, NEW i \in Inst, Bind(i) PROVE CronInv'
<1>0. CronTypeOK /\ Bounded /\ CursorInv /\ ToldInv /\ NoneSkipped
  BY DEF CronInv
<1>1. /\ i = bound + 1 /\ bound' = i
      /\ UNCHANGED <<table, under, inventory, cursor, told, base, reported,
                     mode, phase, sample, dirty, timer, debounce, reads, seen,
                     stops>>
  BY DEF Bind, host, receipts, delivery, watcher
<1>2. CronTypeOK'
  BY <1>0, <1>1 DEF CronTypeOK
<1>3. bound \in Nat /\ cursor.inst \in Nat /\ cursor.inst <= bound
  <2>1. bound \in Inst \cup {None} /\ cursor.inst \in Inst \cup {None}
    BY <1>0 DEF CronTypeOK
  <2>2. bound \in Nat /\ cursor.inst \in Nat
    BY <2>1, OrNone
  <2> QED
    BY <1>0, <2>2 DEF CursorInv
<1>4. CursorInv'
  <2>1. cursor.inst # bound' /\ cursor.inst <= bound'
    BY <1>1, <1>3
  <2> QED
    BY <1>0, <1>1, <2>1 DEF CursorInv
<1> QED
  BY <1>0, <1>1, <1>2, <1>4 DEF CronInv, Bounded, ToldInv, NoneSkipped

(* A new binding begins behind the last row, and with nothing told.        *)
LEMMA BaselineInv == ASSUME CronInv, Baseline, Collect PROVE CronInv'
<1>0. CronTypeOK /\ Bounded /\ CursorInv /\ ToldInv /\ NoneSkipped
  BY DEF CronInv
<1> DEFINE last == Last(table)
<1>1. /\ bound \in Inst /\ cursor.inst # bound /\ cursor.inst <= bound
      /\ bound \in Nat /\ cursor.inst \in Nat /\ bound # None
      /\ table \subseteq Row
  BY <1>0, OrNone DEF CronTypeOK, CursorInv, Baseline, Rebound
<1>2. last \in table \cup {None} /\ \A q \in table : q <= last
  BY <1>0, <1>1, LastRow
<1>3. last \in Nat /\ \A q \in table : ~(q > last)
  BY <1>1, <1>2, OrNone
<1>4. /\ cursor' = [inst |-> bound, at |-> last]
      /\ base' = [base EXCEPT ![bound] = last]
      /\ phase' = "read" /\ sample' = [NoSample EXCEPT !.inst = bound]
      /\ UNCHANGED <<table, under, inventory, bound, told, reported, mode,
                     dirty, timer, debounce, reads, seen, stops>>
  BY DEF Baseline, Collect, host, watcher
<1> HIDE DEF last
<1>5. /\ base \in [Inst -> Row \cup {None}] /\ base'[bound] = last
      /\ \A i \in Inst \ {bound} : base'[i] = base[i]
  BY <1>0, <1>1, <1>4 DEF CronTypeOK
<1>6. CronTypeOK'
  <2>1. sample' \in [inst : Inst \cup {None}, version : Version \cup {None}]
        /\ sample'.inst # None
    BY <1>1, <1>4 DEF NoSample
  <2>2. /\ cursor' \in [inst : Inst \cup {None}, at : Row \cup {None}]
        /\ base' \in [Inst -> Row \cup {None}]
    BY <1>1, <1>2, <1>4, <1>5
  <2> QED
    BY <1>0, <1>4, <2>1, <2>2 DEF CronTypeOK
<1>7. CursorInv'
  BY <1>0, <1>1, <1>2, <1>3, <1>4, <1>5 DEF CursorInv
<1>8. ToldInv'
  <2>1. \A r \in Row : ~(told[r][bound] > 0)
    BY <1>0, <1>1 DEF ToldInv
  <2>2. \A r \in Row, i \in Inst : told[r][i] > 0 => i <= bound /\ i # bound
    <3> SUFFICES ASSUME NEW r \in Row, NEW i \in Inst, told[r][i] > 0
                 PROVE  i <= bound /\ i # bound
      OBVIOUS
    <3>1. i <= cursor.inst /\ i \in Nat
      BY <1>0, OrNone DEF ToldInv
    <3> QED
      BY <1>1, <2>1, <3>1
  <2> QED
    BY <1>0, <1>4, <2>2 DEF ToldInv
<1>9. NoneSkipped'
  BY <1>1, <1>3, <1>4, <1>5 DEF NoneSkipped
<1> QED
  BY <1>0, <1>4, <1>6, <1>7, <1>8, <1>9 DEF CronInv, Bounded

(* The confirmed rows of the batch are told, and its last row is the       *)
(* cursor: whatever the cursor now passes was in the batch.                *)
LEMMA EnqueuedInv == ASSUME CronInv, Enqueued, Collect PROVE CronInv'
<1>0. CronTypeOK /\ Bounded /\ CursorInv /\ ToldInv /\ NoneSkipped
  BY DEF CronInv
<1> DEFINE last == Last(Batch)
           now == Batch \cap Confirmed
<1>1. /\ bound \in Inst /\ cursor.inst = bound /\ bound # None
      /\ table \subseteq Row /\ now # {}
  BY <1>0 DEF CronTypeOK, Enqueued, Rebound
<1>2. Fresh \subseteq table /\ Batch \subseteq Fresh /\ now \subseteq Row
  BY <1>1 DEF Fresh, Batch
<1>3. last \in Batch /\ \A q \in Batch : q <= last
  <2>1. last \in Batch \cup {None} /\ \A q \in Batch : q <= last
    BY <1>0, <1>1, <1>2, LastRow
  <2>2. \A q \in Batch : q \in Nat /\ q # 0
    BY <1>1, <1>2, CronNumbers
  <2> QED
    BY <1>1, <2>1, <2>2 DEF None
<1>4. /\ cursor.at \in Nat /\ last \in Nat /\ cursor.at < last /\ last \in table
      /\ base[bound] \in Nat /\ base[bound] <= cursor.at
      /\ \A r \in Fresh : r > cursor.at /\ r \in Nat
  <2>1. cursor.at \in Row \cup {None} /\ base[bound] \in Row \cup {None}
    BY <1>0, <1>1 DEF CronTypeOK
  <2>2. last \in table /\ last \in Row /\ last > cursor.at
    BY <1>1, <1>2, <1>3 DEF Fresh
  <2>3. base[bound] <= cursor.at
    BY <1>0, <1>1 DEF CursorInv
  <2> QED
    BY <1>1, <1>2, <2>1, <2>2, <2>3, OrNone DEF Fresh
<1>5. /\ cursor' = [cursor EXCEPT !.at = last]
      /\ told' = [r \in Row |-> IF r \in now
                    THEN [told[r] EXCEPT ![bound] = IF @ < 2 THEN @ + 1 ELSE @]
                    ELSE told[r]]
      /\ phase' = "read" /\ sample' = [NoSample EXCEPT !.inst = bound]
      /\ UNCHANGED <<table, under, inventory, bound, base, reported, mode,
                     dirty, timer, debounce, reads, seen, stops>>
  BY DEF Enqueued, Collect, host, watcher
<1>6. \A r \in now : told[r][bound] = 0 /\ under[r] = bound /\ r \in table
  <2> SUFFICES ASSUME NEW r \in now
               PROVE  told[r][bound] = 0 /\ under[r] = bound /\ r \in table
    OBVIOUS
  <2>1. r \in Fresh /\ r \in Row /\ r \in table /\ r > cursor.at /\ r \in Nat
    BY <1>1, <1>2, <1>4
  <2>2. r > base[bound] /\ ~(r <= cursor.at)
    BY <1>4, <2>1
  <2>3. ~(told[r][bound] > 0) /\ told[r][bound] \in 0..2
    BY <1>0, <1>1, <2>1, <2>2 DEF ToldInv, CronTypeOK
  <2> QED
    BY <1>0, <1>1, <2>1, <2>2, <2>3 DEF CursorInv
<1> HIDE DEF last, now
<1>7. \A r \in Row, i \in Inst :
        told'[r][i] = IF r \in now /\ i = bound THEN 1 ELSE told[r][i]
  BY <1>0, <1>1, <1>5, <1>6 DEF CronTypeOK
<1>8. CronTypeOK'
  <2>1. sample' \in [inst : Inst \cup {None}, version : Version \cup {None}]
        /\ sample'.inst # None
    BY <1>1, <1>5 DEF NoSample
  <2>2. cursor' \in [inst : Inst \cup {None}, at : Row \cup {None}]
    BY <1>0, <1>1, <1>4, <1>5 DEF CronTypeOK
  <2>3. told' \in [Row -> [Inst -> 0..2]]
    <3> DEFINE more(r) == [told[r] EXCEPT ![bound] = IF @ < 2 THEN @ + 1 ELSE @]
    <3>1. ASSUME NEW r \in Row PROVE more(r) \in [Inst -> 0..2]
      <4>1. told[r] \in [Inst -> 0..2]
        BY <1>0 DEF CronTypeOK
      <4>2. \A n \in 0..2 : (IF n < 2 THEN n + 1 ELSE n) \in 0..2
        OBVIOUS
      <4> QED
        BY <4>1, <4>2
    <3>2. told' = [r \in Row |-> IF r \in now THEN more(r) ELSE told[r]]
      BY <1>5
    <3>3. \A r \in Row : told[r] \in [Inst -> 0..2]
      BY <1>0 DEF CronTypeOK
    <3> HIDE DEF more
    <3> QED
      BY <3>1, <3>2, <3>3
  <2> QED
    BY <1>0, <1>5, <2>1, <2>2, <2>3 DEF CronTypeOK
<1>9. cursor'.inst = bound /\ cursor'.at = last
  BY <1>0, <1>1, <1>5 DEF CronTypeOK
<1>10. CursorInv'
  BY <1>0, <1>1, <1>4, <1>5, <1>9 DEF CursorInv
<1>11. ToldInv'
  <2> SUFFICES ASSUME NEW r \in Row, NEW i \in Inst, told'[r][i] > 0
               PROVE  /\ r \in table /\ i <= bound
                      /\ told'[r][i] = 1 /\ under[r] = i
                      /\ i = bound => r <= last
    BY <1>5, <1>9 DEF ToldInv
  <2>1. CASE r \in now /\ i = bound
    BY <1>1, <1>3, <1>6, <1>7, <2>1, OrNone DEF now
  <2>2. CASE ~(r \in now /\ i = bound)
    <3>1. told'[r][i] = told[r][i] /\ told[r][i] > 0
      BY <1>7, <2>2
    <3>2. /\ r \in table /\ i <= bound /\ told[r][i] = 1 /\ under[r] = i
          /\ i = bound => r <= cursor.at
      BY <1>0, <1>1, <3>1 DEF ToldInv
    <3>3. i = bound => r <= last
      BY <1>4, <3>2, OrNone
    <3> QED
      BY <3>1, <3>2, <3>3
  <2> QED
    BY <2>1, <2>2
<1>12. NoneSkipped'
  <2> SUFFICES ASSUME NEW r \in table \cap Confirmed, r <= last, r > base[bound]
               PROVE  told'[r][bound] > 0
    BY <1>5, <1>9 DEF NoneSkipped
  <2>1. r \in Row /\ r \in Nat
    BY <1>1, OrNone
  <2>2. CASE r <= cursor.at
    BY <1>0, <1>1, <1>7, <2>1, <2>2 DEF NoneSkipped
  <2>3. CASE r > cursor.at
    <3>1. r \in Fresh
      BY <2>3 DEF Fresh
    <3>2. r \in Batch
      <4>1. CASE r = last
        BY <1>3, <4>1
      <4>2. CASE r < last
        BY <1>0, <1>1, <1>3, <3>1, <4>2, BatchFirst
      <4> QED
        BY <1>4, <2>1, <4>1, <4>2
    <3> QED
      BY <1>1, <1>7, <2>1, <3>2 DEF now
  <2> QED
    BY <1>4, <2>1, <2>2, <2>3
<1> QED
  BY <1>0, <1>5, <1>8, <1>10, <1>11, <1>12 DEF CronInv, Bounded

LEMMA CronStep ==
  ASSUME InOrder PROVE CronInv /\ [CronNext]_cronVars => CronInv'
<1> SUFFICES ASSUME CronInv, [CronNext]_cronVars PROVE CronInv'
  OBVIOUS
<1>1. CASE CronNext
  <2>1. CASE Aside
    BY <2>1, AsideInv
  <2>2. ASSUME NEW r \in Row, RowEnds(r) PROVE CronInv'
    BY <2>2, RowInv
  <2>3. ASSUME NEW i \in Inst, Bind(i) PROVE CronInv'
    BY <2>3, BindInv
  <2>4. CASE Collect /\ (Baseline \/ Enqueued)
    BY <2>4, BaselineInv, EnqueuedInv
  <2> QED
    BY <1>1, <2>1, <2>2, <2>3, <2>4 DEF CronNext, Flight, Collect, Aside
<1>2. CASE UNCHANGED cronVars
  <2>1. UNCHANGED <<Receipts, inventory, reported, mode, phase, sample, dirty,
                    timer, debounce, reads, seen, stops>>
    BY <1>2 DEF cronVars, host, receipts, delivery, watcher, Receipts
  <2> QED
    BY <2>1 DEF Receipts, CronInv, CronTypeOK, Bounded, CursorInv, ToldInv,
                NoneSkipped
<1> QED
  BY <1>1, <1>2

(* Exactly the confirmed receipts behind the baseline of an installation   *)
(* are enqueued, each once and none for a run of another binding, whatever *)
(* the spool refuses and wherever the gateway crashes -- if the host       *)
(* writes its rows in the order of the query (ReceiptsExact;               *)
(* cron/delivery-receipts.js:18).                                          *)
THEOREM ReceiptsOnce ==
  ASSUME InOrder PROVE SourcesSpec => []ReceiptsExact
<1>1. SourcesInit => CronInv
  BY CronInitInv DEF SourcesInit
<1>2. CronInv /\ [SourcesNext]_sourceVars => CronInv'
  BY CronStep DEF SourcesNext, sourceVars, Cron, Inbox
<1>3. CronInv => ReceiptsExact
  BY DEF CronInv, ReceiptsExact, ToldInv, ToldOnceEach
<1> QED
  BY <1>1, <1>2, <1>3, PTL DEF SourcesSpec
=============================================================================
