----------------------------- MODULE HookInbox -----------------------------
(***************************************************************************)
(* The inbox of the command hooks (adapters/command-hook/bridge.js): each  *)
(* hook of Codex or Claude Code is a process that stages one event as a    *)
(* file of its own and starts a detached drain worker (runtime-hook.mjs).  *)
(* The worker takes the lock of the spool, or gives up at once, imports    *)
(* what it finds in the inbox and tries one upload (runtime-hook-drain.mjs,*)
(* up to three passes).                                                    *)
(*                                                                         *)
(* Events are what normalization leaves of a hook, all of them valid.  The *)
(* lock is that of WriterLock, on a host that tells the processes of a pid *)
(* apart: a crashed owner whose record is complete holds it no longer, a   *)
(* lock file without a readable record is held by nobody and for ever.     *)
(* What a damaged spool loses is in Delivery.  The worker of a later hook  *)
(* is "later"; of its own event only that one was imported is looked at.   *)
(***************************************************************************)
EXTENDS Naturals, FiniteSets

CONSTANTS
  Event,      \* what hooks stage, and the workers they start
  Passes,     \* imports of one worker
  Later,      \* hooks go on for ever
  MaxAccounts,\* bound: installations enrolled, one after another
  MaxFaults   \* bound: failed writes, refused batches, crashes, enrollments

ASSUME InboxAssumption ==
  /\ {"later", "nobody", "unreadable"} \cap Event = {}
  /\ Passes \in Nat \ {0} /\ Later \in BOOLEAN /\ MaxFaults \in Nat
  /\ MaxAccounts \in Nat \ {0}

Worker == Event \cup {"later"}
Nobody == "nobody"
Unreadable == "unreadable"
Account == 1..MaxAccounts

VARIABLES
  hook,      \* the await each hook is in
  partial,   \* files that are being written
  inbox,     \* files *.json of the inbox
  rejected,  \* files of the directory rejected/
  spool,     \* events of the spool
  server,    \* events the server has acknowledged
  kept,      \* events of dead_letters and of the quarantine archive
  lock,      \* the worker whose lock file it is
  account,   \* installationId of the credential file
  stamp,     \* installationId of each event, 0 before it is staged
  worker,    \* the await each worker is in
  staged,    \* history: events whose file has got its name
  refused,   \* history: events that the spool would not take
  faults

files == <<partial, inbox, rejected>>
store == <<spool, server, kept>>
bindings == <<account, stamp>>
inboxVars == <<hook, files, store, lock, bindings, worker, staged, refused,
               faults>>

NoEvent == "none"
Ended == [at |-> "ended", pass |-> 0, todo |-> {}, event |-> NoEvent,
          got |-> FALSE, as |-> 0]

WorkerState ==
  [at : {"ended", "open", "create", "scan", "next", "unlink", "reject",
         "upload", "close"},
   pass : 0..(Passes - 1), todo : SUBSET Event, event : Event \cup {NoEvent},
   got : BOOLEAN, as : 0..MaxAccounts]

InboxTypeOK ==
  /\ hook \in [Event -> {"new", "write", "rename", "spawn", "ended"}]
  /\ partial \cup inbox \cup rejected \cup spool \cup server \cup kept
       \cup staged \cup refused \subseteq Event
  /\ lock \in Worker \cup {Nobody, Unreadable}
  /\ account \in Account /\ stamp \in [Event -> 0..MaxAccounts]
  /\ worker \in [Worker -> WorkerState]
  /\ \A w \in Worker : worker[w].at \in {"ended", "open"} <=> lock # w
  /\ faults \in 0..MaxFaults

InboxInit ==
  /\ hook = [e \in Event |-> "new"]
  /\ partial = {} /\ inbox = {} /\ rejected = {}
  /\ spool = {} /\ server = {} /\ kept = {} /\ staged = {} /\ refused = {}
  /\ lock = Nobody /\ worker = [w \in Worker |-> Ended]
  /\ account = 1 /\ stamp = [e \in Event |-> 0]
  /\ faults = 0

-----------------------------------------------------------------------------
(* stageRuntimeHook                                                        *)

Fault == faults < MaxFaults /\ faults' = faults + 1
Step(e, from, to) == hook[e] = from /\ hook' = [hook EXCEPT ![e] = to]
NotImporting == UNCHANGED <<rejected, store, lock, account, refused>>
Stamped(e) == stamp' = [stamp EXCEPT ![e] = account]

(* writeFile of a name that is not the target's: what it holds is not      *)
(* complete before it ends.                                                *)
StageInPlace(e) ==
  /\ Step(e, "new", "write")
  /\ partial' = partial \cup {e} /\ inbox' = inbox \cup {e}
  /\ Stamped(e)
  /\ UNCHANGED <<staged, worker, faults>> /\ NotImporting

Stage(e) ==
  /\ Step(e, "new", "write")
  /\ partial' = partial \cup {e}
  /\ Stamped(e)
  /\ UNCHANGED <<inbox, staged, worker, faults>> /\ NotImporting

Written(e) ==
  /\ Step(e, "write", "rename")
  /\ partial' = partial \ {e}
  /\ UNCHANGED <<inbox, staged, worker, faults, stamp>> /\ NotImporting

Renamed(e) ==
  /\ Step(e, "rename", "spawn")
  /\ inbox' = inbox \cup {e} /\ staged' = staged \cup {e}
  /\ UNCHANGED <<partial, worker, faults, stamp>> /\ NotImporting

(* A worker keeps the credential that it has loaded.                       *)
Begun == [Ended EXCEPT !.at = "open", !.as = account]

(* The detached worker of this hook. *)
Spawn(e) ==
  /\ Step(e, "spawn", "ended")
  /\ worker' = [worker EXCEPT ![e] = Begun]
  /\ UNCHANGED <<files, staged, faults, stamp>> /\ NotImporting

(* A write or a rename that fails, or the end of the process.              *)
HookFails(e) ==
  /\ hook[e] \in {"write", "rename", "spawn"}
  /\ hook' = [hook EXCEPT ![e] = "ended"]
  /\ Fault
  /\ UNCHANGED <<files, staged, worker, stamp>> /\ NotImporting

LaterHook ==
  /\ Later
  /\ worker["later"] = Ended
  /\ worker' = [worker EXCEPT !["later"] = Begun]
  /\ UNCHANGED <<hook, files, staged, faults, stamp>> /\ NotImporting

(* enroll-command-runtime.mjs, after the credential was revoked or removed *)
(* (while there is none, hooks and workers end at once).                   *)
Enroll ==
  /\ account < MaxAccounts
  /\ account' = account + 1
  /\ Fault
  /\ UNCHANGED <<hook, files, store, lock, stamp, worker, staged, refused>>

-----------------------------------------------------------------------------
(* runtime-hook-drain.mjs                                                  *)

At(w, stage) == worker[w].at = stage
Goto(w, stage) == worker' = [worker EXCEPT ![w].at = stage]
Closing == [Ended EXCEPT !.at = "close"]
Closes(w) == worker' = [worker EXCEPT ![w] = Closing]

(* openSpool creates the lock file; a locked spool ends the worker.        *)
Open(w) ==
  /\ At(w, "open")
  /\ IF lock = Nobody
     THEN lock' = w /\ Goto(w, "create")
     ELSE lock' = lock /\ worker' = [worker EXCEPT ![w] = Ended]
  /\ UNCHANGED <<hook, files, store, bindings, staged, refused, faults>>

(* Its record is written and synced.                                       *)
Recorded(w) ==
  /\ At(w, "create")
  /\ Goto(w, "scan")
  /\ UNCHANGED <<hook, files, store, lock, bindings, staged, refused, faults>>

(* readdir; names are digests, so their order is any order.                *)
Scan(w) ==
  /\ At(w, "scan")
  /\ \E others \in IF Later THEN BOOLEAN ELSE {FALSE} :
       worker' = [worker EXCEPT ![w].at = "next", ![w].todo = inbox,
                                ![w].got = others]
  /\ UNCHANGED <<hook, files, store, lock, bindings, staged, refused, faults>>

(* enqueueSourceBatch, which ignores an event it has; what is not complete *)
(* cannot be parsed, and a full spool throws.                              *)
Import(w, e) ==
  LET Taken(stage) == worker' = [worker EXCEPT ![w].at = stage,
                        ![w].todo = @ \ {e}, ![w].event = e] IN
  /\ At(w, "next") /\ e \in worker[w].todo
  /\ \/ e \notin partial /\ Taken("unlink")
        /\ spool' = spool \cup {e} /\ UNCHANGED <<refused, faults>>
     \/ e \in partial /\ Taken("reject")
        /\ UNCHANGED <<spool, refused, faults>>
     \/ e \notin partial /\ Fault /\ Taken("reject")
        /\ refused' = refused \cup {e} /\ UNCHANGED spool
  /\ UNCHANGED <<hook, files, server, kept, lock, bindings, staged>>

Unlink(w) ==
  /\ At(w, "unlink")
  /\ \/ /\ inbox' = inbox \ {worker[w].event}
        /\ worker' = [worker EXCEPT ![w].at = "next", ![w].event = NoEvent,
                                    ![w].got = TRUE]
        /\ UNCHANGED faults
     \/ Fault /\ Goto(w, "reject") /\ UNCHANGED inbox
  /\ UNCHANGED <<hook, partial, rejected, store, lock, bindings, staged,
                 refused>>

(* The rename may fail silently, the directory may not be made, which ends *)
(* the worker.                                                             *)
Reject(w) ==
  LET e == worker[w].event
      Back == worker' = [worker EXCEPT ![w].at = "next",
                                       ![w].event = NoEvent] IN
  /\ At(w, "reject")
  /\ \/ /\ inbox' = inbox \ {e} /\ rejected' = rejected \cup {e}
        /\ Back /\ UNCHANGED faults
     \/ /\ Fault /\ UNCHANGED <<inbox, rejected>>
        /\ Back \/ Closes(w)
  /\ UNCHANGED <<hook, partial, store, lock, bindings, staged, refused>>

(* What the pass has imported decides whether there is another; the first  *)
(* uploads in any case.                                                    *)
NothingNew(w) == ~worker[w].got
Over(w) == worker[w].pass > 0 /\ ~worker[w].got

Imported(w) ==
  /\ At(w, "next") /\ worker[w].todo = {}
  /\ IF Over(w) THEN Closes(w)
     ELSE worker' = [worker EXCEPT ![w].at = "upload", ![w].got = FALSE]
  /\ UNCHANGED <<hook, files, store, lock, bindings, staged, refused, faults>>

(* drain({maxAttempts: 1}) of performSend, with the credential the worker  *)
(* has loaded, and the pause before the next pass.  Rows of any other      *)
(* installation are archived first; of its own the answer acknowledges     *)
(* some, others become dead letters (rejected, or too large a batch); no   *)
(* answer, or a refusal, leaves them.  Nobody else has the spool open, so  *)
(* nothing comes between.  An answer that cannot be parsed ends the worker.*)
Own(w) == {e \in spool : stamp[e] = worker[w].as}

Upload(w, acked, dead) ==
  /\ At(w, "upload")
  /\ acked \cup dead \subseteq Own(w)
  /\ spool' = Own(w) \ (acked \cup dead)
  /\ server' = server \cup acked
  /\ kept' = kept \cup dead \cup (spool \ Own(w))
  /\ IF worker[w].pass < Passes - 1
     THEN worker' = [worker EXCEPT ![w].at = "scan", ![w].pass = @ + 1]
     ELSE Closes(w)
  /\ UNCHANGED <<hook, files, lock, bindings, staged, refused, faults>>

UploadThrows(w) ==
  /\ At(w, "upload") /\ Own(w) # {}
  /\ spool' = Own(w) /\ kept' = kept \cup (spool \ Own(w))
  /\ Closes(w)
  /\ UNCHANGED <<hook, files, server, lock, bindings, staged, refused, faults>>

Close(w) ==
  /\ At(w, "close")
  /\ lock' = Nobody
  /\ worker' = [worker EXCEPT ![w] = Ended]
  /\ UNCHANGED <<hook, files, store, bindings, staged, refused, faults>>

(* Before the record is complete the lock file stays as it is, unless the  *)
(* worker only failed to write it and can remove it (spool.js:66-68); a    *)
(* complete record is stale with its process.                              *)
WorkerCrashes(w) ==
  /\ worker[w] # Ended
  /\ lock' \in IF lock # w THEN {lock}
               ELSE IF At(w, "create") THEN {Nobody, Unreadable} ELSE {Nobody}
  /\ worker' = [worker EXCEPT ![w] = Ended]
  /\ Fault
  /\ UNCHANGED <<hook, files, store, bindings, staged, refused>>

Hooks(e) == Stage(e) \/ Written(e) \/ Renamed(e) \/ Spawn(e)
Drains(w) ==
  \/ Open(w) \/ Recorded(w) \/ Scan(w) \/ Unlink(w) \/ Reject(w)
  \/ Imported(w) \/ UploadThrows(w) \/ Close(w)
  \/ \E e \in Event : Import(w, e)
  \/ \E acked \in SUBSET Own(w), dead \in SUBSET Own(w) :
       Upload(w, acked, dead)

InboxNext ==
  \/ \E e \in Event : Hooks(e) \/ HookFails(e)
  \/ LaterHook
  \/ Enroll
  \/ \E w \in Worker : Drains(w) \/ WorkerCrashes(w)

-----------------------------------------------------------------------------
(* A staged event is a file of the inbox, in the spool, acknowledged or    *)
(* kept beside the queue, unless the spool refused it (bridge.js:122-127), *)
(* and what is rejected was refused or is in the spool or has been: nothing*)
(* is imported half-written.  The types are part of it, that the lock has  *)
(* its one holder among them.                                              *)
EventKept ==
  /\ InboxTypeOK
  /\ staged \subseteq inbox \cup spool \cup server \cup kept \cup refused
  /\ rejected \subseteq refused \cup spool \cup server \cup kept

(* The lock file of a worker that died before its record was complete: no  *)
(* later worker may remove it (WriterLock).                                *)
LockedOut == lock = Unreadable

(* docs/CODEX.md:77: what could not be uploaded is by a later hook, and so *)
(* is what a crashed or locked-out worker has left in the inbox.  Besides  *)
(* what the spool refused, an event may end as a dead letter or, when a    *)
(* worker of another installation finds it, in the archive; and nothing is *)
(* delivered any more once the lock file is unreadable.                    *)
Delivered == []<>(LockedOut \/ staged \subseteq server \cup kept \cup refused)
=============================================================================
