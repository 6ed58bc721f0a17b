-------------------------------- MODULE Spool --------------------------------
(***************************************************************************)
(* The durable event queue of src/src/delivery/spool.js: the tables        *)
(* "events" and "dead_letters" of spool.sqlite, the separate quarantine    *)
(* archive, and the file a spool that fails its integrity check is renamed *)
(* to.  The operations are state functions (the value of a table after the *)
(* operation), so that one synchronous section of a caller can compose     *)
(* several of them in a single action.                                     *)
(*                                                                         *)
(* A row is an event identifier: payloads matter only by their owner,      *)
(* their type (a health snapshot or not) and their encoded size.  Every    *)
(* caller of openSpool keeps retentionMs = 0, so an acknowledged row is    *)
(* deleted by the transaction that acknowledges it, and "rows" is the set  *)
(* of rows whose acked_at is NULL.  Installation 0 stands for the          *)
(* "sw_ins_unconfigured" that events carry before any binding exists.      *)
(*                                                                         *)
(* Definitions that no action uses, each before the one it resembles, are  *)
(* plausible defects of that one, which the properties must detect.        *)
(***************************************************************************)
EXTENDS Naturals, FiniteSetsExt

CONSTANTS
  Event,        \* event identifiers; numbers, compared as event_id is
  MaxBinding,   \* how many installations are approved, one after another
  Owner,        \* Owner[e]: the installationId stamped on e
  Health,       \* the events of type health.snapshot
  Size,         \* Size[e]: bytes that e adds to a request body
  MaxRows,      \* the disk quota (maxBytes), counted in rows
  MaxBatch,     \* rows one request may carry
  MaxBodyBytes  \* bytes one request may carry

Installation == 1..MaxBinding

ASSUME SpoolAssumption ==
  /\ Event \subseteq Nat
  /\ MaxBinding \in Nat \ {0}
  /\ Owner \in [Event -> 0..MaxBinding]
  /\ Health \subseteq Event
  /\ Size \in [Event -> Nat]
  /\ MaxRows \in Nat \ {0}
  /\ MaxBatch \in Nat \ {0}
  /\ MaxBodyBytes \in Nat \ {0}

VARIABLES
  rows,         \* the pending rows of table events
  createdAt,    \* created_at of each pending row, 0 for the others
  deadLetters,  \* table dead_letters: the reason, or "none"
  archive,      \* events of spool.sqlite.quarantine.sqlite
  setAside,     \* events of the file renamed to spool.sqlite.corrupt-<time>
  lost          \* events whose only copy was in the log of a renamed file

spoolVars == <<rows, createdAt, deadLetters, archive, setAside, lost>>

Reason ==
  {"none", "batch-event-too-large", "previous-installation", "rejected"}

SpoolTypeOK ==
  /\ rows \subseteq Event
  /\ createdAt \in [Event -> Nat]
  /\ deadLetters \in [Event -> Reason]
  /\ archive \subseteq Event
  /\ setAside \cup lost \subseteq Event

SpoolInit ==
  /\ rows = {}
  /\ createdAt = [e \in Event |-> 0]
  /\ deadLetters = [e \in Event |-> "none"]
  /\ archive = {}
  /\ setAside = {} /\ lost = {}

(* The events of spool.sqlite and of the write-ahead log beside it.        *)
Stored == rows \cup {e \in Event : deadLetters[e] # "none"}

(* Events with a durable copy outside the live queue.                      *)
Kept == {e \in Event : deadLetters[e] # "none"} \cup archive \cup setAside

-----------------------------------------------------------------------------
(* created_at after the transaction that leaves exactly the rows S.        *)
Stamps(S) == [e \in Event |-> IF e \in S THEN createdAt[e] ELSE 0]

(* INSERT OR IGNORE: a row that is already there keeps its place.          *)
StampsWith(S, t) ==
  [e \in Event |-> IF e \in S \ rows THEN t ELSE createdAt[e]]

(* assertQuota: whether the rows of S still fit.                           *)
WithinQuota(S) == Cardinality(rows \cup S) <= MaxRows

ForeignUnlessBound(i) == {e \in rows : Owner[e] = 0 /\ i # 0}

(* The rows quarantineOtherInstallations(i) moves to the archive.          *)
Foreign(i) == {e \in rows : Owner[e] # i}

NoPriority(e, i) == FALSE

(* The ORDER BY of pending(): with i # 0 the health snapshots of i come    *)
(* first, newest first; everything else is oldest first; ties by event_id. *)
Prioritized(e, i) == i # 0 /\ e \in Health /\ Owner[e] = i

Earlier(e, f) ==
  createdAt[e] < createdAt[f] \/ (createdAt[e] = createdAt[f] /\ e < f)

Newer(e, f) ==
  createdAt[e] > createdAt[f] \/ (createdAt[e] = createdAt[f] /\ e < f)

Before(e, f, i) ==
  IF Prioritized(e, i) = Prioritized(f, i)
  THEN IF Prioritized(e, i) THEN Newer(e, f) ELSE Earlier(e, f)
  ELSE Prioritized(e, i)

(* pending(limit, prioritizeHealthFor: i) when the table holds S.          *)
Pending(S, limit, i) ==
  {e \in S : Cardinality({f \in S : Before(f, e, i)}) < limit}

IsFirst(e, S, i) == e \in S /\ \A f \in S \ {e} : Before(e, f, i)

(* dead_letters after INSERT OR REPLACE of the events of S.                *)
DeadLettered(S, reason) ==
  [e \in Event |-> IF e \in S THEN reason ELSE deadLetters[e]]

=============================================================================
