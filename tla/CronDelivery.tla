---------------------------- MODULE CronDelivery ----------------------------
(***************************************************************************)
(* What the collector tells of the native scheduled jobs of its host: the  *)
(* inventory (delivery/cron.js, the watcher of cron/openclaw.js) and the   *)
(* receipts of results that the host has delivered                         *)
(* (cron/delivery-receipts.js), both collected in one flight               *)
(* (adapters/openclaw/plugin.js:384).                                      *)
(*                                                                         *)
(* Rows of the host's task_runs are numbered in the order (ended_at,       *)
(* task_id) of the query.  The inventory is a version; a part of it that   *)
(* cannot be read is a version too.  The server keeps the last version of  *)
(* each installation.  Clocks are left out, and with them rows that end in *)
(* the future.                                                             *)
(***************************************************************************)
EXTENDS Naturals, FiniteSets, FiniteSetsExt

CONSTANTS
  Row,         \* ended runs of native jobs, in the order of the query
  Confirmed,   \* those whose receipt says that the result was delivered
  Inst,        \* installations 1, 2, ..., in the order of their approval
  Limit,       \* rows of one query
  InOrder,     \* the host writes its rows in that order
  MaxChanges,  \* bound: changes of the inventory
  MaxStops,    \* bound: stops and crashes
  MaxEvents    \* bound: those, changes, rows and approvals together

None == 0      \* no row, no installation, no version

ASSUME CronAssumption ==
  /\ Row \subseteq Nat \ {None} /\ Confirmed \subseteq Row
  /\ IsFiniteSet(Inst) /\ Inst = 1..Cardinality(Inst)
  /\ Limit \in Nat \ {0}
  /\ InOrder \in BOOLEAN /\ {MaxChanges, MaxStops, MaxEvents} \subseteq Nat

Version == 1..(MaxChanges + 1)
Last(S) == IF S = {} THEN None ELSE Max(S)

VARIABLES
  table,      \* host: rows there are
  under,      \* history: the installation at the time a row was written
  inventory,  \* host: the version there is
  bound,      \* the installation of the active credential
  cursor,     \* spool: the cursor of the receipts' source
  told,       \* spool: how often a receipt was enqueued for an installation
  base,       \* history: the first cursor of each installation
  reported,   \* server: the last inventory of each installation
  mode,       \* service: down, up or stopping
  phase,      \* delivery: the await of the flight
  sample,     \* delivery: what the flight will post
  dirty, timer,
  debounce,   \* watcher: its timer
  reads,      \* watcher: versions read by refreshes that have not ended
  seen,       \* watcher: lastSnapshot
  stops

host == <<table, under, inventory>>
receipts == <<cursor, told, base>>
delivery == <<phase, sample, dirty, timer>>
watcher == <<debounce, reads, seen>>
cronVars == <<host, bound, receipts, reported, mode, delivery, watcher, stops>>

NoSample == [inst |-> None, version |-> None]

CronTypeOK ==
  /\ table \subseteq Row /\ under \in [Row -> Inst \cup {None}]
  /\ inventory \in Version /\ bound \in Inst \cup {None}
  /\ cursor \in [inst : Inst \cup {None}, at : Row \cup {None}]
  /\ told \in [Row -> [Inst -> 0..2]] /\ base \in [Inst -> Row \cup {None}]
  /\ reported \in [Inst -> Version \cup {None}]
  /\ mode \in {"down", "up", "stopping"}
  /\ phase \in {"idle", "collect", "read", "post", "over"}
  /\ sample \in [inst : Inst \cup {None}, version : Version \cup {None}]
  /\ {dirty, timer, debounce} \subseteq BOOLEAN
  /\ reads \subseteq Version /\ seen \in Version \cup {None}
  /\ stops \in 0..MaxStops
  /\ phase \in {"read", "post"} <=> sample.inst # None

CronInit ==
  /\ table = {} /\ under = [r \in Row |-> None] /\ inventory = 1
  /\ bound = None
  /\ cursor = [inst |-> None, at |-> None]
  /\ told = [r \in Row |-> [i \in Inst |-> 0]]
  /\ base = [i \in Inst |-> None] /\ reported = [i \in Inst |-> None]
  /\ mode = "down" /\ phase = "idle" /\ sample = NoSample
  /\ dirty = FALSE /\ timer = FALSE
  /\ debounce = FALSE /\ reads = {} /\ seen = None
  /\ stops = 0

-----------------------------------------------------------------------------
(* The host, and the account that approves the next installation.          *)

Happens ==
  Cardinality(table) + bound + (inventory - 1) + stops < MaxEvents

(* Both directories are watched, but a watch may be unavailable.           *)
Noticed == \/ debounce' = (mode = "up")
           \/ UNCHANGED debounce

RowEnds(r) ==
  /\ r \notin table /\ Happens
  /\ InOrder => \A q \in table : q < r
  /\ table' = table \cup {r}
  /\ under' = [under EXCEPT ![r] = bound]
  /\ Noticed
  /\ UNCHANGED <<inventory, bound, receipts, reported, mode, delivery, reads,
                 seen, stops>>

InventoryChanges ==
  /\ inventory <= MaxChanges /\ Happens
  /\ inventory' = inventory + 1
  /\ Noticed
  /\ UNCHANGED <<table, under, bound, receipts, reported, mode, delivery,
                 reads, seen, stops>>

Bind(i) ==
  /\ i = bound + 1 /\ Happens
  /\ bound' = i
  /\ UNCHANGED <<host, receipts, reported, mode, delivery, watcher, stops>>

-----------------------------------------------------------------------------
(* The delivery: one flight, which is repeated while it has become dirty.  *)

(* run(): a flight that is under way is the answer to it.                  *)
Run(changed) ==
  IF phase = "idle"
  THEN phase' = "collect" /\ dirty' = FALSE
  ELSE phase' = phase /\ dirty' = (dirty \/ changed)

(* do { dirty = false; execute() } while (dirty && !stopped)               *)
Executed ==
  /\ sample' = NoSample
  /\ IF dirty /\ mode = "up"
     THEN phase' = "collect" /\ dirty' = FALSE
     ELSE phase' = "over" /\ dirty' = dirty

Start ==
  /\ mode = "down"
  /\ mode' = "up"
  /\ Run(FALSE)
  /\ UNCHANGED <<host, bound, receipts, reported, sample, timer, watcher,
                 stops>>

TimerFires ==
  /\ timer
  /\ timer' = FALSE
  /\ Run(FALSE)
  /\ UNCHANGED <<host, bound, receipts, reported, mode, sample, watcher,
                 stops>>

(* collectNativeCronDeliveryReceipts: the rows of the query, in order.     *)
Fresh == {r \in table : r > cursor.at}
Batch == {r \in Fresh : Cardinality({q \in Fresh : q < r}) < Limit}
Unread == cursor.inst = None
Rebound == cursor.inst # bound

Disabled ==
  /\ phase = "collect" /\ bound = None
  /\ Executed
  /\ UNCHANGED receipts

Baseline ==
  /\ phase = "collect" /\ bound # None /\ Rebound
  /\ cursor' = [inst |-> bound, at |-> Last(table)]
  /\ base' = [base EXCEPT ![bound] = Last(table)]
  /\ phase' = "read" /\ sample' = [NoSample EXCEPT !.inst = bound]
  /\ UNCHANGED <<dirty, told>>

NothingFresh ==
  /\ phase = "collect" /\ bound # None /\ ~Rebound
  /\ Batch = {}
  /\ phase' = "read" /\ sample' = [NoSample EXCEPT !.inst = bound]
  /\ UNCHANGED <<dirty, receipts>>

(* enqueueSourceBatch: the events and the cursor in one transaction.       *)
Enqueued ==
  /\ phase = "collect" /\ bound # None /\ ~Rebound
  /\ Batch \cap Confirmed # {}
  /\ told' = [r \in Row |-> IF r \in Batch \cap Confirmed
                THEN [told[r] EXCEPT ![bound] = IF @ < 2 THEN @ + 1 ELSE @]
                ELSE told[r]]
  /\ cursor' = [cursor EXCEPT !.at = Last(Batch)]
  /\ phase' = "read" /\ sample' = [NoSample EXCEPT !.inst = bound]
  /\ UNCHANGED <<dirty, base>>

CursorBefore ==
  /\ phase = "collect" /\ bound # None /\ ~Rebound
  /\ Batch # {}
  /\ Executed
  /\ cursor' = [cursor EXCEPT !.at = Last(Batch)]
  /\ UNCHANGED <<told, base>>

(* The query fails, or the spool is full or cannot write; and it takes no  *)
(* batch without an event, spool.js:224.  What is thrown ends this         *)
(* execution.                                                              *)
CollectThrows ==
  /\ phase = "collect" /\ bound # None
  /\ Executed
  /\ UNCHANGED receipts

Collect ==
  /\ Disabled \/ Baseline \/ NothingFresh \/ Enqueued \/ CollectThrows
  /\ UNCHANGED <<host, bound, reported, mode, timer, watcher, stops>>

ReadSnapshot ==
  /\ phase = "read"
  /\ sample' = [sample EXCEPT !.version = IF seen = None THEN inventory ELSE seen]
  /\ phase' = "post"
  /\ UNCHANGED <<host, bound, receipts, reported, mode, dirty, timer, watcher,
                 stops>>

ReadInventory ==
  /\ phase = "read"
  /\ sample' = [sample EXCEPT !.version = inventory]
  /\ phase' = "post"
  /\ UNCHANGED <<host, bound, receipts, reported, mode, dirty, timer,
                 watcher, stops>>

Posted ==
  /\ phase = "post"
  /\ reported' = [reported EXCEPT ![sample.inst] = sample.version]
  /\ Executed
  /\ UNCHANGED <<host, bound, receipts, mode, timer, watcher, stops>>

NotPosted ==
  /\ phase = "post"
  /\ Executed
  /\ UNCHANGED <<host, bound, receipts, reported, mode, timer,
                 watcher, stops>>

(* running = null, one turn after the loop has ended: a change that is     *)
(* noticed between the two waits for the timer.  tick() waits for whatever *)
(* flight there is, so its timer is set whenever none is under way.        *)
Settled ==
  /\ phase = "over"
  /\ phase' = "idle"
  /\ timer' = (mode = "up")
  /\ UNCHANGED <<host, bound, receipts, reported, mode, sample, dirty,
                 watcher, stops>>

-----------------------------------------------------------------------------
(* watchOpenClawCron *)

DebounceOver ==
  /\ debounce
  /\ debounce' = FALSE
  /\ reads' = reads \cup {inventory}
  /\ UNCHANGED <<host, bound, receipts, reported, mode, delivery, seen, stops>>

ReadOver(v) ==
  /\ v \in reads
  /\ reads' = reads \ {v}
  /\ seen' = v
  /\ IF v # seen THEN Run(TRUE) ELSE UNCHANGED <<phase, dirty>>
  /\ UNCHANGED <<host, bound, receipts, reported, mode, sample, timer,
                 debounce, stops>>

-----------------------------------------------------------------------------
Unwatched == debounce' = FALSE /\ reads' = {} /\ seen' = None

Stop ==
  /\ mode = "up" /\ stops < MaxStops /\ Happens
  /\ mode' = "stopping" /\ stops' = stops + 1
  /\ timer' = FALSE /\ Unwatched
  /\ UNCHANGED <<host, bound, receipts, reported, phase, sample, dirty>>

Stopped ==
  /\ mode = "stopping" /\ phase = "idle"
  /\ mode' = "down" /\ dirty' = FALSE
  /\ UNCHANGED <<host, bound, receipts, reported, phase, sample, timer, watcher, stops>>

(* Of the gateway: what is not in a file is lost.                          *)
Crash ==
  /\ mode # "down" /\ stops < MaxStops /\ Happens
  /\ mode' = "down" /\ stops' = stops + 1
  /\ phase' = "idle" /\ sample' = NoSample /\ dirty' = FALSE
  /\ timer' = FALSE /\ Unwatched
  /\ UNCHANGED <<host, bound, receipts, reported>>

Flight == Collect \/ ReadInventory \/ Posted \/ NotPosted \/ Settled

CronNext ==
  \/ \E r \in Row : RowEnds(r)
  \/ InventoryChanges
  \/ \E i \in Inst : Bind(i)
  \/ Start \/ TimerFires \/ Flight
  \/ DebounceOver \/ \E v \in Version : ReadOver(v)
  \/ Stop \/ Stopped \/ Crash

-----------------------------------------------------------------------------
(* A query without a single confirmed receipt: the spool refuses the batch *)
(* (spool.js:224), the flight ends before the inventory is read, and so    *)
(* does every later one until a confirmed receipt is among its rows.       *)
Blocked == Batch # {} /\ Batch \cap Confirmed = {}

(* A receipt is enqueued at most once, and only for the installation that  *)
(* was bound when its run ended: a replacement gets a fresh baseline and   *)
(* never the window of the previous binding (delivery-receipts.js:18).     *)
ToldOnceEach ==
  \A r \in Row, i \in Inst :
    told[r][i] > 0 => told[r][i] = 1 /\ under[r] = i

(* The cursor passes no confirmed receipt that was not enqueued, whatever  *)
(* the spool refuses and wherever the gateway crashes.                     *)
NoneSkipped ==
  \A r \in table \cap Confirmed :
    cursor.inst # None /\ r <= cursor.at /\ r > base[cursor.inst]
      => told[r][cursor.inst] > 0

(* Both together: exactly the receipts behind the baseline are told, each  *)
(* once; and the types of the module.                                      *)
ReceiptsExact == CronTypeOK /\ ToldOnceEach /\ NoneSkipped

(* README.md:21: the inventory that there is in the end is the one that    *)
(* the server has of the current installation, by the watcher or by the    *)
(* fallback of thirty seconds -- unless the receipts are blocked.          *)
InventoryReported ==
  []<>(bound = None \/ reported[bound] = inventory \/ Blocked)

(* In the end the cursor is that of the current installation and no        *)
(* confirmed receipt is left beyond it, unless they are blocked.           *)
ReceiptsTold ==
  []<>(bound = None \/ Blocked
       \/ (cursor.inst = bound /\ Fresh \cap Confirmed = {}))
=============================================================================
