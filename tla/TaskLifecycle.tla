--------------------------- MODULE TaskLifecycle ---------------------------
(***************************************************************************)
(* What the collector believes about the work of one session, and what it  *)
(* has told the spool: src/src/adapters/openclaw/hooks.js, with the glue of*)
(* plugin.js (persistEventDetailed, enqueueAcceptedEvents, restoring and   *)
(* stopping) and the reconciliation of work-reconciliation.js.             *)
(*                                                                         *)
(* A message admitted by the host becomes a task, its key the message; a   *)
(* run that belongs to no task is tracked under its own name.  An event is *)
(* processed, offered to the spool together with the list of active work,  *)
(* and committed or rolled back, without an await in between: one step.    *)
(* Agent events wait for questions.drain() first, so hooks overtake them:  *)
(* `wire'.                                                                 *)
(*                                                                         *)
(* The world an operator changes is [life, story, saved]; `ok' says        *)
(* whether the spool takes the batch.  Previews, timestamps and telemetry  *)
(* are left out; of a deadline only its existence is kept, so a timer may  *)
(* fire at any moment.                                                     *)
(***************************************************************************)
EXTENDS Naturals, FiniteSets, Sequences

CONSTANTS
  Msg, Run,     \* messages of the session and runs of the agent
  None, Retired,
  Of,           \* Of[r]: the message the host runs r for, or None
  Outer,        \* Outer[m]: the run named by m's hooks, or None
  MaxRuns,      \* records kept
  MaxWire,      \* bound: agent events under way
  Scenario      \* what the host may do, see HostPlan

Key == Msg \cup Run

(* The fields of a lifecycle event that openClawAgentEventInput reads.     *)
HostEnding ==
  [phase : {"end", "error"}, failed : BOOLEAN, blocked : BOOLEAN,
   paused : BOOLEAN, restart : BOOLEAN, settled : BOOLEAN]

(* Of each run: how often it starts, its endings and its signs of life; of *)
(* each message: the final replies that may be observed, of each at most   *)
(* one.  At most `faults' stops, crashes, full spools and expired records. *)
(* All of them bounds.                                                     *)
HostPlan ==
  [starts : [Run -> Nat], ending : [Run -> SUBSET HostEnding],
   activity : [Run -> SUBSET {"tool", "question", "progress"}],
   reply : [Msg -> SUBSET {"good", "bad", "warning"}],
   msgs : SUBSET Msg, faults : Nat]

ASSUME TaskAssumption ==
  /\ Msg \cap Run = {} /\ {None, Retired} \cap Key = {} /\ None # Retired
  /\ Of \in [Run -> Msg \cup {None}]
  /\ Outer \in [Msg -> Run \cup {None}]
  /\ {MaxRuns, MaxWire} \subseteq Nat \ {0}
  /\ \A p \in Scenario : p \in HostPlan

VARIABLES
  plan,     \* the scenario, never changed
  life,     \* the maps of createOpenClawUserTaskLifecycle
  story,    \* spool: what the events say of each work
  saved,    \* spool: the active work in the hook cursor
  spool,    \* "open", "full" or "closed"
  recon,    \* reconcile()
  hooks,    \* host: how far each message is
  latest,   \* host: the message received last
  host,     \* host: each run, and how often it started
  last,     \* host: the run that started last
  index,    \* host: the session entry on disk, behind by some writes
  wire,     \* agent events observed and not yet processed
  faults    \* how many faults happened

hostVars == <<hooks, latest, host, last, index>>
vars == <<plan, life, story, saved, spool, recon, hostVars, wire, faults>>

-----------------------------------------------------------------------------
(* Evidence of an ending; `by' is the component, `st' the status.          *)
Terminal ==
  [by : {"final", "end", "error", "restart", "reconciliation"},
   out : {"good", "bad"},
   st : {"none", "warning", "settled", "continuation", "candidate"}]
NoPend == [by |-> "none", out |-> "none", st |-> "none"]

Record ==
  [outer : Run \cup {None}, inner : Seq(Run), started : BOOLEAN,
   term : BOOLEAN, pend : Terminal \cup {NoPend}, sure : BOOLEAN,
   timer : BOOLEAN, detached : BOOLEAN, resume : BOOLEAN, asked : BOOLEAN]

NewRecord(outer, inner) ==
  [outer |-> outer, inner |-> inner, started |-> FALSE, term |-> FALSE,
   pend |-> NoPend, sure |-> FALSE, timer |-> FALSE, detached |-> FALSE,
   resume |-> FALSE, asked |-> FALSE]

NewLife ==
  [rec |-> [k \in Key |-> None], bind |-> [r \in Run |-> None], cur |-> None,
   inbound |-> None, retired |-> {}, gone |-> {}]

Inbound == [msg : Msg, inner : Seq(Run), outer : Run \cup {None}]
Work ==
  [started : BOOLEAN, detached : BOOLEAN, outer : Run \cup {None},
   inner : Seq(Run)]
Maps ==
  [rec : [Key -> Record \cup {None}], bind : [Run -> Msg \cup {None}],
   cur : Msg \cup {None}, inbound : Inbound \cup {None},
   retired : SUBSET Run, gone : SUBSET Msg]
Stories == {"none", "open", "success", "failure", "twice", "reopened"}
Idle == [phase |-> "idle"]

(* Agent events under way.                                                 *)
Kind == {"start", "end", "tool", "question", "progress"}
Event == [kind : Kind, run : Run, end : Terminal \cup {NoPend}]

ASSUME NoneAssumption ==
  None \notin Record /\ None \notin Inbound /\ None \notin Work

TypeOK ==
  /\ plan \in Scenario
  /\ life \in Maps
  /\ story \in [Key -> Stories]
  /\ saved \in [Key -> Work \cup {None}]
  /\ spool \in {"open", "full", "closed"}
  /\ recon.phase \in {"idle", "reading", "raced"}
  /\ hooks \in [Msg -> [at : {"new", "received", "dispatched"},
                          replies : SUBSET {"good", "bad", "warning"}]]
  /\ latest \in Msg \cup {None}
  /\ host \in [Run -> [st : {"idle", "running", "paused", "good", "bad",
                             "failed"}, starts : Nat]]
  /\ last \in Run \cup {None}
  /\ wire \in Seq(Event)
  /\ Len(wire) <= MaxWire
  /\ Cardinality({k \in Key : life.rec[k] # None}) <= MaxRuns

-----------------------------------------------------------------------------
(* The records.  A run has one owner: `bind' is the index of outer and     *)
(* inner.                                                                  *)
Live(L, k) == k \in Key /\ L.rec[k] # None
RunsOf(rec) == {rec.inner[i] : i \in DOMAIN rec.inner} \cup ({rec.outer} \ {None})

ActiveWork(L) ==
  [k \in Key |->
     IF Live(L, k) /\ ~L.rec[k].term
     THEN [started |-> L.rec[k].started, detached |-> L.rec[k].detached,
           outer |-> L.rec[k].outer, inner |-> L.rec[k].inner]
     ELSE None]

OwnerOf(L, r) ==
  LET found == {m \in Msg : Live(L, m) /\ r \in RunsOf(L.rec[m])} IN
  IF r = None THEN None
  ELSE IF Live(L, L.bind[r]) THEN L.bind[r]
  ELSE IF found # {} THEN CHOOSE m \in found : TRUE
  ELSE IF r \in L.retired THEN Retired ELSE None

CurrentTask(L) ==
  IF Live(L, L.cur) /\ ~L.rec[L.cur].term THEN L.cur ELSE None

ClearCurrent(L, k) == IF L.cur = k THEN [L EXCEPT !.cur = None] ELSE L

Bind(L, m, runs) ==
  [L EXCEPT !.bind = [r \in Run |-> IF r \in runs THEN m ELSE @[r]]]

BindRun(L, m, r) ==
  [Bind(L, m, {r}) EXCEPT
     !.rec[m].inner = IF r \in RunsOf(L.rec[m]) THEN @ ELSE Append(@, r)]

Remove(L, k) ==
  ClearCurrent([L EXCEPT !.rec[k] = None,
                         !.bind = [r \in Run |-> IF @[r] = k THEN None
                                                 ELSE @[r]]], k)

(* The ways to make room: the code evicts the oldest record that is        *)
(* terminal and durable, here any of them; none when all are active.       *)
Track(L, k, rec) ==
  IF Cardinality({x \in Key : Live(L, x)}) < MaxRuns
  THEN {[L EXCEPT !.rec[k] = rec]}
  ELSE {[Remove(L, x) EXCEPT !.rec[k] = rec] :
          x \in {y \in Key : Live(L, y) /\ L.rec[y].term}}

RetireInbound(L) ==
  [L EXCEPT !.retired = @ \cup RunsOf(L.inbound),
            !.gone = @ \cup {L.inbound.msg},
            !.inbound = None]

RetireInboundOf(L, m) ==
  IF L.inbound # None /\ L.inbound.msg = m THEN RetireInbound(L) ELSE L

ClearPending(rec) ==
  [rec EXCEPT !.pend = NoPend, !.sure = FALSE, !.timer = FALSE]

(* A sign of life withdraws an ending that is not yet certain.             *)
StillAlive(rec) == IF rec.sure THEN rec ELSE ClearPending(rec)

-----------------------------------------------------------------------------
(* What a batch accepted by the spool changes there: the event and, in the *)
(* same transaction, the cursor with the active work.                      *)
Told(said, what) ==
  IF what = "start"
  THEN IF said \in {"none", "open"} THEN "open" ELSE "reopened"
  ELSE IF said \in {"none", "open"} THEN what ELSE "twice"

Say(w, k, what) ==
  [w EXCEPT !.story[k] = Told(@, what), !.saved = ActiveWork(w.life)]
Note(w) == [w EXCEPT !.saved = ActiveWork(w.life)]
Verdict(end) == IF end.out = "good" THEN "success" ELSE "failure"

Now(L) == [life |-> L, story |-> story, saved |-> saved]

(* complete()                                                              *)
Completed(L, k) ==
  ClearCurrent([L EXCEPT !.rec[k] = [ClearPending(@) EXCEPT !.term = TRUE]], k)

CursorFirst(w, k, ok) ==
  LET rec == w.life.rec[k] IN
  IF ok
  THEN [Say(w, k, Verdict(rec.pend)) EXCEPT !.life = Completed(w.life, k)]
  ELSE [w EXCEPT !.life.rec[k] = [rec EXCEPT !.sure = TRUE, !.timer = TRUE]]

(* attemptPending: the record is terminal while the batch is built, so the *)
(* cursor in it no longer lists the work.                                  *)
AttemptPending(w, k, ok) ==
  LET rec == w.life.rec[k] IN
  IF ok
  THEN Say([w EXCEPT !.life = Completed(@, k)], k, Verdict(rec.pend))
  ELSE [w EXCEPT !.life.rec[k] = [rec EXCEPT !.sure = TRUE, !.timer = TRUE]]

Retryable(end) == end.out = "bad" /\ (end.by # "error" \/ end.st = "candidate")

(* deferTerminal: which evidence replaces the evidence that is pending.    *)
Defer(w, k, end, ok) ==
  LET rec == w.life.rec[k]
      pend == rec.pend
      kept == \/ rec.sure
              \/ /\ pend.by = "final" /\ pend.st # "warning"
                 /\ end.out = "good" /\ end.by # "final"
              \/ pend.out = "bad" /\ end.by # "end" /\ pend.by # "final"
      paired == pend.by = "final" /\ (pend.out = "bad" \/ pend.st = "warning")
      held == pend.out = end.out /\ pend.by = end.by /\ rec.timer
      due == \/ held \/ Retryable(end) \/ end.st = "settled"
             \/ end.by = "final" /\ (rec.detached \/ rec.asked)
      later == [rec EXCEPT !.pend = end, !.sure = FALSE, !.timer = due]
  IN IF kept \/ (paired /\ pend.out = "bad" /\ end.out = "good") THEN w
     ELSE IF paired THEN AttemptPending([w EXCEPT !.life.rec[k] = later], k, ok)
     ELSE [w EXCEPT !.life.rec[k] = later]

(* rollback() of an ending that was refused: it stays pending, unless it   *)
(* replaced other evidence, which then comes back.                         *)
Reopened(L, k, rec, end) ==
  [L EXCEPT !.rec[k] = IF k \in Run \/ rec.pend \notin {NoPend, end} THEN rec
                       ELSE [rec EXCEPT !.pend = end, !.sure = TRUE,
                                        !.timer = TRUE],
            !.cur = IF k \in Msg /\ @ = None THEN k ELSE @]

NothingPends(w, k, end, ok) ==
  LET done == [w EXCEPT !.life = Completed(@, k)]
  IN IF ok THEN Say(done, k, Verdict(end)) ELSE done

(* An ending that waits for nothing, accepted or refused by the spool.  A  *)
(* run whose start this process has not seen is then forgotten.            *)
Close(w, k, end, ok) ==
  LET rec == w.life.rec[k]
      done == [w EXCEPT !.life = Completed(@, k)]
  IN IF ok THEN Say(done, k, Verdict(end))
     ELSE IF k \in Run /\ rec.resume THEN [w EXCEPT !.life = Remove(@, k)]
     ELSE [done EXCEPT !.life = Reopened(@, k, rec, end)]

-----------------------------------------------------------------------------
(* message_received: the latest observation waits for its dispatch.        *)
Observed(L, m, ok) ==
  IF Live(L, m) \/ m \in L.gone \/ (L.inbound # None /\ L.inbound.msg = m)
  THEN IF ok THEN Note(Now(L)) ELSE Now(L)
  ELSE LET seen == [msg |-> m, inner |-> <<>>, outer |-> Outer[m]]
           before == IF L.inbound = None THEN L ELSE RetireInbound(L)
       IN IF ok THEN Note(Now([before EXCEPT !.inbound = seen])) ELSE Now(L)

Detach(L, p) == ClearCurrent([L EXCEPT !.rec[p].detached = TRUE], p)
Supersede(L, p) ==
  Remove([L EXCEPT !.retired = @ \cup RunsOf(L.rec[p])], p)

NoRestore(L, p, rec) == L

(* restorePrevious: the task that was current before the dispatch.         *)
RestorePrevious(L, p, rec) ==
  LET again == IF Live(L, p) THEN L
               ELSE [Bind(L, p, RunsOf(rec)) EXCEPT
                       !.rec[p] = rec, !.retired = @ \ RunsOf(rec)]
  IN IF again.rec[p].term THEN again
     ELSE [again EXCEPT !.rec[p].detached = FALSE, !.cur = p]

(* What before_dispatch does to the task that was current, and whether a   *)
(* rollback brings it back: its pending ending is written, or it goes on   *)
(* detached, or it never started and is given up.                          *)
Displace(w, p, ok) ==
  LET rec == w.life.rec[p]
      ends == rec.pend # NoPend /\ rec.pend.st # "continuation"
      waits == rec.pend.out = "good" /\ ~rec.sure /\ rec.timer
               /\ rec.pend.st # "settled"
      tried == AttemptPending(w, p, ok)
      pushed == [tried EXCEPT !.life = Detach(@, p)]
      apart == [w EXCEPT !.life = Detach(@, p)]
  IN IF p = None THEN {[w |-> w, back |-> FALSE]}
     ELSE IF ends
     THEN (IF waits THEN {[w |-> apart, back |-> TRUE]} ELSE {})
          \cup (IF tried.life.rec[p].term
                THEN {[w |-> [tried EXCEPT !.life = Supersede(@, p)],
                       back |-> FALSE]}
                ELSE {[w |-> pushed, back |-> TRUE]})
     ELSE IF rec.started THEN {[w |-> apart, back |-> TRUE]}
     ELSE {[w |-> [w EXCEPT !.life = Supersede(@, p)], back |-> TRUE]}

(* rollback() of a dispatch of L, given the maps X without its record.     *)
Withdrawn(X, L, p, back) ==
  LET Y == [X EXCEPT !.inbound = IF @ = None THEN L.inbound ELSE @]
  IN IF back THEN RestorePrevious(Y, p, L.rec[p]) ELSE Y

Dispatched(L, m, ok) ==
  LET mine == L.inbound # None /\ L.inbound.msg = m
      rec == NewRecord(Outer[m], IF mine THEN L.inbound.inner ELSE <<>>)
      open == IF mine THEN [L EXCEPT !.inbound = None] ELSE L
      p == CurrentTask(L)
      Undo(X, back) == Withdrawn(X, L, p, back)
      Admit(d) ==
        LET room == Track(d.w.life, m, rec)
            Admitted(X) ==
              [d.w EXCEPT !.life = Bind([X EXCEPT !.cur = m], m, RunsOf(rec))]
        IN IF room = {}
           THEN {[d.w EXCEPT !.life = Undo(@, d.back)]}
           ELSE IF ok THEN {Note(Admitted(X)) : X \in room}
           ELSE {[d.w EXCEPT !.life = Undo(Remove(Admitted(X).life, m), d.back)] :
                   X \in room}
  IN IF Live(L, m) \/ m \in L.gone
     THEN {Now(RetireInboundOf(L, m))}
     ELSE UNION {Admit(d) : d \in Displace(Now(open), p, ok)}

(* A final reply, or the verdict of the reconciliation, for the owner of   *)
(* run r; without a run, for the task of message m.                        *)
Finished(w, m, r, end, ok) ==
  LET L == w.life
      With(X) == [w EXCEPT !.life = X]
      named == r = None /\ Live(L, m)
      k == IF named THEN m ELSE OwnerOf(L, r)
      rec == L.rec[k]
      final == end.by = "final"
  IN IF r = None /\ ~named THEN With(RetireInboundOf(L, m))
     ELSE IF k \notin Msg
     THEN IF ~final /\ Live(L, r) /\ ~L.rec[r].term THEN Close(w, r, end, ok)
          ELSE IF k = Retired THEN w
          ELSE LET X == [L EXCEPT !.retired = @ \cup {r}] IN
               With(IF X.inbound # None /\ m \in {None, X.inbound.msg}
                    THEN RetireInbound(X) ELSE X)
     ELSE IF (final /\ m \notin {None, k}) \/ rec.term THEN w
     ELSE IF ~rec.started
     THEN With(ClearCurrent([L EXCEPT !.rec[k].term = TRUE], k))
     ELSE IF rec.pend.out = "bad" THEN Close(w, k, rec.pend, ok)
     ELSE IF final /\ rec.pend.by = "final" /\ ~rec.sure /\ end.out = "good"
     THEN w
     ELSE IF /\ final
             /\ \/ end.out = "bad"
                \/ rec.pend = NoPend
                   /\ (rec.detached \/ rec.asked \/ end.st = "warning")
     THEN Defer(w, k, end, ok)
     ELSE Close(w, k, end, ok)

(* A tool, approval, question or progress event of run r.                  *)
Active(L, r, kind, ok) ==
  LET k == OwnerOf(L, r)
      rec == L.rec[k]
      task == k \in Msg
      alive == [StillAlive(rec) EXCEPT !.asked = @ \/ kind = "question"]
      heard == task /\ ~rec.term
      X == IF heard /\ (rec.started \/ kind # "progress")
           THEN [L EXCEPT !.rec[k] = alive] ELSE L
  IN IF kind = "progress" /\ ~(heard /\ rec.started) THEN Now(L)
     ELSE IF ok THEN Note(Now(X)) ELSE Now(X)

(* turn.started of task k.                                                 *)
TaskStarts(L, k, ok) ==
  LET rec == L.rec[k]
      alive == StillAlive(rec)
      X == [L EXCEPT !.rec[k] = IF rec.started THEN [alive EXCEPT !.resume = FALSE]
                                ELSE [rec EXCEPT !.started = TRUE]]
  IN IF rec.started /\ ~rec.resume THEN Now(X)
     ELSE IF ok THEN Say(Now(X), k, "start")
     ELSE Now([L EXCEPT !.rec[k] = IF rec.started THEN [alive EXCEPT !.resume = TRUE]
                                   ELSE rec])

(* A native ending of task k.                                              *)
TaskEnds(L, k, end, ok) ==
  LET rec == L.rec[k]
      reply == rec.pend.by = "final"
  IN IF ~rec.started THEN Now(L)
     ELSE IF end.st = "settled" /\ end.out = "bad" THEN Close(Now(L), k, end, ok)
     ELSE IF end.st = "settled" /\ reply
     THEN Close(Now(L), k, [end EXCEPT !.out = rec.pend.out], ok)
     ELSE Defer(Now(L), k, end, ok)

(* A run of no task.                                                       *)
LoneRun(L, r, starts, end, ok) ==
  LET fresh == NewRecord(None, <<>>) IN
  IF Live(L, r)
  THEN IF starts \/ L.rec[r].term THEN {Now(L)} ELSE {Close(Now(L), r, end, ok)}
  ELSE LET room == Track(L, r, [fresh EXCEPT !.started = TRUE, !.term = ~starts])
       IN IF room = {} THEN {Now(L)}
          ELSE {IF ok THEN Say(Now(X), r, IF starts THEN "start" ELSE Verdict(end))
                ELSE Now(Remove(X, r)) : X \in room}

(* Runs in the order in which they were seen last.                         *)
SeenLast(runs, r) ==
  LET at == {i \in DOMAIN runs : runs[i] = r}
      i == CHOOSE x \in at : TRUE
  IN Append(IF at = {} THEN runs
            ELSE SubSeq(runs, 1, i - 1) \o SubSeq(runs, i + 1, Len(runs)), r)

(* A lifecycle event of run r: the task it is bound to; a start also the   *)
(* current task, unless another one still executes; before the dispatch it *)
(* waits with the observed message.                                        *)
Lifecycle(L, r, starts, end, ok) ==
  LET owner == OwnerOf(L, r)
      cand == IF starts /\ owner = None THEN CurrentTask(L) ELSE None
      rival == \E m \in Msg \ {cand} :
                 Live(L, m) /\ L.rec[m].detached /\ ~L.rec[m].term
      k == IF cand # None THEN cand ELSE owner
      X == BindRun(L, k, r)
  IN IF cand # None /\ rival THEN {Now(L)}
     ELSE IF k = None /\ L.inbound # None
     THEN {Now([L EXCEPT !.inbound.inner = SeenLast(@, r)])}
     ELSE IF k = None THEN LoneRun(L, r, starts, end, ok)
     ELSE IF k = Retired \/ L.rec[k].term THEN {Now(L)}
     ELSE IF starts THEN {TaskStarts(X, k, ok)}
     ELSE {TaskEnds(X, k, end, ok)}

-----------------------------------------------------------------------------
Ok == spool = "open"
Becomes(w) == life' = w.life /\ story' = w.story /\ saved' = w.saved
SpoolVars == <<spool, faults>>

(* Something was observed: reconcile() compares the counter.               *)
Races == recon' = IF recon.phase = "reading" THEN [phase |-> "raced"] ELSE recon

(* openClawAgentEventInput: what an ending of the host is evidence of.  A  *)
(* run that pauses for its tools may be blocked or abandoned all the same. *)
Evidence(e) ==
  [by |-> IF e.restart THEN "restart" ELSE e.phase,
   out |-> IF ~e.restart /\ (e.failed \/ e.blocked \/ e.phase = "error")
           THEN "bad" ELSE "good",
   st |-> IF e.restart THEN "continuation"
          ELSE IF e.phase = "error" THEN (IF e.settled THEN "candidate" ELSE "none")
          ELSE IF e.paused /\ ~e.failed THEN "continuation"
          ELSE IF e.settled THEN "settled" ELSE "none"]

Emit(kind, r, end) ==
  /\ Len(wire) < MaxWire
  /\ wire' = Append(wire, [kind |-> kind, run |-> r, end |-> end])
  /\ Races
  /\ UNCHANGED <<plan, life, story, saved, SpoolVars, hooks, latest, index>>

HostStart(r) ==
  /\ host[r].st # "running"
  /\ host[r].st # "good"
  /\ host[r].starts < plan.starts[r]
  /\ Of[r] # None => hooks[Of[r]].at # "new"
  /\ host' = [host EXCEPT ![r] = [st |-> "running", starts |-> @.starts + 1]]
  /\ last' = r
  /\ Emit("start", r, NoPend)

HostEnd(r, e) ==
  LET end == Evidence(e) IN
  /\ host[r].st = "running"
  /\ host' = [host EXCEPT ![r].st =
                IF end.st = "continuation" THEN "paused"
                ELSE IF end.out = "good" THEN "good"
                ELSE IF end.st = "settled" THEN "failed" ELSE "bad"]
  /\ Emit("end", r, end)
  /\ UNCHANGED last

HostActs(r, kind) ==
  /\ host[r].st = "running"
  /\ Emit(kind, r, NoPend)
  /\ UNCHANGED <<plan, host, last>>

(* The host writes the session entry some time after the run changed.      *)
HostPersists ==
  /\ last # None
  /\ index' = [run |-> last, st |-> host[last].st]
  /\ index' # index
  /\ UNCHANGED <<plan, life, story, saved, SpoolVars, recon, hooks, latest, host,
                 last, wire>>

(* persistEventDetailed for the agent event whose drain() has returned.    *)
Handle ==
  /\ wire # <<>>
  /\ wire' = Tail(wire)
  /\ UNCHANGED <<plan, SpoolVars, recon, hostVars>>
  /\ LET e == Head(wire) IN
     \E w \in IF e.kind \in {"start", "end"}
              THEN Lifecycle(life, e.run, e.kind = "start", e.end, Ok)
              ELSE {Active(life, e.run, e.kind, Ok)} : Becomes(w)

(* The hooks of a message run to their end when the host calls them.  The  *)
(* host observes a message immediately before it dispatches it, or never   *)
(* dispatches it.                                                          *)
Receive(m) ==
  /\ hooks[m].at = "new" /\ m \in plan.msgs
  /\ hooks' = [hooks EXCEPT ![m].at = "received"]
  /\ latest' = m
  /\ Becomes(Observed(life, m, Ok))
  /\ Races
  /\ UNCHANGED <<plan, SpoolVars, host, last, index, wire>>

Dispatch(m) ==
  /\ hooks[m].at = "received"
  /\ latest = m
  /\ hooks' = [hooks EXCEPT ![m].at = "dispatched"]
  /\ \E w \in Dispatched(life, m, Ok) : Becomes(w)
  /\ Races
  /\ UNCHANGED <<plan, SpoolVars, latest, host, last, index, wire>>

(* A final reply, named by its message, its run or both; it may be         *)
(* observed twice, by the dispatcher and by the message tool, or not at    *)
(* all.                                                                    *)
FinalReply(m, id, r, reply) ==
  /\ hooks[m].at = "dispatched" /\ reply \notin hooks[m].replies
  /\ hooks' = [hooks EXCEPT ![m].replies = @ \cup {reply}]
  /\ r # None => Of[r] = m /\ host[r].starts > 0
  /\ id = None => r # None
  /\ Becomes(Finished(Now(life), id, r,
               [by |-> "final", out |-> IF reply = "bad" THEN "bad" ELSE "good",
                st |-> IF reply = "warning" THEN "warning" ELSE "none"], Ok))
  /\ Races
  /\ UNCHANGED <<plan, SpoolVars, latest, host, last, index, wire>>

Timer(m) ==
  /\ Live(life, m)
  /\ life.rec[m].timer /\ ~life.rec[m].term
  /\ UNCHANGED <<plan, SpoolVars, recon, hostVars, wire>>
  /\ Becomes(AttemptPending(Now(life), m, Ok))

Fault == faults < plan.faults /\ faults' = faults + 1

(* prune(), before any event: what has outlived its hour.                  *)
Prune ==
  /\ \/ \E k \in Key : Live(life, k) /\ life.rec[k].term /\ life' = Remove(life, k)
     \/ life.inbound # None /\ life' = RetireInbound(life)
  /\ Fault
  /\ UNCHANGED <<plan, story, saved, spool, recon, hostVars, wire>>

-----------------------------------------------------------------------------
(* reconcile(): the active work is noted and the session entries are read. *)
ReconcileStart ==
  /\ spool # "closed"
  /\ recon = Idle
  /\ \E k \in Key : ActiveWork(life)[k] # None
  /\ recon' = [phase |-> "reading", work |-> ActiveWork(life)]
  /\ UNCHANGED <<plan, life, story, saved, SpoolVars, hostVars, wire>>

RunIds(k, work) == IF k \in Run THEN {k} ELSE RunsOf(work)

SettlesOuter(k) ==
  LET work == recon.work[k] IN
  /\ work # None
  /\ index # None /\ index.st \in {"good", "bad", "failed"}
  /\ k \in Msg => index.run = work.outer
  /\ ActiveWork(life)[k] = work

(* Whether the entry read settles the work, which must not have changed.   *)
(* A task is settled only by its own run.                                  *)
Settles(k) ==
  LET work == recon.work[k] IN
  /\ work # None
  /\ index # None /\ index.st \in {"good", "bad", "failed"}
  /\ k \in Msg => index.run \in RunIds(k, work)
  /\ ActiveWork(life)[k] = work

(* The loop over the works: it awaits nothing but emit(), which persists   *)
(* without waiting, so it is one step.  Of a task the event names the      *)
(* outer run or, without one, the inner run bound last.                    *)
ClosedBy(w, k) ==
  LET work == recon.work[k]
      exact == index.run \in RunIds(k, work)
      named == IF k \in Run THEN k
               ELSE IF work.outer # None THEN work.outer
               ELSE work.inner[Len(work.inner)]
      end == [by |-> "reconciliation", st |-> "none",
              out |-> IF exact /\ index.st = "good" THEN "good" ELSE "bad"]
  IN Finished(w, None, named, end, Ok)

Closing[keys \in SUBSET {k \in Key : Settles(k)}] ==
  IF keys = {} THEN Now(life)
  ELSE LET k == CHOOSE x \in keys : TRUE IN ClosedBy(Closing[keys \ {k}], k)

ReconcileEnd ==
  /\ recon.phase = "reading"
  /\ recon' = Idle
  /\ UNCHANGED <<plan, SpoolVars, hostVars, wire>>
  /\ Becomes(Closing[{k \in Key : Settles(k)}])

(* The counter moved while the entries were read.                          *)
ReconcileRaced ==
  /\ recon.phase = "raced"
  /\ recon' = Idle
  /\ UNCHANGED <<plan, life, story, saved, SpoolVars, hostVars, wire>>

-----------------------------------------------------------------------------
(* restoreActiveWork, from the cursor: what is not tracked already, and    *)
(* one task that is not detached.  First the open task, if two were saved. *)
RestoredRecord(k) ==
  [NewRecord(saved[k].outer, saved[k].inner) EXCEPT
     !.started = saved[k].started, !.detached = saved[k].detached,
     !.resume = saved[k].started]

Restore(first) ==
  LET back == {k \in Key : /\ saved[k] # None /\ ~Live(life, k)
                           /\ \/ k \in Run \/ saved[k].detached
                              \/ k = first /\ CurrentTask(life) = None}
      owned(r) == {m \in back \cap Msg : r \in RunsOf(saved[m])}
  IN [life EXCEPT
        !.rec = [k \in Key |-> IF k \in back THEN RestoredRecord(k) ELSE @[k]],
        !.bind = [r \in Run |-> IF owned(r) = {} THEN @[r]
                                ELSE CHOOSE m \in owned(r) : TRUE],
        !.cur = IF first \in back THEN first ELSE @]

(* The part of start() that opens the spool and restores.                  *)
Start ==
  LET main == {m \in Msg : saved[m] # None /\ ~saved[m].detached} IN
  /\ spool = "closed"
  /\ spool' = "open"
  /\ UNCHANGED <<plan, story, saved, recon, hostVars, wire, faults>>
  /\ \E first \in IF main = {} THEN {None} ELSE main : life' = Restore(first)

(* persistActiveWork: the endings that wait for nothing are written first. *)
Flushed(w) ==
  LET due == {m \in Msg : /\ Live(w.life, m) /\ ~w.life.rec[m].term
                          /\ w.life.rec[m].pend # NoPend
                          /\ w.life.rec[m].pend.out = "bad" \/ w.life.rec[m].sure}
      One(m) == AttemptPending(w, m, Ok)
  IN [w EXCEPT
        !.life.rec = [k \in Key |-> IF k \in due THEN One(k).life.rec[k] ELSE @[k]],
        !.life.cur = IF @ \in due THEN One(@).life.cur ELSE @,
        !.story = [k \in Key |-> IF k \in due THEN One(k).story[k] ELSE @[k]]]

Stop ==
  /\ spool # "closed"
  /\ spool' = "closed"
  /\ Fault
  /\ Becomes(Note(Flushed(Now(life))))
  /\ UNCHANGED <<plan, recon, hostVars, wire>>

(* The gateway dies with the plugin; its runs are cut short and may be     *)
(* resumed, or are recorded as ended when it is back.                      *)
Crash ==
  /\ Fault
  /\ spool' = "closed"
  /\ life' = NewLife
  /\ recon' = Idle
  /\ wire' = <<>>
  /\ host' = [r \in Run |-> IF host[r].st = "running"
                            THEN [host[r] EXCEPT !.st = "paused"]
                            ELSE host[r]]
  /\ UNCHANGED <<plan, story, saved, hooks, latest, last, index>>

HostGivesUp(r) ==
  /\ host[r].st = "paused"
  /\ host' = [host EXCEPT ![r].st = "bad"]
  /\ UNCHANGED <<plan, life, story, saved, SpoolVars, recon, hooks, latest, last,
                 index, wire>>

(* The spool reaches its row limit, and is drained.                        *)
SpoolFills ==
  /\ spool = "open" /\ spool' = "full"
  /\ Fault
  /\ UNCHANGED <<plan, life, story, saved, recon, hostVars, wire>>
SpoolDrains ==
  /\ spool = "full" /\ spool' = "open"
  /\ UNCHANGED <<plan, life, story, saved, recon, hostVars, wire, faults>>

-----------------------------------------------------------------------------
Init ==
  /\ plan \in Scenario
  /\ life = NewLife
  /\ story = [k \in Key |-> "none"]
  /\ saved = [k \in Key |-> None]
  /\ spool = "closed"
  /\ recon = Idle
  /\ hooks = [m \in Msg |-> [at |-> "new", replies |-> {}]] /\ latest = None
  /\ host = [r \in Run |-> [st |-> "idle", starts |-> 0]]
  /\ last = None /\ index = None
  /\ wire = <<>>
  /\ faults = 0

Next ==
  \/ \E r \in Run :
       \/ HostStart(r) \/ HostGivesUp(r)
       \/ \E e \in plan.ending[r] : HostEnd(r, e)
       \/ \E kind \in plan.activity[r] : HostActs(r, kind)
  \/ HostPersists \/ Handle
  \/ \E m \in Msg :
       \/ Receive(m) \/ Dispatch(m) \/ Timer(m)
       \/ \E id \in {m, None}, r \in Run \cup {None}, reply \in plan.reply[m] :
            FinalReply(m, id, r, reply)
  \/ Prune
  \/ ReconcileStart \/ ReconcileEnd \/ ReconcileRaced
  \/ Start \/ Stop \/ Crash \/ SpoolFills \/ SpoolDrains

Spec == Init /\ [][Next]_vars

(* Events are handled, timers fire, the heartbeat reconciles every thirty  *)
(* seconds, a stopped collector starts again, the spool is drained and the *)
(* host writes its index.  Nothing is assumed of final replies, nor that   *)
(* an interrupted run ends.                                                *)
Fairness ==
  /\ WF_vars(Handle)
  /\ WF_vars(\E m \in Msg : Timer(m))
  /\ WF_vars(ReconcileStart \/ ReconcileEnd \/ ReconcileRaced)
  /\ WF_vars(Start \/ SpoolDrains)
  /\ WF_vars(HostPersists)
FairSpec == Spec /\ Fairness

-----------------------------------------------------------------------------
(* The spool never tells a second ending of a task, nor a start after one, *)
(* whatever is lost, refused, restored or evidenced twice; and the records *)
(* and the events under way stay within their limits (TypeOK).             *)
OneEnding == TypeOK /\ \A m \in Msg : story[m] \notin {"twice", "reopened"}

(* A task the spool tells as running is known: a restart finds it in the   *)
(* cursor and, while the collector runs, the lifecycle can still close it. *)
OpenKept ==
  \A m \in Msg : story[m] = "open" =>
    /\ saved[m] # None
    /\ spool # "closed" => ActiveWork(life)[m] # None

(* While the spool refuses, the tasks that run are the same after every    *)
(* event, and none is detached: a rollback restores what the refused event *)
(* displaced.                                                              *)
Running(L) ==
  {m \in Msg : Live(L, m) /\ L.rec[m].started /\ ~L.rec[m].term}
Attached(L) == {m \in Running(L) : ~L.rec[m].detached}
RefusalHarmless ==
  [][spool # "open" /\ UNCHANGED SpoolVars =>
       /\ Running(life') = Running(life)
       /\ Attached(life) \subseteq Attached(life')]_vars

(* A task that shares no run with another and owns the run the host ended  *)
(* last is closed even if its final reply is never observed.               *)
LastOf(m) ==
  /\ \A r \in Run : host[r].st # "running"
  /\ last # None /\ host[last].st \in {"good", "bad", "failed"}
  /\ Live(life, m) /\ last \in RunsOf(life.rec[m])
  /\ \A r \in RunsOf(life.rec[m]) : OwnerOf(life, r) = m
CurrentCloses == []<>(\A m \in Msg : story[m] = "open" => ~LastOf(m))
=============================================================================
