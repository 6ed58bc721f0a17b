-------------------------- MODULE LifecycleProofs --------------------------
(***************************************************************************)
(* Proofs about TaskLifecycle for any number of messages, runs, records    *)
(* and faults: a task has one ending, a task that is told as running is    *)
(* known to the cursor and to the lifecycle, and a refused event displaces *)
(* no task.                                                                *)
(*                                                                         *)
(* The argument: what the spool takes leaves a world in which the story,   *)
(* the cursor and the records agree (Good); what it refuses only lets go   *)
(* of records whose task does not run (Shrinks).  Every operator of the    *)
(* model does the one or the other (Fine).                                 *)
(***************************************************************************)
EXTENDS TaskLifecycle, TLAPS, FiniteSetTheorems, WellFoundedInduction,
        SequenceTheorems

World == [life : Maps, story : [Key -> Stories], saved : [Key -> Work \cup {None}]]

Over == {"none", "success", "failure"}

(* The story of a task and its record agree.                               *)
RecOK(rec, st) ==
  /\ rec = None => st \in Over
  /\ rec # None /\ rec.term => st \in Over
  /\ rec # None /\ ~rec.term => st = IF rec.started THEN "open" ELSE "none"
Agreeing(L, st) == \A m \in Msg : RecOK(L.rec[m], st[m])

(* Of the tasks that run at most one is attached to the session.           *)
OneAttached(L) ==
  \A m \in Msg : L.rec[m] # None /\ ~L.rec[m].term /\ ~L.rec[m].detached
                   => L.cur = m

Fits(S) == IsFiniteSet(S) /\ Cardinality(S) <= MaxRuns
Tracked(L) == {k \in Key : L.rec[k] # None}
Listed(sv) == {k \in Key : sv[k] # None}

(* A restart finds in the cursor the tasks that the story tells.           *)
SavedOK(sv, st) ==
  /\ \A m \in Msg : sv[m] # None => st[m] = IF sv[m].started THEN "open" ELSE "none"
  /\ \A m \in Msg : st[m] \in Over \cup {"open"}
  /\ \A m \in Msg : st[m] = "open" => sv[m] # None
  /\ \A m, n \in Msg :
       sv[m] # None /\ sv[n] # None /\ ~sv[m].detached /\ ~sv[n].detached => m = n
  /\ Fits(Listed(sv))

Good(w) ==
  /\ w \in World
  /\ Agreeing(w.life, w.story) /\ OneAttached(w.life) /\ Fits(Tracked(w.life))
  /\ SavedOK(w.saved, w.story)

(* No record appears; a task that runs is kept, one that does not may end. *)
Shrinks(L, X) ==
  /\ \A k \in Key : L.rec[k] = None => X.rec[k] = None
  /\ \A m \in Msg : X.rec[m] # None /\ ~X.rec[m].term
                      => ~L.rec[m].term /\ X.rec[m].started = L.rec[m].started
  /\ \A m \in Msg : L.rec[m] # None /\ ~L.rec[m].term /\ L.rec[m].started
                      => X.rec[m] # None /\ ~X.rec[m].term
  /\ OneAttached(L) => OneAttached(X)

(* A task that runs attached stays so.                                     *)
Keeps(L, X) ==
  \A m \in Msg :
    L.rec[m] # None /\ ~L.rec[m].term /\ L.rec[m].started /\ ~L.rec[m].detached
      => ~X.rec[m].detached

Unknown(w, m) == w.life.rec[m] = None /\ w.story[m] = "none" /\ w.saved[m] = None

(* What an operator may make of the world w; D are the messages it may     *)
(* admit, ok says whether the spool takes what it tells.                   *)
Fine(w, v, ok, D) ==
  /\ v \in World
  /\ \/ v.story = w.story /\ v.saved = w.saved /\ Shrinks(w.life, v.life)
     \/ ok /\ Good(v) /\ \A m \in Msg \ D : Unknown(w, m) => Unknown(v, m)
  /\ ok \/ Keeps(w.life, v.life)

(* The worlds operators are applied to.                                    *)
Sound(w, ok) == w \in World /\ OneAttached(w.life) /\ (ok => Good(w))

-----------------------------------------------------------------------------
LEMMA FewerFit ==
  ASSUME NEW S, NEW T, T \subseteq S, Fits(S)
  PROVE  Fits(T)
<1>1. IsFiniteSet(T) /\ Cardinality(T) <= Cardinality(S)
  BY FS_Subset DEF Fits
<1>2. Cardinality(T) \in Nat /\ Cardinality(S) \in Nat /\ MaxRuns \in Nat
  BY <1>1, FS_CardinalityType, TaskAssumption DEF Fits
<1> QED
  BY <1>1, <1>2 DEF Fits

LEMMA ShrinksTrans ==
  ASSUME NEW L, NEW X, NEW Y, Shrinks(L, X), Shrinks(X, Y)
  PROVE  Shrinks(L, Y)
BY DEF Shrinks, Key

LEMMA KeepsTrans ==
  ASSUME NEW L, NEW X, NEW Y, Shrinks(L, X), Keeps(L, X), Keeps(X, Y)
  PROVE  Keeps(L, Y)
BY DEF Shrinks, Keeps, Key

(* A smaller world is as good.                                             *)
LEMMA ShrinkGood ==
  ASSUME NEW w, NEW v \in World, Good(w), v.story = w.story, v.saved = w.saved,
         Shrinks(w.life, v.life)
  PROVE  Good(v)
<1>1. Agreeing(v.life, v.story)
  <2> SUFFICES ASSUME NEW m \in Msg PROVE RecOK(v.life.rec[m], v.story[m])
    BY DEF Agreeing
  <2>1. RecOK(w.life.rec[m], w.story[m])
    BY DEF Good, Agreeing
  <2>2. v.life.rec[m] = None \/ v.life.rec[m].term
        => w.life.rec[m] = None \/ w.life.rec[m].term \/ ~w.life.rec[m].started
    BY DEF Shrinks
  <2>3. v.life.rec[m] # None => w.life.rec[m] # None
    BY DEF Shrinks, Key
  <2>4. v.life.rec[m] # None /\ ~v.life.rec[m].term
        => ~w.life.rec[m].term /\ v.life.rec[m].started = w.life.rec[m].started
    BY DEF Shrinks
  <2> QED
    BY <2>1, <2>2, <2>3, <2>4 DEF RecOK, Over
<1>2. Tracked(v.life) \subseteq Tracked(w.life)
  BY DEF Shrinks, Tracked
<1>3. Fits(Tracked(v.life))
  BY <1>2, FewerFit DEF Good
<1> QED
  BY <1>1, <1>3 DEF Good, Shrinks

LEMMA FineSound ==
  ASSUME NEW w, NEW v, NEW ok \in BOOLEAN, NEW D, Sound(w, ok), Fine(w, v, ok, D)
  PROVE  Sound(v, ok)
<1>1. CASE v.story = w.story /\ v.saved = w.saved /\ Shrinks(w.life, v.life)
  <2>1. ok => Good(v)
    BY <1>1, ShrinkGood DEF Sound, Fine
  <2> QED
    BY <1>1, <2>1 DEF Sound, Fine, Shrinks
<1>2. CASE ok /\ Good(v)
  BY <1>2 DEF Sound, Good
<1> QED
  BY <1>1, <1>2 DEF Fine

LEMMA ShrinkUnknown ==
  ASSUME NEW w, NEW v, v.story = w.story, v.saved = w.saved,
         Shrinks(w.life, v.life), NEW m \in Msg, Unknown(w, m)
  PROVE  Unknown(v, m)
BY DEF Unknown, Shrinks, Key

LEMMA FineTrans ==
  ASSUME NEW w, NEW u, NEW v, NEW ok \in BOOLEAN, NEW D, Sound(w, ok),
         Fine(w, u, ok, D), Fine(u, v, ok, D)
  PROVE  Fine(w, v, ok, D)
<1>1. CASE ~ok
  <2>1. /\ u.story = w.story /\ u.saved = w.saved /\ Shrinks(w.life, u.life)
        /\ v.story = u.story /\ v.saved = u.saved /\ Shrinks(u.life, v.life)
        /\ Keeps(w.life, u.life) /\ Keeps(u.life, v.life)
    BY <1>1 DEF Fine
  <2>2. Shrinks(w.life, v.life) /\ Keeps(w.life, v.life)
    BY <2>1, ShrinksTrans, KeepsTrans
  <2> QED
    BY <2>1, <2>2 DEF Fine
<1>2. CASE ok
  <2>1. Good(u)
    BY <1>2, FineSound DEF Sound
  <2>2. CASE /\ u.story = w.story /\ u.saved = w.saved /\ Shrinks(w.life, u.life)
             /\ v.story = u.story /\ v.saved = u.saved /\ Shrinks(u.life, v.life)
    BY <1>2, <2>2, ShrinksTrans DEF Fine
  <2>3. CASE u.story = w.story /\ u.saved = w.saved /\ Shrinks(w.life, u.life)
             /\ ~(v.story = u.story /\ v.saved = u.saved /\ Shrinks(u.life, v.life))
    <3>1. \A m \in Msg \ D : Unknown(w, m) => Unknown(u, m)
      BY <2>3, ShrinkUnknown
    <3> QED
      BY <1>2, <2>3, <3>1 DEF Fine
  <2>4. CASE ~(u.story = w.story /\ u.saved = w.saved /\ Shrinks(w.life, u.life))
    <3>1. \A m \in Msg \ D : Unknown(w, m) => Unknown(u, m)
      BY <2>4 DEF Fine
    <3>2. Good(v)
      BY <1>2, FineSound, FineSound DEF Sound
    <3>3. \A m \in Msg \ D : Unknown(u, m) => Unknown(v, m)
      BY <2>1, ShrinkUnknown DEF Fine
    <3> QED
      BY <1>2, <3>1, <3>2, <3>3 DEF Fine
  <2> QED
    BY <2>2, <2>3, <2>4
<1> QED
  BY <1>1, <1>2

-----------------------------------------------------------------------------
(* The cursor that is committed is the work of the records.                *)
LEMMA WorkSaved ==
  ASSUME NEW L \in Maps, NEW st, Agreeing(L, st), OneAttached(L), Fits(Tracked(L))
  PROVE  ActiveWork(L) \in [Key -> Work \cup {None}] /\ SavedOK(ActiveWork(L), st)
<1> DEFINE A == ActiveWork(L)
<1>1. \A k \in Key : L.rec[k] \in Record \cup {None}
  BY DEF Maps
<1>2. \A k \in Key :
        A[k] = IF L.rec[k] # None /\ ~L.rec[k].term
               THEN [started |-> L.rec[k].started, detached |-> L.rec[k].detached,
                     outer |-> L.rec[k].outer, inner |-> L.rec[k].inner]
               ELSE None
  BY DEF ActiveWork, Live
<1>3. A \in [Key -> Work \cup {None}]
  BY <1>1 DEF ActiveWork, Live, Work, Record
<1>4. \A k \in Key : A[k] # None <=> L.rec[k] # None /\ ~L.rec[k].term
  <2> SUFFICES ASSUME NEW k \in Key, L.rec[k] # None, ~L.rec[k].term PROVE A[k] # None
    BY <1>2
  <2>a. L.rec[k] \in Record
    BY <1>1
  <2>b. /\ L.rec[k].started \in BOOLEAN /\ L.rec[k].detached \in BOOLEAN
        /\ L.rec[k].outer \in Run \cup {None} /\ L.rec[k].inner \in Seq(Run)
    BY <2>a DEF Record
  <2>c. A[k] = [started |-> L.rec[k].started, detached |-> L.rec[k].detached,
                outer |-> L.rec[k].outer, inner |-> L.rec[k].inner]
    BY <1>2
  <2>1. A[k] \in Work
    BY <2>b, <2>c DEF Work
  <2> QED
    BY <2>1, NoneAssumption
<1>5. \A k \in Key : A[k] # None => A[k].started = L.rec[k].started
                                    /\ A[k].detached = L.rec[k].detached
  <2> SUFFICES ASSUME NEW k \in Key, A[k] # None
               PROVE  A[k].started = L.rec[k].started /\ A[k].detached = L.rec[k].detached
    OBVIOUS
  <2>1. A[k] = [started |-> L.rec[k].started, detached |-> L.rec[k].detached,
                outer |-> L.rec[k].outer, inner |-> L.rec[k].inner]
    BY <1>2
  <2> QED
    BY <2>1
<1>6. Listed(A) \subseteq Tracked(L)
  BY <1>4 DEF Listed, Tracked
<1>7. Fits(Listed(A))
  BY <1>6, FewerFit
<1> HIDE DEF A
<1>8. \A m \in Msg : RecOK(L.rec[m], st[m])
  BY DEF Agreeing
<1>9. \A m \in Msg : st[m] \in Over \cup {"open"}
  BY <1>4, <1>8 DEF RecOK, Over, Key
<1>13. \A m \in Msg : st[m] = "open" => A[m] # None
  BY <1>4, <1>8 DEF RecOK, Over, Key
<1>10. \A m \in Msg : A[m] # None => st[m] = IF A[m].started THEN "open" ELSE "none"
  BY <1>4, <1>5, <1>8 DEF RecOK, Key
<1>11. \A m, n \in Msg : A[m] # None /\ A[n] # None /\ ~A[m].detached /\ ~A[n].detached
                           => m = n
  BY <1>4, <1>5 DEF OneAttached, Key
<1>12. SavedOK(A, st)
  BY <1>7, <1>9, <1>10, <1>11, <1>13 DEF SavedOK
<1> QED
  BY <1>3, <1>12 DEF A

LEMMA ToldStories ==
  \A said \in Stories, what \in {"start", "success", "failure"} :
    Told(said, what) \in Stories
BY DEF Told, Stories

LEMMA NoteGood ==
  ASSUME NEW u, Good(u)
  PROVE  /\ Good(Note(u))
         /\ Note(u).life = u.life /\ Note(u).story = u.story
         /\ Note(u).saved = ActiveWork(u.life)
<1>1. ActiveWork(u.life) \in [Key -> Work \cup {None}] /\ SavedOK(ActiveWork(u.life), u.story)
  <2>1. u.life \in Maps
    BY DEF Good, World
  <2> QED
    BY <2>1, WorkSaved DEF Good
<1>2. Note(u) = [u EXCEPT !.saved = ActiveWork(u.life)]
  BY DEF Note
<1>3. u \in World
  BY DEF Good
<1>4. /\ Note(u) \in World
      /\ Note(u).life = u.life /\ Note(u).story = u.story
      /\ Note(u).saved = ActiveWork(u.life)
  BY <1>1, <1>2, <1>3 DEF World
<1> QED
  BY <1>1, <1>4 DEF Good

(* The spool takes an event without a word about any task.                 *)
LEMMA NoteFine ==
  ASSUME NEW w, NEW u, NEW D, Good(w), Fine(w, u, TRUE, D)
  PROVE  Fine(w, Note(u), TRUE, D)
<1>1. Good(u)
  BY FineSound DEF Sound, Good
<1>2. /\ Good(Note(u))
      /\ Note(u).life = u.life /\ Note(u).story = u.story
      /\ Note(u).saved = ActiveWork(u.life)
  BY <1>1, NoteGood
<1>3. \A m \in Msg \ D : Unknown(w, m) => Unknown(u, m)
  BY ShrinkUnknown DEF Fine
<1>4. \A m \in Msg : Unknown(u, m) => Unknown(Note(u), m)
  BY <1>2 DEF Unknown, ActiveWork, Live, Key
<1> QED
  BY <1>2, <1>3, <1>4 DEF Fine, Good

(* The spool takes an event that tells of k.                               *)
LEMMA SayFine ==
  ASSUME NEW w, NEW u \in World, NEW k \in Key, NEW what \in {"start", "success", "failure"},
         NEW D,
         Agreeing(u.life, [u.story EXCEPT ![k] = Told(u.story[k], what)]),
         OneAttached(u.life), Fits(Tracked(u.life)),
         \A m \in Msg \ D : Unknown(w, m) =>
           m # k /\ u.life.rec[m] = None /\ u.story[m] = "none"
  PROVE  Fine(w, Say(u, k, what), TRUE, D)
<1> DEFINE v == Say(u, k, what)
           st == [u.story EXCEPT ![k] = Told(u.story[k], what)]
<1>1. u.life \in Maps /\ u.story \in [Key -> Stories]
  BY DEF World
<1>2. ActiveWork(u.life) \in [Key -> Work \cup {None}] /\ SavedOK(ActiveWork(u.life), st)
  BY <1>1, WorkSaved
<1>3. st \in [Key -> Stories]
  BY <1>1, ToldStories
<1>4. v.life = u.life /\ v.story = st /\ v.saved = ActiveWork(u.life) /\ v \in World
  BY <1>2, <1>3 DEF Say, World
<1>5. Good(v)
  BY <1>2, <1>4 DEF Good
<1>6. \A m \in Msg \ D : Unknown(w, m) => Unknown(v, m)
  BY <1>1, <1>4 DEF Unknown, ActiveWork, Live, Key
<1> QED
  BY <1>4, <1>5, <1>6 DEF Fine

-----------------------------------------------------------------------------
(* Changes of the maps.                                                    *)
LEMMA Types ==
  /\ None \notin Key /\ Retired \notin Key /\ None # Retired
  /\ \A m \in Msg : m \in Key /\ m \notin Run
  /\ \A r \in Run : r \in Key /\ r \notin Msg
  /\ \A L \in Maps : /\ \A k \in Key : L.rec[k] \in Record \cup {None}
                     /\ \A k \in Key : L.rec[k] # None => L.rec[k] \in Record
                     /\ L.cur \in Msg \cup {None}
BY TaskAssumption DEF Key, Maps

LEMMA QuietFine ==
  ASSUME NEW w \in World, NEW X \in Maps, NEW ok, NEW D,
         Shrinks(w.life, X), Keeps(w.life, X)
  PROVE  Fine(w, [w EXCEPT !.life = X], ok, D)
<1>1. /\ [w EXCEPT !.life = X] \in World
      /\ [w EXCEPT !.life = X].life = X
      /\ [w EXCEPT !.life = X].story = w.story
      /\ [w EXCEPT !.life = X].saved = w.saved
  BY DEF World
<1> QED
  BY <1>1 DEF Fine

LEMMA Unchanged ==
  ASSUME NEW w \in World, NEW ok, NEW D
  PROVE  Fine(w, w, ok, D)
<1>1. Shrinks(w.life, w.life) /\ Keeps(w.life, w.life)
  BY DEF Shrinks, Keeps
<1> QED
  BY <1>1 DEF Fine

(* Neither a record nor the current task changes.                          *)
LEMMA SameRecords ==
  ASSUME NEW L, NEW X, X.rec = L.rec, X.cur = L.cur
  PROVE  Shrinks(L, X) /\ Keeps(L, X)
BY DEF Shrinks, Keeps, OneAttached

(* One record changes in something else than what it is.                   *)
LEMMA SameTask ==
  ASSUME NEW L \in Maps, NEW X \in Maps, X.cur = L.cur,
         NEW k \in Key, L.rec[k] # None, NEW b \in Record,
         X.rec = [L.rec EXCEPT ![k] = b],
         b.started = L.rec[k].started, b.term = L.rec[k].term,
         b.detached = L.rec[k].detached
  PROVE  Shrinks(L, X) /\ Keeps(L, X)
<1>1. \A j \in Key : X.rec[j] = IF j = k THEN b ELSE L.rec[j]
  BY DEF Maps
<1>2. b # None
  BY NoneAssumption
<1>3. \A j \in Key : /\ X.rec[j] # None <=> L.rec[j] # None
                     /\ X.rec[j].started = L.rec[j].started
                     /\ X.rec[j].term = L.rec[j].term
                     /\ X.rec[j].detached = L.rec[j].detached
  BY <1>1, <1>2
<1> QED
  BY <1>3, Types DEF Shrinks, Keeps, OneAttached

LEMMA Pending ==
  ASSUME NEW rec \in Record
  PROVE  /\ ClearPending(rec) \in Record /\ StillAlive(rec) \in Record
         /\ ClearPending(rec).started = rec.started /\ ClearPending(rec).term = rec.term
         /\ ClearPending(rec).detached = rec.detached
         /\ StillAlive(rec).started = rec.started /\ StillAlive(rec).term = rec.term
         /\ StillAlive(rec).detached = rec.detached
BY DEF ClearPending, StillAlive, Record, NoPend

LEMMA CompletedFacts ==
  ASSUME NEW L \in Maps, NEW k \in Key, L.rec[k] # None
  PROVE  LET X == Completed(L, k) IN
         /\ X \in Maps
         /\ X.cur = IF L.cur = k THEN None ELSE L.cur
         /\ X.rec = [L.rec EXCEPT ![k] = [ClearPending(L.rec[k]) EXCEPT !.term = TRUE]]
         /\ X.rec[k] \in Record /\ X.rec[k].term
         /\ X.rec[k].started = L.rec[k].started
         /\ X.rec[k].detached = L.rec[k].detached
         /\ \A j \in Key \ {k} : X.rec[j] = L.rec[j]
<1> DEFINE b == [ClearPending(L.rec[k]) EXCEPT !.term = TRUE]
           Y == [L EXCEPT !.rec[k] = b]
<1>1. L.rec[k] \in Record
  BY Types
<1>2. /\ b \in Record /\ b.term = TRUE
      /\ b.started = L.rec[k].started /\ b.detached = L.rec[k].detached
  <2> DEFINE c == ClearPending(L.rec[k])
  <2>1. c \in Record /\ c.started = L.rec[k].started /\ c.detached = L.rec[k].detached
    BY <1>1, Pending
  <2>2. b = [c EXCEPT !.term = TRUE]
    OBVIOUS
  <2> HIDE DEF b, c
  <2> QED
    BY <2>1, <2>2 DEF Record
<1> HIDE DEF b
<1>3. Y \in Maps /\ Y.rec = [L.rec EXCEPT ![k] = b] /\ Y.cur = L.cur
  BY <1>2 DEF Maps
<1>4. Completed(L, k) = ClearCurrent(Y, k)
  BY DEF Completed, b
<1>5. /\ ClearCurrent(Y, k) \in Maps
      /\ ClearCurrent(Y, k).cur = IF L.cur = k THEN None ELSE L.cur
      /\ ClearCurrent(Y, k).rec = Y.rec
  BY <1>3 DEF ClearCurrent, Maps
<1>6. Y.rec[k] = b /\ \A j \in Key \ {k} : Y.rec[j] = L.rec[j]
  BY <1>3 DEF Maps
<1> DEFINE X == Completed(L, k)
<1>7. X \in Maps /\ X.cur = (IF L.cur = k THEN None ELSE L.cur) /\ X.rec = Y.rec
  BY <1>4, <1>5
<1> HIDE DEF X, Y
<1>8. X.rec = [L.rec EXCEPT ![k] = [ClearPending(L.rec[k]) EXCEPT !.term = TRUE]]
  BY <1>3, <1>7 DEF b
<1>9. /\ X.rec[k] = b /\ \A j \in Key \ {k} : X.rec[j] = L.rec[j]
  BY <1>6, <1>7
<1> QED
  BY <1>2, <1>7, <1>8, <1>9 DEF X

LEMMA VerdictType ==
  ASSUME NEW end
  PROVE  Verdict(end) \in {"success", "failure"}
BY DEF Verdict

(* The spool takes the ending of a task or run that has none.              *)
LEMMA EndSaid ==
  ASSUME NEW w, Good(w), NEW k \in Key, w.life.rec[k] # None, ~w.life.rec[k].term,
         NEW what \in {"success", "failure"}, NEW D
  PROVE  Fine(w, Say([w EXCEPT !.life = Completed(w.life, k)], k, what), TRUE, D)
<1> DEFINE L == w.life
           X == Completed(L, k)
           u == [w EXCEPT !.life = X]
<1>1. w \in World /\ L \in Maps
  BY DEF Good, World
<1>2. /\ X \in Maps
      /\ X.cur = IF L.cur = k THEN None ELSE L.cur
      /\ X.rec[k] # None /\ X.rec[k].term
      /\ X.rec[k].detached = L.rec[k].detached
      /\ \A j \in Key \ {k} : X.rec[j] = L.rec[j]
  <2>1. /\ X \in Maps
        /\ X.cur = IF L.cur = k THEN None ELSE L.cur
        /\ X.rec[k] \in Record /\ X.rec[k].term
        /\ X.rec[k].detached = L.rec[k].detached
        /\ \A j \in Key \ {k} : X.rec[j] = L.rec[j]
    BY <1>1, CompletedFacts
  <2>2. X.rec[k] # None
    BY <2>1, NoneAssumption
  <2> QED
    BY <2>1, <2>2
<1> HIDE DEF X
<1>3. u \in World /\ u.life = X /\ u.story = w.story
  BY <1>1, <1>2 DEF World
<1> HIDE DEF u
<1>4. Agreeing(u.life, [u.story EXCEPT ![k] = Told(u.story[k], what)])
  <2> SUFFICES ASSUME NEW m \in Msg
               PROVE  RecOK(X.rec[m], [w.story EXCEPT ![k] = Told(w.story[k], what)][m])
    BY <1>3 DEF Agreeing
  <2>1. RecOK(L.rec[m], w.story[m]) /\ m \in Key /\ w.story \in [Key -> Stories]
    BY <1>1, Types DEF Good, Agreeing, World
  <2>2. CASE m = k
    BY <1>2, <2>1, <2>2 DEF RecOK, Told, Over
  <2>3. CASE m # k
    BY <1>2, <2>1, <2>3 DEF RecOK
  <2> QED
    BY <2>2, <2>3
<1>5. OneAttached(u.life)
  <2>1. OneAttached(L)
    BY DEF Good
  <2> QED
    BY <1>2, <1>3, <2>1, Types DEF OneAttached
<1>6. Fits(Tracked(u.life))
  <2>1. Tracked(u.life) \subseteq Tracked(L)
    BY <1>2, <1>3 DEF Tracked
  <2> QED
    BY <2>1, FewerFit DEF Good
<1>7. \A m \in Msg \ D : Unknown(w, m) =>
        m # k /\ u.life.rec[m] = None /\ u.story[m] = "none"
  BY <1>2, <1>3, Types DEF Unknown
<1>8. Fine(w, Say(u, k, what), TRUE, D)
  BY <1>3, <1>4, <1>5, <1>6, <1>7, SayFine
<1> QED
  BY <1>8 DEF u, X

-----------------------------------------------------------------------------
(* Endings.                                                                *)
Ending == Terminal \cup {NoPend}

LEMMA AttemptFine ==
  ASSUME NEW w, NEW ok \in BOOLEAN, Sound(w, ok), NEW k \in Key,
         w.life.rec[k] # None, ~w.life.rec[k].term, NEW D
  PROVE  Fine(w, AttemptPending(w, k, ok), ok, D)
<1> DEFINE rec == w.life.rec[k]
<1>1. w \in World /\ w.life \in Maps
  BY DEF Sound, World
<1>2. CASE ok
  <2>1. Fine(w, Say([w EXCEPT !.life = Completed(w.life, k)], k, Verdict(rec.pend)), TRUE, D)
    BY <1>2, EndSaid, VerdictType DEF Sound
  <2> QED
    BY <1>2, <2>1 DEF AttemptPending
<1>3. CASE ~ok
  <2> DEFINE b == [rec EXCEPT !.sure = TRUE, !.timer = TRUE]
             X == [w.life EXCEPT !.rec[k] = b]
  <2>1. rec \in Record
    BY <1>1, Types
  <2>2. b \in Record /\ b.started = rec.started /\ b.term = rec.term
        /\ b.detached = rec.detached
    BY <2>1 DEF Record
  <2>3. X \in Maps /\ X.rec = [w.life.rec EXCEPT ![k] = b] /\ X.cur = w.life.cur
    BY <1>1, <2>2 DEF Maps
  <2> HIDE DEF b, X
  <2>4. Shrinks(w.life, X) /\ Keeps(w.life, X)
    BY <1>1, <2>2, <2>3, SameTask
  <2>5. Fine(w, [w EXCEPT !.life = X], ok, D)
    BY <1>1, <2>3, <2>4, QuietFine
  <2>6. AttemptPending(w, k, ok) = [w EXCEPT !.life = X]
    BY <1>3 DEF AttemptPending, X, b
  <2> QED
    BY <2>5, <2>6
<1> QED
  BY <1>2, <1>3

LEMMA DeferFine ==
  ASSUME NEW w, NEW ok \in BOOLEAN, Sound(w, ok), NEW k \in Key,
         w.life.rec[k] # None, ~w.life.rec[k].term, NEW end \in Ending, NEW D
  PROVE  Fine(w, Defer(w, k, end, ok), ok, D)
<1> DEFINE rec == w.life.rec[k]
           held == rec.pend.out = end.out /\ rec.pend.by = end.by /\ rec.timer
           due == \/ held \/ Retryable(end) \/ end.st = "settled"
                  \/ end.by = "final" /\ (rec.detached \/ rec.asked)
           later == [rec EXCEPT !.pend = end, !.sure = FALSE, !.timer = due]
           X == [w.life EXCEPT !.rec[k] = later]
           u == [w EXCEPT !.life = X]
<1>1. w \in World /\ w.life \in Maps /\ rec \in Record
  BY Types DEF Sound, World
<1>2. due \in BOOLEAN
  OBVIOUS
<1> HIDE DEF due
<1>3. later \in Record /\ later.started = rec.started /\ later.term = rec.term
      /\ later.detached = rec.detached
  BY <1>1, <1>2 DEF Record, Ending
<1>4. later # None
  BY <1>3, NoneAssumption
<1> HIDE DEF later
<1>5. X \in Maps /\ X.rec = [w.life.rec EXCEPT ![k] = later] /\ X.cur = w.life.cur
      /\ X.rec[k] = later
  BY <1>1, <1>3 DEF Maps
<1>6. Shrinks(w.life, X) /\ Keeps(w.life, X)
  BY <1>1, <1>3, <1>5, SameTask
<1>7. Fine(w, u, ok, D)
  BY <1>1, <1>5, <1>6, QuietFine
<1>8. u.life = X
  BY <1>1 DEF World
<1> HIDE DEF X, u
<1>9. Sound(u, ok)
  BY <1>7, FineSound
<1>10. Fine(u, AttemptPending(u, k, ok), ok, D)
  BY <1>3, <1>4, <1>5, <1>8, <1>9, AttemptFine
<1>11. Fine(w, AttemptPending(u, k, ok), ok, D)
  BY <1>7, <1>10, FineTrans
<1>12. Fine(w, w, ok, D)
  BY <1>1, Unchanged
<1>13. Defer(w, k, end, ok) \in {w, u, AttemptPending(u, k, ok)}
  BY DEF Defer, u, X, later, due
<1> QED
  BY <1>7, <1>11, <1>12, <1>13

(* A refused ending, taken back.                                           *)
LEMMA ReopenedFacts ==
  ASSUME NEW L \in Maps, NEW k \in Key, L.rec[k] # None, ~L.rec[k].term,
         NEW end \in Ending
  PROVE  LET X == Reopened(Completed(L, k), k, L.rec[k], end) IN
         X \in Maps /\ Shrinks(L, X) /\ Keeps(L, X)
<1> DEFINE rec == L.rec[k]
           C == Completed(L, k)
           b == IF k \in Run \/ rec.pend \notin {NoPend, end} THEN rec
                ELSE [rec EXCEPT !.pend = end, !.sure = TRUE, !.timer = TRUE]
           cur == IF k \in Msg /\ C.cur = None THEN k ELSE C.cur
           X == [C EXCEPT !.rec[k] = b, !.cur = cur]
<1>1. rec \in Record
  BY Types
<1>2. b \in Record /\ b.started = rec.started /\ b.term = rec.term
      /\ b.detached = rec.detached /\ b # None
  <2>1. b \in Record /\ b.started = rec.started /\ b.term = rec.term
        /\ b.detached = rec.detached
    BY <1>1 DEF Record, Ending
  <2> QED
    BY <2>1, NoneAssumption
<1> HIDE DEF b
<1>3. /\ C \in Maps /\ C.cur = IF L.cur = k THEN None ELSE L.cur
      /\ \A j \in Key \ {k} : C.rec[j] = L.rec[j]
  BY CompletedFacts
<1> HIDE DEF C
<1>4. X \in Maps /\ X.cur = cur /\ X.rec = [C.rec EXCEPT ![k] = b]
  BY <1>2, <1>3 DEF Maps
<1>5. \A j \in Key : X.rec[j] = IF j = k THEN b ELSE L.rec[j]
  BY <1>3, <1>4 DEF Maps
<1>6. \A j \in Key : /\ X.rec[j] # None <=> L.rec[j] # None
                     /\ X.rec[j].started = L.rec[j].started
                     /\ X.rec[j].term = L.rec[j].term
                     /\ X.rec[j].detached = L.rec[j].detached
  BY <1>2, <1>5
<1>7. ASSUME OneAttached(L), NEW m \in Msg, L.cur = m PROVE X.cur = m
  BY <1>3, <1>4, <1>7, Types
<1>8. Shrinks(L, X) /\ Keeps(L, X)
  BY <1>6, <1>7, Types DEF Shrinks, Keeps, OneAttached
<1>9. X = Reopened(C, k, rec, end)
  BY <1>3 DEF Reopened, b, Maps
<1> QED
  BY <1>4, <1>8, <1>9 DEF C

LEMMA RemoveFacts ==
  ASSUME NEW L \in Maps, NEW k \in Key
  PROVE  LET X == Remove(L, k) IN
         /\ X \in Maps /\ X.rec = [L.rec EXCEPT ![k] = None]
         /\ X.cur = IF L.cur = k THEN None ELSE L.cur
         /\ X.inbound = L.inbound
         /\ \A j \in Key : X.rec[j] = IF j = k THEN None ELSE L.rec[j]
BY DEF Remove, ClearCurrent, Maps

(* A record of a task that does not run goes, or one of a lone run.        *)
LEMMA RemoveShrinks ==
  ASSUME NEW L \in Maps, NEW k \in Key,
         k \in Run \/ L.rec[k] = None \/ L.rec[k].term \/ ~L.rec[k].started
  PROVE  Remove(L, k) \in Maps /\ Shrinks(L, Remove(L, k)) /\ Keeps(L, Remove(L, k))
<1> DEFINE X == Remove(L, k)
<1>1. /\ X \in Maps /\ X.cur = IF L.cur = k THEN None ELSE L.cur
      /\ \A j \in Key : X.rec[j] = IF j = k THEN None ELSE L.rec[j]
  BY RemoveFacts
<1> HIDE DEF X
<1>2. \A m \in Msg : X.rec[m] # None => m # k
  BY <1>1, Types
<1>3. Shrinks(L, X)
  BY <1>1, <1>2, Types DEF Shrinks, OneAttached
<1>4. Keeps(L, X)
  BY <1>1, Types DEF Keeps
<1> QED
  BY <1>1, <1>3, <1>4 DEF X

LEMMA CloseFine ==
  ASSUME NEW w, NEW ok \in BOOLEAN, Sound(w, ok), NEW k \in Key,
         w.life.rec[k] # None, ~w.life.rec[k].term, NEW end \in Ending, NEW D
  PROVE  Fine(w, Close(w, k, end, ok), ok, D)
<1> DEFINE L == w.life
           C == Completed(L, k)
<1>1. w \in World /\ L \in Maps
  BY DEF Sound, World
<1>2. CASE ok
  <2>1. Fine(w, Say([w EXCEPT !.life = C], k, Verdict(end)), TRUE, D)
    BY <1>2, EndSaid, VerdictType DEF Sound
  <2> QED
    BY <1>2, <2>1 DEF Close
<1>3. CASE ~ok /\ k \in Run /\ L.rec[k].resume
  <2>1. Fine(w, [w EXCEPT !.life = Remove(L, k)], ok, D)
    BY <1>1, <1>3, RemoveShrinks, QuietFine
  <2> QED
    BY <1>3, <2>1 DEF Close
<1>4. CASE ~ok /\ ~(k \in Run /\ L.rec[k].resume)
  <2> DEFINE X == Reopened(C, k, L.rec[k], end)
  <2>1. Fine(w, [w EXCEPT !.life = X], ok, D)
    BY <1>1, ReopenedFacts, QuietFine
  <2>2. [[w EXCEPT !.life = C] EXCEPT !.life = Reopened([w EXCEPT !.life = C].life, k, L.rec[k], end)]
        = [w EXCEPT !.life = X]
    BY <1>1 DEF World
  <2> QED
    BY <1>4, <2>1, <2>2 DEF Close
<1> QED
  BY <1>2, <1>3, <1>4

-----------------------------------------------------------------------------
(* Final replies and activity.                                             *)
LEMMA OwnerFacts ==
  ASSUME NEW L \in Maps, NEW r \in Run \cup {None}
  PROVE  /\ OwnerOf(L, r) \in Msg \cup {None, Retired}
         /\ OwnerOf(L, r) \in Msg => L.rec[OwnerOf(L, r)] # None
<1> DEFINE found == {m \in Msg : Live(L, m) /\ r \in RunsOf(L.rec[m])}
<1>1. CASE r = None
  BY <1>1, TaskAssumption DEF OwnerOf, Key
<1>2. CASE r # None /\ Live(L, L.bind[r])
  <2>1. L.bind[r] \in Msg
    BY <1>2, Types DEF Maps, Live
  <2> QED
    BY <1>2, <2>1 DEF OwnerOf, Live
<1>3. CASE r # None /\ ~Live(L, L.bind[r]) /\ found # {}
  <2>1. (CHOOSE m \in found : TRUE) \in found
    BY <1>3
  <2> QED
    BY <1>3, <2>1 DEF OwnerOf, Live
<1>4. CASE r # None /\ ~Live(L, L.bind[r]) /\ found = {}
  BY <1>4, Types DEF OwnerOf
<1> QED
  BY <1>1, <1>2, <1>3, <1>4

LEMMA RunsOfType ==
  ASSUME NEW rec \in Record \cup Inbound, rec # None
  PROVE  RunsOf(rec) \subseteq Run
BY DEF RunsOf, Record, Inbound

LEMMA RetireFacts ==
  ASSUME NEW L \in Maps, L.inbound # None
  PROVE  /\ RetireInbound(L) \in Maps /\ RetireInbound(L).rec = L.rec
         /\ RetireInbound(L).cur = L.cur
<1>1. L.inbound \in Inbound
  BY DEF Maps
<1>2. RunsOf(L.inbound) \subseteq Run /\ L.inbound.msg \in Msg
  BY <1>1, RunsOfType DEF Inbound
<1> QED
  BY <1>2 DEF RetireInbound, Maps

LEMMA RetireOfFacts ==
  ASSUME NEW L \in Maps, NEW m
  PROVE  /\ RetireInboundOf(L, m) \in Maps /\ RetireInboundOf(L, m).rec = L.rec
         /\ RetireInboundOf(L, m).cur = L.cur
BY RetireFacts DEF RetireInboundOf

LEMMA FinishedFine ==
  ASSUME NEW w, NEW ok \in BOOLEAN, Sound(w, ok), NEW m \in Msg \cup {None},
         NEW r \in Run \cup {None}, NEW end \in Ending, NEW D
  PROVE  Fine(w, Finished(w, m, r, end, ok), ok, D)
<1> DEFINE L == w.life
           named == r = None /\ Live(L, m)
           k == IF named THEN m ELSE OwnerOf(L, r)
           rec == L.rec[k]
           final == end.by = "final"
           F == Finished(w, m, r, end, ok)
<1>1. w \in World /\ L \in Maps
  BY DEF Sound, World
<1>2. Fine(w, w, ok, D)
  BY <1>1, Unchanged
<1>3. CASE r = None /\ ~named
  <2>1. Fine(w, [w EXCEPT !.life = RetireInboundOf(L, m)], ok, D)
    BY <1>1, RetireOfFacts, SameRecords, QuietFine
  <2> QED
    BY <1>3, <2>1 DEF Finished
<1>4. CASE ~(r = None /\ ~named) /\ k \notin Msg
  <2>1. r \in Run
    BY <1>4, Types DEF Live
  <2> DEFINE X == [L EXCEPT !.retired = @ \cup {r}]
             Y == IF X.inbound # None /\ m \in {None, X.inbound.msg}
                  THEN RetireInbound(X) ELSE X
  <2>2. CASE ~final /\ Live(L, r) /\ ~L.rec[r].term
    <3>1. r \in Key /\ L.rec[r] # None
      BY <2>2 DEF Live
    <3>2. Fine(w, Close(w, r, end, ok), ok, D)
      BY <2>2, <3>1, CloseFine
    <3> QED
      BY <1>4, <2>2, <3>2 DEF Finished
  <2>3. CASE ~(~final /\ Live(L, r) /\ ~L.rec[r].term)
    <3>1. X \in Maps /\ X.rec = L.rec /\ X.cur = L.cur
      BY <1>1, <2>1 DEF Maps
    <3>2. Y \in Maps /\ Y.rec = L.rec /\ Y.cur = L.cur
      BY <3>1, RetireFacts
    <3>3. Fine(w, [w EXCEPT !.life = Y], ok, D)
      BY <1>1, <3>2, SameRecords, QuietFine
    <3>4. F = w \/ F = [w EXCEPT !.life = Y]
      BY <1>4, <2>3 DEF Finished
    <3> QED
      BY <1>2, <3>3, <3>4
  <2> QED
    BY <2>2, <2>3
<1>5. CASE ~(r = None /\ ~named) /\ k \in Msg
  <2>1. rec # None /\ rec \in Record /\ k \in Key
    BY <1>1, <1>5, OwnerFacts, Types DEF Live
  <2>2. CASE (final /\ m \notin {None, k}) \/ rec.term
    <3>1. F = w
      BY <1>5, <2>2 DEF Finished
    <3> QED
      BY <1>2, <3>1
  <2>3. CASE ~((final /\ m \notin {None, k}) \/ rec.term) /\ ~rec.started
    <3> DEFINE b == [rec EXCEPT !.term = TRUE]
               Y == [L EXCEPT !.rec[k] = b]
               X == ClearCurrent(Y, k)
    <3>1. b \in Record /\ b.term
      BY <2>1 DEF Record
    <3> HIDE DEF b
    <3>2. Y \in Maps /\ Y.cur = L.cur /\ \A j \in Key : Y.rec[j] = IF j = k THEN b ELSE L.rec[j]
      BY <1>1, <3>1 DEF Maps
    <3>3. X \in Maps /\ X.rec = Y.rec /\ X.cur = IF L.cur = k THEN None ELSE L.cur
      BY <3>2 DEF ClearCurrent, Maps
    <3>4. \A j \in Key : X.rec[j] = IF j = k THEN b ELSE L.rec[j]
      BY <3>2, <3>3
    <3> HIDE DEF Y, X
    <3>5. Shrinks(L, X)
      BY <2>1, <2>3, <3>1, <3>3, <3>4, Types DEF Shrinks, OneAttached
    <3>6. Keeps(L, X)
      BY <2>3, <3>4, Types DEF Keeps
    <3>7. Fine(w, [w EXCEPT !.life = X], ok, D)
      BY <1>1, <3>3, <3>5, <3>6, QuietFine
    <3>8. F = [w EXCEPT !.life = X]
      BY <1>5, <2>3 DEF Finished, X, Y, b
    <3> QED
      BY <3>7, <3>8
  <2>4. CASE ~((final /\ m \notin {None, k}) \/ rec.term) /\ rec.started
    <3>1. F \in {Close(w, k, rec.pend, ok), w, Defer(w, k, end, ok), Close(w, k, end, ok)}
      BY <1>5, <2>4 DEF Finished
    <3>2. rec.pend \in Ending
      BY <2>1 DEF Record, Ending
    <3> HIDE DEF k, F
    <3>3. /\ Fine(w, Close(w, k, rec.pend, ok), ok, D)
          /\ Fine(w, Defer(w, k, end, ok), ok, D)
          /\ Fine(w, Close(w, k, end, ok), ok, D)
      BY <2>1, <2>4, <3>2, CloseFine, DeferFine
    <3> QED
      BY <1>2, <3>1, <3>3 DEF F
  <2> QED
    BY <2>2, <2>3, <2>4
<1> QED
  BY <1>3, <1>4, <1>5

-----------------------------------------------------------------------------
(* Observations and agent events.                                          *)
LEMMA NowFine ==
  ASSUME NEW L, NEW X \in Maps, NEW ok, NEW D, Now(L) \in World,
         Shrinks(L, X), Keeps(L, X)
  PROVE  Fine(Now(L), Now(X), ok, D)
<1>1. Now(X) \in World
  BY DEF Now, World
<1> QED
  BY <1>1 DEF Fine, Now

LEMMA NowLife ==
  ASSUME NEW L, Now(L) \in World
  PROVE  L \in Maps /\ story \in [Key -> Stories] /\ saved \in [Key -> Work \cup {None}]
<1>1. Now(L).life = L /\ Now(L).story = story /\ Now(L).saved = saved
  BY DEF Now
<1> QED
  BY <1>1 DEF World

LEMMA ObservedFine ==
  ASSUME NEW L, NEW ok \in BOOLEAN, Sound(Now(L), ok), NEW m \in Msg, NEW D
  PROVE  Fine(Now(L), Observed(L, m, ok), ok, D)
<1> DEFINE seen == [msg |-> m, inner |-> <<>>, outer |-> Outer[m]]
           before == IF L.inbound = None THEN L ELSE RetireInbound(L)
           X == [before EXCEPT !.inbound = seen]
<1>1. Now(L) \in World /\ L \in Maps
  BY NowLife DEF Sound
<1>2. seen \in Inbound
  BY TaskAssumption DEF Inbound
<1>3. before \in Maps /\ before.rec = L.rec /\ before.cur = L.cur
  BY <1>1, RetireFacts
<1> HIDE DEF seen, before
<1>4. X \in Maps /\ X.rec = L.rec /\ X.cur = L.cur
  BY <1>2, <1>3 DEF Maps
<1>5. Fine(Now(L), Now(X), ok, D) /\ Fine(Now(L), Now(L), ok, D)
  BY <1>1, <1>4, SameRecords, NowFine, Unchanged
<1>6. ok => Good(Now(L))
  BY DEF Sound
<1>7. ok => Fine(Now(L), Note(Now(X)), ok, D) /\ Fine(Now(L), Note(Now(L)), ok, D)
  <2> SUFFICES ASSUME ok = TRUE
               PROVE  Fine(Now(L), Note(Now(X)), TRUE, D) /\ Fine(Now(L), Note(Now(L)), TRUE, D)
    OBVIOUS
  <2> QED
    BY <1>5, <1>6, NoteFine
<1>8. \/ Observed(L, m, ok) \in {Now(L), Now(X)}
      \/ ok /\ Observed(L, m, ok) \in {Note(Now(L)), Note(Now(X))}
  BY DEF Observed, X, before, seen
<1> QED
  BY <1>5, <1>7, <1>8

LEMMA ActiveFine ==
  ASSUME NEW L, NEW ok \in BOOLEAN, Sound(Now(L), ok), NEW r \in Run, NEW kind, NEW D
  PROVE  Fine(Now(L), Active(L, r, kind, ok), ok, D)
<1> DEFINE k == OwnerOf(L, r)
           rec == L.rec[k]
           asked == rec.asked \/ kind = "question"
           alive == [StillAlive(rec) EXCEPT !.asked = @ \/ kind = "question"]
           heard == k \in Msg /\ ~rec.term
           X == IF heard /\ (rec.started \/ kind # "progress")
                THEN [L EXCEPT !.rec[k] = alive] ELSE L
<1>1. Now(L) \in World /\ L \in Maps
  BY NowLife DEF Sound
<1>2. X \in Maps /\ Shrinks(L, X) /\ Keeps(L, X)
  <2>1. CASE heard /\ (rec.started \/ kind # "progress")
    <3>1. rec # None /\ rec \in Record /\ k \in Key
      BY <1>1, <2>1, OwnerFacts, Types
    <3>2. StillAlive(rec) \in Record /\ StillAlive(rec).started = rec.started
          /\ StillAlive(rec).term = rec.term /\ StillAlive(rec).detached = rec.detached
      BY <3>1, Pending
    <3>3. alive \in Record /\ alive.started = rec.started /\ alive.term = rec.term
          /\ alive.detached = rec.detached
      BY <3>2 DEF Record
    <3> HIDE DEF alive
    <3>4. X = [L EXCEPT !.rec[k] = alive]
      BY <2>1
    <3> HIDE DEF X, k
    <3>5. X \in Maps /\ X.rec = [L.rec EXCEPT ![k] = alive] /\ X.cur = L.cur
      BY <1>1, <3>1, <3>3, <3>4 DEF Maps
    <3> QED
      BY <1>1, <3>1, <3>3, <3>5, SameTask
  <2>2. CASE ~(heard /\ (rec.started \/ kind # "progress"))
    <3>1. X = L
      BY <2>2
    <3> QED
      BY <1>1, <3>1, SameRecords
  <2> QED
    BY <2>1, <2>2
<1>3. \/ Active(L, r, kind, ok) \in {Now(L), Now(X)}
      \/ ok /\ Active(L, r, kind, ok) = Note(Now(X))
  BY DEF Active
<1> HIDE DEF X
<1>4. Fine(Now(L), Now(X), ok, D) /\ Fine(Now(L), Now(L), ok, D)
  BY <1>1, <1>2, NowFine, Unchanged
<1>5. ok => Fine(Now(L), Note(Now(X)), ok, D)
  <2> SUFFICES ASSUME ok = TRUE PROVE Fine(Now(L), Note(Now(X)), TRUE, D)
    OBVIOUS
  <2>1. Good(Now(L))
    BY DEF Sound
  <2> QED
    BY <1>4, <2>1, NoteFine
<1> QED
  BY <1>3, <1>4, <1>5

LEMMA TaskStartsFine ==
  ASSUME NEW L, NEW ok \in BOOLEAN, Sound(Now(L), ok), NEW k \in Msg,
         L.rec[k] # None, ~L.rec[k].term, NEW D
  PROVE  Fine(Now(L), TaskStarts(L, k, ok), ok, D)
<1> DEFINE rec == L.rec[k]
           alive == StillAlive(rec)
           running == [alive EXCEPT !.resume = FALSE]
           begun == [rec EXCEPT !.started = TRUE]
           again == [alive EXCEPT !.resume = TRUE]
           b == IF rec.started THEN running ELSE begun
           c == IF rec.started THEN again ELSE rec
           X == [L EXCEPT !.rec[k] = b]
           Y == [L EXCEPT !.rec[k] = c]
<1>1. Now(L) \in World /\ L \in Maps /\ rec \in Record /\ k \in Key
  BY NowLife, Types DEF Sound
<1>2. alive \in Record /\ alive.started = rec.started /\ alive.term = rec.term
      /\ alive.detached = rec.detached
  BY <1>1, Pending
<1>3. /\ b \in Record /\ b.started /\ b.term = rec.term /\ b.detached = rec.detached
      /\ b # None
  BY <1>1, <1>2, NoneAssumption DEF Record
<1>4. /\ c \in Record /\ c.started = rec.started /\ c.term = rec.term
      /\ c.detached = rec.detached
  BY <1>1, <1>2 DEF Record
<1> HIDE DEF b, c
<1>5. /\ X \in Maps /\ X.rec = [L.rec EXCEPT ![k] = b] /\ X.cur = L.cur
      /\ Y \in Maps /\ Y.rec = [L.rec EXCEPT ![k] = c] /\ Y.cur = L.cur
      /\ \A j \in Key : X.rec[j] = IF j = k THEN b ELSE L.rec[j]
  BY <1>1, <1>3, <1>4 DEF Maps
<1>6. Fine(Now(L), Now(Y), ok, D)
  <2> HIDE DEF Y
  <2>1. Shrinks(L, Y) /\ Keeps(L, Y)
    BY <1>1, <1>4, <1>5, SameTask
  <2> QED
    BY <1>1, <1>5, <2>1, NowFine
<1>7. CASE rec.started /\ ~rec.resume
  <2>1. b.started = rec.started
    BY <1>3, <1>7
  <2>2. Fine(Now(L), Now(X), ok, D)
    BY <1>1, <1>3, <1>5, <2>1, SameTask, NowFine
  <2>3. TaskStarts(L, k, ok) = Now(X)
    BY <1>7 DEF TaskStarts, b
  <2> QED
    BY <2>2, <2>3
<1>8. CASE ~(rec.started /\ ~rec.resume) /\ ok
  <2> DEFINE u == Now(X)
  <2>1. u \in World /\ u.life = X /\ u.story = story
    BY <1>1, <1>5, NowLife DEF Now, World
  <2>2. Good(Now(L)) /\ Now(L).life = L /\ Now(L).story = story
    BY <1>8 DEF Sound, Now
  <2>3. \A m \in Msg : RecOK(L.rec[m], story[m])
    BY <2>2 DEF Good, Agreeing
  <2>4. Agreeing(u.life, [u.story EXCEPT ![k] = Told(u.story[k], "start")])
    <3> SUFFICES ASSUME NEW m \in Msg
                 PROVE  RecOK(X.rec[m], [story EXCEPT ![k] = Told(story[k], "start")][m])
      BY <2>1 DEF Agreeing
    <3>1. story \in [Key -> Stories] /\ m \in Key
      BY <1>1, NowLife, Types
    <3>2. CASE m = k
      <4>1. story[k] \in {"none", "open"}
        BY <2>3 DEF RecOK
      <4> QED
        BY <1>3, <1>5, <3>1, <3>2, <4>1 DEF RecOK, Told
    <3>3. CASE m # k
      BY <1>5, <2>3, <3>1, <3>3 DEF RecOK
    <3> QED
      BY <3>2, <3>3
  <2>5. OneAttached(X)
    BY <1>3, <1>5, <2>2, Types DEF OneAttached, Good
  <2>6. Tracked(X) = Tracked(L)
    BY <1>3, <1>5 DEF Tracked
  <2>7. Fits(Tracked(X))
    BY <2>2, <2>6 DEF Good
  <2>8. \A m \in Msg \ D : Unknown(Now(L), m) =>
          m # k /\ u.life.rec[m] = None /\ u.story[m] = "none"
    BY <1>5, <2>1, <2>2, Types DEF Unknown
  <2>9. Fine(Now(L), Say(u, k, "start"), TRUE, D)
    BY <1>1, <2>1, <2>4, <2>5, <2>7, <2>8, SayFine
  <2>10. TaskStarts(L, k, ok) = Say(u, k, "start")
    BY <1>8 DEF TaskStarts, b
  <2> QED
    BY <1>8, <2>9, <2>10
<1>9. CASE ~(rec.started /\ ~rec.resume) /\ ~ok
  <2>1. TaskStarts(L, k, ok) = Now(Y)
    BY <1>9 DEF TaskStarts, c
  <2> QED
    BY <1>6, <2>1
<1> QED
  BY <1>7, <1>8, <1>9

LEMMA TaskEndsFine ==
  ASSUME NEW L, NEW ok \in BOOLEAN, Sound(Now(L), ok), NEW k \in Msg,
         L.rec[k] # None, ~L.rec[k].term, NEW end \in Ending, NEW D
  PROVE  Fine(Now(L), TaskEnds(L, k, end, ok), ok, D)
<1> DEFINE rec == L.rec[k]
           paired == [end EXCEPT !.out = rec.pend.out]
<1>1. Now(L) \in World /\ L \in Maps /\ rec \in Record /\ k \in Key /\ Now(L).life = L
  BY NowLife, Types DEF Sound, Now
<1>2. Fine(Now(L), Now(L), ok, D)
  BY <1>1, Unchanged
<1>3. /\ Fine(Now(L), Close(Now(L), k, end, ok), ok, D)
      /\ Fine(Now(L), Defer(Now(L), k, end, ok), ok, D)
  BY <1>1, CloseFine, DeferFine
<1>4. ASSUME end.st = "settled", rec.pend.by = "final"
      PROVE  Fine(Now(L), Close(Now(L), k, paired, ok), ok, D)
  <2>1. end \in Terminal
    BY <1>4 DEF Ending, NoPend
  <2>2. rec.pend \in Terminal
    BY <1>1, <1>4 DEF Record, NoPend
  <2>3. paired \in Ending
    BY <2>1, <2>2 DEF Terminal, Ending
  <2> HIDE DEF paired
  <2> QED
    BY <1>1, <2>3, CloseFine
<1>5. \/ TaskEnds(L, k, end, ok) \in
           {Now(L), Close(Now(L), k, end, ok), Defer(Now(L), k, end, ok)}
      \/ /\ end.st = "settled" /\ rec.pend.by = "final"
         /\ TaskEnds(L, k, end, ok) = Close(Now(L), k, paired, ok)
  BY DEF TaskEnds
<1> QED
  BY <1>2, <1>3, <1>4, <1>5

-----------------------------------------------------------------------------
(* Making room for a record: one that is terminal may go.                  *)
LEMMA TrackFacts ==
  ASSUME NEW L \in Maps, NEW k \in Key, NEW rec \in Record, L.rec[k] = None,
         NEW X \in Track(L, k, rec)
  PROVE  /\ X \in Maps /\ X.inbound = L.inbound /\ X.rec[k] = rec
         /\ \A j \in Key \ {k} :
              X.rec[j] # L.rec[j] => X.rec[j] = None /\ L.rec[j] # None /\ L.rec[j].term
         /\ X.cur # L.cur => X.cur = None /\ L.cur \in Msg
                             /\ L.rec[L.cur] # None /\ L.rec[L.cur].term
         /\ Fits(Tracked(L)) => Fits(Tracked(X))
<1> DEFINE S == Tracked(L)
<1>1. {x \in Key : Live(L, x)} = S
  BY DEF Live, Tracked
<1>2. rec # None
  BY NoneAssumption
<1>3. CASE Cardinality(S) < MaxRuns /\ X = [L EXCEPT !.rec[k] = rec]
  <2>1. X \in Maps /\ X.inbound = L.inbound /\ X.cur = L.cur
        /\ \A j \in Key : X.rec[j] = IF j = k THEN rec ELSE L.rec[j]
    BY <1>3 DEF Maps
  <2>2. Tracked(X) = S \cup {k} /\ k \notin S
    BY <1>2, <2>1 DEF Tracked
  <2>3. ASSUME Fits(S) PROVE Fits(Tracked(X))
    <3>1. IsFiniteSet(S \cup {k}) /\ Cardinality(S \cup {k}) = Cardinality(S) + 1
      BY <2>2, <2>3, FS_AddElement DEF Fits
    <3>2. Cardinality(S) \in Nat /\ MaxRuns \in Nat
      BY <2>3, FS_CardinalityType, TaskAssumption DEF Fits
    <3> QED
      BY <1>3, <2>2, <3>1, <3>2 DEF Fits
  <2> QED
    BY <2>1, <2>3
<1>4. ASSUME NEW x \in Key, L.rec[x] # None, L.rec[x].term,
             X = [Remove(L, x) EXCEPT !.rec[k] = rec]
      PROVE  /\ X \in Maps /\ X.inbound = L.inbound /\ X.rec[k] = rec
             /\ \A j \in Key \ {k} :
                  X.rec[j] # L.rec[j] => X.rec[j] = None /\ L.rec[j] # None /\ L.rec[j].term
             /\ X.cur # L.cur => X.cur = None /\ L.cur \in Msg
                                 /\ L.rec[L.cur] # None /\ L.rec[L.cur].term
             /\ Fits(Tracked(L)) => Fits(Tracked(X))
  <2> DEFINE R == Remove(L, x)
  <2>1. /\ R \in Maps /\ R.inbound = L.inbound
        /\ R.cur = IF L.cur = x THEN None ELSE L.cur
        /\ \A j \in Key : R.rec[j] = IF j = x THEN None ELSE L.rec[j]
    BY RemoveFacts
  <2>2. x # k
    BY <1>4
  <2> HIDE DEF R
  <2>3. X = [R EXCEPT !.rec[k] = rec]
    BY <1>4 DEF R
  <2>4. X \in Maps /\ X.inbound = L.inbound /\ X.cur = R.cur
        /\ \A j \in Key : X.rec[j] = IF j = k THEN rec ELSE R.rec[j]
    BY <2>1, <2>3 DEF Maps
  <2>5. Tracked(X) = (S \ {x}) \cup {k} /\ k \notin S /\ x \in S
    BY <1>2, <1>4, <2>1, <2>2, <2>4 DEF Tracked
  <2>6. ASSUME Fits(S) PROVE Fits(Tracked(X))
    <3>1. IsFiniteSet(S \ {x}) /\ Cardinality(S \ {x}) = Cardinality(S) - 1
      BY <2>5, <2>6, FS_RemoveElement DEF Fits
    <3>2. IsFiniteSet((S \ {x}) \cup {k})
          /\ Cardinality((S \ {x}) \cup {k}) = Cardinality(S \ {x}) + 1
      BY <2>5, <3>1, FS_AddElement
    <3>3. Cardinality(S) \in Nat
      BY <2>6, FS_CardinalityType DEF Fits
    <3> QED
      BY <2>5, <2>6, <3>1, <3>2, <3>3 DEF Fits
  <2>7. L.cur = x => L.cur \in Msg
    BY Types
  <2> QED
    BY <1>4, <2>1, <2>2, <2>4, <2>6, <2>7
<1>5. \/ Cardinality(S) < MaxRuns /\ X = [L EXCEPT !.rec[k] = rec]
      \/ \E x \in Key : /\ L.rec[x] # None /\ L.rec[x].term
                        /\ X = [Remove(L, x) EXCEPT !.rec[k] = rec]
  BY <1>1 DEF Track, Live
<1> QED
  BY <1>3, <1>4, <1>5

LEMMA LoneRunFine ==
  ASSUME NEW L, NEW ok \in BOOLEAN, Sound(Now(L), ok), NEW r \in Run,
         NEW starts \in BOOLEAN, NEW end \in Ending,
         NEW v \in LoneRun(L, r, starts, end, ok), NEW D
  PROVE  Fine(Now(L), v, ok, D)
<1> DEFINE rec == [NewRecord(None, <<>>) EXCEPT !.started = TRUE, !.term = ~starts]
           what == IF starts THEN "start" ELSE Verdict(end)
<1>1. Now(L) \in World /\ L \in Maps /\ r \in Key /\ Now(L).life = L
      /\ Now(L).story = story
  BY NowLife, Types DEF Sound, Now
<1>2. Fine(Now(L), Now(L), ok, D)
  BY <1>1, Unchanged
<1>3. CASE Live(L, r)
  <2>1. L.rec[r] # None
    BY <1>3 DEF Live
  <2>2. \/ v = Now(L)
        \/ ~L.rec[r].term /\ v = Close(Now(L), r, end, ok)
    BY <1>3 DEF LoneRun
  <2>3. ~L.rec[r].term => Fine(Now(L), Close(Now(L), r, end, ok), ok, D)
    BY <1>1, <2>1, CloseFine
  <2> QED
    BY <1>2, <2>2, <2>3
<1>4. CASE ~Live(L, r)
  <2>1. L.rec[r] = None
    BY <1>1, <1>4 DEF Live
  <2>2. rec \in Record
    <3>1. <<>> \in Seq(Run) /\ NoPend \in Terminal \cup {NoPend}
      OBVIOUS
    <3> QED
      BY <3>1, NoneAssumption DEF NewRecord, Record
  <2>3. \/ v = Now(L)
        \/ \E X \in Track(L, r, rec) :
             v = IF ok THEN Say(Now(X), r, what) ELSE Now(Remove(X, r))
    BY <1>4 DEF LoneRun
  <2> HIDE DEF rec
  <2>4. ASSUME NEW X \in Track(L, r, rec),
               v = IF ok THEN Say(Now(X), r, what) ELSE Now(Remove(X, r))
        PROVE  Fine(Now(L), v, ok, D)
    <3>1. /\ X \in Maps /\ X.rec[r] = rec
          /\ \A j \in Key \ {r} :
               X.rec[j] # L.rec[j] => X.rec[j] = None /\ L.rec[j] # None /\ L.rec[j].term
          /\ X.cur # L.cur => X.cur = None /\ L.cur \in Msg
                              /\ L.rec[L.cur] # None /\ L.rec[L.cur].term
          /\ Fits(Tracked(L)) => Fits(Tracked(X))
      BY <1>1, <2>1, <2>2, TrackFacts
    <3>2. \A m \in Msg : X.rec[m] # L.rec[m] => X.rec[m] = None /\ L.rec[m].term
      BY <3>1, Types
    <3>3. OneAttached(L) => OneAttached(X)
      BY <3>1, <3>2 DEF OneAttached
    <3>4. CASE ok
      <4> DEFINE u == Now(X)
      <4>1. u \in World /\ u.life = X /\ u.story = story
        BY <1>1, <3>1, NowLife DEF Now, World
      <4>2. Good(Now(L))
        BY <3>4 DEF Sound
      <4>3. Agreeing(u.life, [u.story EXCEPT ![r] = Told(u.story[r], what)])
        <5> SUFFICES ASSUME NEW m \in Msg
                     PROVE  RecOK(X.rec[m], [story EXCEPT ![r] = Told(story[r], what)][m])
          BY <4>1 DEF Agreeing
        <5>1. RecOK(L.rec[m], story[m]) /\ m \in Key /\ m # r
          BY <1>1, <4>2, Types DEF Good, Agreeing
        <5>2. story \in [Key -> Stories]
          BY <1>1, NowLife
        <5>3. [story EXCEPT ![r] = Told(story[r], what)][m] = story[m]
          BY <5>1, <5>2
        <5>4. RecOK(X.rec[m], story[m])
          BY <3>2, <5>1 DEF RecOK
        <5> QED
          BY <5>3, <5>4
      <4>4. OneAttached(X) /\ Fits(Tracked(X))
        BY <1>1, <3>1, <3>3, <4>2 DEF Good
      <4>5. \A m \in Msg \ D : Unknown(Now(L), m) =>
              m # r /\ u.life.rec[m] = None /\ u.story[m] = "none"
        BY <1>1, <3>2, <4>1, Types DEF Unknown
      <4>6. what \in {"start", "success", "failure"}
        BY VerdictType
      <4> HIDE DEF u, what
      <4>7. Fine(Now(L), Say(u, r, what), TRUE, D)
        BY <1>1, <4>1, <4>3, <4>4, <4>5, <4>6, SayFine
      <4> QED
        BY <2>4, <3>4, <4>7 DEF u
    <3>5. CASE ~ok
      <4> DEFINE Y == Remove(X, r)
      <4>1. /\ Y \in Maps /\ Y.cur = IF X.cur = r THEN None ELSE X.cur
            /\ \A j \in Key : Y.rec[j] = IF j = r THEN None ELSE X.rec[j]
        BY <1>1, <3>1, RemoveFacts
      <4> HIDE DEF Y
      <4>2. \A j \in Key : Y.rec[j] # L.rec[j] =>
              Y.rec[j] = None /\ L.rec[j] # None /\ L.rec[j].term
        BY <2>1, <3>1, <4>1
      <4>3. Y.cur = X.cur
        BY <1>1, <3>1, <4>1, Types
      <4>4. Shrinks(L, Y)
        BY <3>1, <4>2, <4>3, Types DEF Shrinks, OneAttached
      <4>5. Keeps(L, Y)
        BY <4>2, Types DEF Keeps
      <4>6. Fine(Now(L), Now(Y), ok, D)
        BY <1>1, <4>1, <4>4, <4>5, NowFine
      <4> QED
        BY <2>4, <3>5, <4>6 DEF Y
    <3> QED
      BY <3>4, <3>5
  <2> QED
    BY <1>2, <2>3, <2>4
<1> QED
  BY <1>3, <1>4

LEMMA SeenLastType ==
  ASSUME NEW runs \in Seq(Run), NEW r \in Run
  PROVE  SeenLast(runs, r) \in Seq(Run)
<1> DEFINE at == {i \in DOMAIN runs : runs[i] = r}
           i == CHOOSE x \in at : TRUE
           rest == SubSeq(runs, 1, i - 1) \o SubSeq(runs, i + 1, Len(runs))
<1>1. CASE at = {}
  BY <1>1 DEF SeenLast
<1>2. CASE at # {}
  <2>1. i \in at
    BY <1>2
  <2>2. i \in 1..Len(runs) /\ Len(runs) \in Nat
    BY <2>1
  <2> HIDE DEF i
  <2>3. SubSeq(runs, 1, i - 1) \in Seq(Run)
    <3>1. 1 \in 1..(Len(runs) + 1) /\ i - 1 \in (1 - 1)..Len(runs)
      BY <2>2
    <3> QED
      BY <3>1, SubSeqProperties
  <2>4. SubSeq(runs, i + 1, Len(runs)) \in Seq(Run)
    <3>1. i + 1 \in 1..(Len(runs) + 1) /\ Len(runs) \in ((i + 1) - 1)..Len(runs)
      BY <2>2
    <3> QED
      BY <3>1, SubSeqProperties
  <2>5. rest \in Seq(Run)
    BY <2>3, <2>4, ConcatProperties
  <2> HIDE DEF rest
  <2>6. Append(rest, r) \in Seq(Run)
    BY <2>5
  <2> QED
    BY <1>2, <2>6 DEF SeenLast, rest, i
<1> QED
  BY <1>1, <1>2

LEMMA BindRunFacts ==
  ASSUME NEW L \in Maps, NEW k \in Msg, L.rec[k] # None, NEW r \in Run
  PROVE  LET X == BindRun(L, k, r) IN
         /\ X \in Maps /\ Shrinks(L, X) /\ Keeps(L, X)
         /\ X.rec[k] # None /\ X.rec[k].term = L.rec[k].term
<1> DEFINE rec == L.rec[k]
           B == Bind(L, k, {r})
           inner == IF r \in RunsOf(rec) THEN rec.inner ELSE Append(rec.inner, r)
           b == [rec EXCEPT !.inner = inner]
           X == BindRun(L, k, r)
<1>1. rec \in Record /\ k \in Key
  BY Types
<1>2. inner \in Seq(Run)
  BY <1>1 DEF Record
<1> HIDE DEF inner
<1>3. /\ b \in Record /\ b.started = rec.started /\ b.term = rec.term
      /\ b.detached = rec.detached /\ b # None
  BY <1>1, <1>2, NoneAssumption DEF Record
<1>4. B \in Maps /\ B.rec = L.rec /\ B.cur = L.cur
  BY DEF Bind, Maps
<1>5. X = [B EXCEPT !.rec[k] = b]
  BY <1>4 DEF BindRun, b, inner
<1> HIDE DEF X, B, b
<1>6. X \in Maps /\ X.rec = [L.rec EXCEPT ![k] = b] /\ X.cur = L.cur /\ X.rec[k] = b
  BY <1>1, <1>3, <1>4, <1>5 DEF Maps
<1>7. Shrinks(L, X) /\ Keeps(L, X)
  BY <1>1, <1>3, <1>6, SameTask
<1> QED
  BY <1>3, <1>6, <1>7 DEF X

LEMMA CurrentFacts ==
  ASSUME NEW L \in Maps
  PROVE  /\ CurrentTask(L) \in Msg \cup {None}
         /\ CurrentTask(L) # None =>
              /\ CurrentTask(L) = L.cur /\ CurrentTask(L) \in Msg
              /\ L.rec[CurrentTask(L)] # None /\ ~L.rec[CurrentTask(L)].term
BY Types DEF CurrentTask, Live

LEMMA LifecycleFine ==
  ASSUME NEW L, NEW ok \in BOOLEAN, Sound(Now(L), ok), NEW r \in Run,
         NEW starts \in BOOLEAN, NEW end \in Ending,
         NEW v \in Lifecycle(L, r, starts, end, ok), NEW D
  PROVE  Fine(Now(L), v, ok, D)
<1> DEFINE owner == OwnerOf(L, r)
           cand == IF starts /\ owner = None THEN CurrentTask(L) ELSE None
           k == IF cand # None THEN cand ELSE owner
           X == BindRun(L, k, r)
           I == [L EXCEPT !.inbound.inner = SeenLast(@, r)]
<1>1. Now(L) \in World /\ L \in Maps
  BY NowLife DEF Sound
<1>2. Fine(Now(L), Now(L), ok, D)
  BY <1>1, Unchanged
<1>3. ASSUME L.inbound # None, v = Now(I) PROVE Fine(Now(L), v, ok, D)
  <2>1. L.inbound \in Inbound
    BY <1>1, <1>3 DEF Maps
  <2>2. SeenLast(L.inbound.inner, r) \in Seq(Run)
    BY <2>1, SeenLastType DEF Inbound
  <2>3. [L.inbound EXCEPT !.inner = SeenLast(@, r)] \in Inbound
    BY <2>1, <2>2 DEF Inbound
  <2>4. I \in Maps /\ I.rec = L.rec /\ I.cur = L.cur
    BY <1>1, <2>3 DEF Maps
  <2>5. Fine(Now(L), Now(I), ok, D)
    BY <1>1, <2>4, SameRecords, NowFine
  <2> QED
    BY <1>3, <2>5
<1>4. k \in Msg \cup {None, Retired} /\ (k \in Msg => L.rec[k] # None)
  BY <1>1, OwnerFacts, CurrentFacts
<1>5. ASSUME k \in Msg, ~L.rec[k].term,
             v = IF starts THEN TaskStarts(X, k, ok) ELSE TaskEnds(X, k, end, ok)
      PROVE  Fine(Now(L), v, ok, D)
  <2> HIDE DEF k
  <2>1. /\ X \in Maps /\ Shrinks(L, X) /\ Keeps(L, X)
        /\ X.rec[k] # None /\ X.rec[k].term = L.rec[k].term
    BY <1>1, <1>4, <1>5, BindRunFacts
  <2>2. Fine(Now(L), Now(X), ok, D)
    BY <1>1, <2>1, NowFine
  <2>3. Sound(Now(X), ok)
    BY <2>2, FineSound
  <2> HIDE DEF X
  <2>4. /\ Fine(Now(X), TaskStarts(X, k, ok), ok, D)
        /\ Fine(Now(X), TaskEnds(X, k, end, ok), ok, D)
    BY <1>5, <2>1, <2>3, TaskStartsFine, TaskEndsFine
  <2> QED
    BY <1>5, <2>2, <2>4, FineTrans
<1>6. \/ v = Now(L)
      \/ L.inbound # None /\ v = Now(I)
      \/ v \in LoneRun(L, r, starts, end, ok)
      \/ /\ k # None /\ k # Retired /\ ~L.rec[k].term
         /\ v = IF starts THEN TaskStarts(X, k, ok) ELSE TaskEnds(X, k, end, ok)
  BY DEF Lifecycle
<1>7. v \in LoneRun(L, r, starts, end, ok) => Fine(Now(L), v, ok, D)
  BY LoneRunFine
<1> QED
  BY <1>2, <1>3, <1>4, <1>5, <1>6, <1>7

-----------------------------------------------------------------------------
(* Dispatching a message.                                                  *)
NoneAttached(L) ==
  \A m \in Msg : L.rec[m] # None => L.rec[m].term \/ L.rec[m].detached

LEMMA AttemptFacts ==
  ASSUME NEW w \in World, NEW ok \in BOOLEAN, NEW k \in Key,
         w.life.rec[k] # None, ~w.life.rec[k].term
  PROVE  LET X == AttemptPending(w, k, ok).life IN
         /\ X \in Maps /\ X.inbound = w.life.inbound
         /\ \A j \in Key \ {k} : X.rec[j] = w.life.rec[j]
         /\ X.rec[k] # None /\ X.rec[k].started = w.life.rec[k].started
         /\ X.rec[k].detached = w.life.rec[k].detached
         /\ X.rec[k].term <=> ok
         /\ X.cur = IF ok /\ w.life.cur = k THEN None ELSE w.life.cur
<1> DEFINE L == w.life
           b == [L.rec[k] EXCEPT !.sure = TRUE, !.timer = TRUE]
<1>1. L \in Maps /\ L.rec[k] \in Record
  BY Types DEF World
<1>2. CASE ok
  <2>1. AttemptPending(w, k, ok).life = Completed(L, k)
    BY <1>2 DEF AttemptPending, Say, World
  <2>2. Completed(L, k).inbound = L.inbound
    BY <1>1 DEF Completed, ClearCurrent, Maps
  <2> DEFINE X == Completed(L, k)
  <2>3. /\ X \in Maps /\ X.cur = (IF L.cur = k THEN None ELSE L.cur)
        /\ X.rec[k] \in Record /\ X.rec[k].term
        /\ X.rec[k].started = L.rec[k].started
        /\ X.rec[k].detached = L.rec[k].detached
        /\ \A j \in Key \ {k} : X.rec[j] = L.rec[j]
    BY <1>1, CompletedFacts
  <2>4. X.rec[k] # None
    BY <2>3, NoneAssumption
  <2> HIDE DEF X
  <2> QED
    BY <1>2, <2>1, <2>2, <2>3, <2>4 DEF X
<1>3. CASE ~ok
  <2>1. AttemptPending(w, k, ok).life = [L EXCEPT !.rec[k] = b]
    BY <1>3 DEF AttemptPending, World
  <2>2. b \in Record /\ b.started = L.rec[k].started /\ b.term = L.rec[k].term
        /\ b.detached = L.rec[k].detached /\ b # None
    BY <1>1, NoneAssumption DEF Record
  <2> HIDE DEF b
  <2>3. /\ [L EXCEPT !.rec[k] = b] \in Maps
        /\ [L EXCEPT !.rec[k] = b].rec = [L.rec EXCEPT ![k] = b]
        /\ [L EXCEPT !.rec[k] = b].cur = L.cur
        /\ [L EXCEPT !.rec[k] = b].inbound = L.inbound
    BY <1>1, <2>2 DEF Maps
  <2>4. \A j \in Key : [L.rec EXCEPT ![k] = b][j] = IF j = k THEN b ELSE L.rec[j]
    BY <1>1 DEF Maps
  <2> QED
    BY <1>3, <2>1, <2>2, <2>3, <2>4
<1> QED
  BY <1>2, <1>3

LEMMA AttemptRefused ==
  ASSUME NEW w \in World, NEW k \in Key
  PROVE  /\ AttemptPending(w, k, FALSE).story = w.story
         /\ AttemptPending(w, k, FALSE).saved = w.saved
BY DEF AttemptPending, World

(* The current task goes on detached.                                      *)
LEMMA DetachFacts ==
  ASSUME NEW L \in Maps, NEW p \in Msg, L.rec[p] # None, L.cur = p
  PROVE  LET X == Detach(L, p) IN
         /\ X \in Maps /\ X.inbound = L.inbound /\ X.cur = None
         /\ \A j \in Key \ {p} : X.rec[j] = L.rec[j]
         /\ X.rec[p] # None /\ X.rec[p].started = L.rec[p].started
         /\ X.rec[p].term = L.rec[p].term /\ X.rec[p].detached
         /\ Shrinks(L, X)
<1> DEFINE b == [L.rec[p] EXCEPT !.detached = TRUE]
           Y == [L EXCEPT !.rec[p] = b]
           X == ClearCurrent(Y, p)
<1>1. p \in Key /\ L.rec[p] \in Record
  BY Types
<1>2. b \in Record /\ b.started = L.rec[p].started /\ b.term = L.rec[p].term
      /\ b.detached /\ b # None
  BY <1>1, NoneAssumption DEF Record
<1> HIDE DEF b
<1>3. Y \in Maps /\ Y.inbound = L.inbound /\ Y.cur = p
      /\ \A j \in Key : Y.rec[j] = IF j = p THEN b ELSE L.rec[j]
  BY <1>1, <1>2 DEF Maps
<1> HIDE DEF Y
<1>4. X \in Maps /\ X.inbound = L.inbound /\ X.cur = None /\ X.rec = Y.rec
  BY <1>3 DEF ClearCurrent, Maps
<1> HIDE DEF X
<1>5. Shrinks(L, X)
  BY <1>2, <1>3, <1>4, Types DEF Shrinks, OneAttached
<1>6. X = Detach(L, p)
  BY DEF Detach, X, Y, b
<1> QED
  BY <1>1, <1>2, <1>3, <1>4, <1>5, <1>6

LEMMA SupersedeFacts ==
  ASSUME NEW L \in Maps, NEW p \in Msg, L.rec[p] # None, L.cur \in {p, None}
  PROVE  LET X == Supersede(L, p) IN
         /\ X \in Maps /\ X.inbound = L.inbound /\ X.cur = None
         /\ \A j \in Key : X.rec[j] = IF j = p THEN None ELSE L.rec[j]
         /\ L.rec[p].term \/ ~L.rec[p].started => Shrinks(L, X)
<1> DEFINE Y == [L EXCEPT !.retired = @ \cup RunsOf(L.rec[p])]
<1>1. p \in Key /\ L.rec[p] \in Record
  BY Types
<1>2. RunsOf(L.rec[p]) \subseteq Run
  BY <1>1, RunsOfType
<1>3. Y \in Maps /\ Y.inbound = L.inbound /\ Y.cur = L.cur /\ Y.rec = L.rec
  BY <1>2 DEF Maps
<1>4. Supersede(L, p) = Remove(Y, p)
  BY DEF Supersede
<1> HIDE DEF Y
<1>5. L.rec[p].term \/ ~L.rec[p].started => Shrinks(Y, Remove(Y, p))
  BY <1>1, <1>3, RemoveShrinks
<1>6. Shrinks(L, Y)
  BY <1>3, SameRecords
<1> DEFINE X == Remove(Y, p)
<1>7. /\ X \in Maps /\ X.inbound = L.inbound
      /\ X.cur = IF Y.cur = p THEN None ELSE Y.cur
      /\ \A j \in Key : X.rec[j] = IF j = p THEN None ELSE L.rec[j]
  <2>1. /\ X \in Maps /\ X.inbound = Y.inbound
        /\ X.cur = IF Y.cur = p THEN None ELSE Y.cur
        /\ \A j \in Key : X.rec[j] = IF j = p THEN None ELSE Y.rec[j]
    BY <1>1, <1>3, RemoveFacts
  <2> HIDE DEF X
  <2> QED
    BY <1>3, <2>1
<1> HIDE DEF X
<1>8. X.cur = None
  BY <1>3, <1>7
<1>9. L.rec[p].term \/ ~L.rec[p].started => Shrinks(L, X)
  BY <1>5, <1>6, ShrinksTrans DEF X
<1> QED
  BY <1>4, <1>7, <1>8, <1>9 DEF X

(* What is left of the current task p of w after it was displaced: it was  *)
(* told as ended, or a rollback brings it back.                            *)
Displaced(w, p, ok, d) ==
  LET L == w.life
      D == d.w.life
  IN /\ d.w \in World /\ D.inbound = L.inbound /\ NoneAttached(D)
     /\ \A j \in Key \ {p} : D.rec[j] = L.rec[j]
     /\ d.back \in BOOLEAN /\ (d.back => p # None)
     /\ \/ /\ d.w.story = w.story /\ d.w.saved = w.saved /\ Shrinks(L, D)
           /\ p # None => d.back
        \/ /\ ok /\ ~d.back /\ Good(d.w)
           /\ \A m \in Msg : Unknown(w, m) => Unknown(d.w, m)
     /\ p # None /\ d.back =>
          \/ D.rec[p] = None /\ ~L.rec[p].started
          \/ D.rec[p] # None /\ ~D.rec[p].term /\ D.rec[p].started = L.rec[p].started

LEMMA DisplaceFacts ==
  ASSUME NEW w, NEW ok \in BOOLEAN, Sound(w, ok), NEW p, p = CurrentTask(w.life),
         NEW d \in Displace(w, p, ok)
  PROVE  Displaced(w, p, ok, d)
<1> DEFINE L == w.life
           tried == AttemptPending(w, p, ok)
           apart == [w EXCEPT !.life = Detach(L, p)]
           pushed == [tried EXCEPT !.life = Detach(tried.life, p)]
           over == [tried EXCEPT !.life = Supersede(tried.life, p)]
           given == [w EXCEPT !.life = Supersede(L, p)]
<1>1. w \in World /\ L \in Maps /\ OneAttached(L)
  BY DEF Sound, World
<1>2. CASE p = None
  <2>1. d = [w |-> w, back |-> FALSE]
    BY <1>2 DEF Displace
  <2>2. NoneAttached(L)
    BY <1>1, <1>2, Types DEF NoneAttached, OneAttached, CurrentTask, Live
  <2>3. Shrinks(L, L)
    BY SameRecords
  <2> QED
    BY <1>1, <1>2, <2>1, <2>2, <2>3 DEF Displaced
<1>3. CASE p # None
  <2>1. p = L.cur /\ p \in Msg /\ p \in Key /\ L.rec[p] # None /\ ~L.rec[p].term
    BY <1>1, <1>3, CurrentFacts, Types
  <2>2. \A m \in Msg \ {p} : L.rec[m] # None => L.rec[m].term \/ L.rec[m].detached
    BY <1>1, <2>1 DEF OneAttached
  <2>3. d = [w |-> apart, back |-> TRUE] => Displaced(w, p, ok, d)
    <3> SUFFICES ASSUME d = [w |-> apart, back |-> TRUE] PROVE Displaced(w, p, ok, d)
      OBVIOUS
    <3> DEFINE X == Detach(L, p)
    <3>1. /\ X \in Maps /\ X.inbound = L.inbound
          /\ \A j \in Key \ {p} : X.rec[j] = L.rec[j]
          /\ X.rec[p] # None /\ X.rec[p].started = L.rec[p].started
          /\ X.rec[p].term = L.rec[p].term /\ X.rec[p].detached
          /\ Shrinks(L, X)
      BY <1>1, <2>1, DetachFacts
    <3> HIDE DEF X
    <3>2. NoneAttached(X)
      BY <2>2, <3>1, Types DEF NoneAttached
    <3>3. apart \in World /\ apart.life = X /\ apart.story = w.story
          /\ apart.saved = w.saved
      BY <1>1, <3>1 DEF World, X
    <3> HIDE DEF apart
    <3>4. d.w = apart /\ d.back = TRUE
      OBVIOUS
    <3> QED
      BY <1>3, <2>1, <3>1, <3>2, <3>3, <3>4 DEF Displaced
  <2>4. d = [w |-> given, back |-> TRUE] /\ ~L.rec[p].started => Displaced(w, p, ok, d)
    <3> SUFFICES ASSUME d = [w |-> given, back |-> TRUE], ~L.rec[p].started
                 PROVE  Displaced(w, p, ok, d)
      OBVIOUS
    <3> DEFINE X == Supersede(L, p)
    <3>1. /\ X \in Maps /\ X.inbound = L.inbound
          /\ \A j \in Key : X.rec[j] = IF j = p THEN None ELSE L.rec[j]
          /\ ~L.rec[p].started => Shrinks(L, X)
      BY <1>1, <2>1, SupersedeFacts
    <3> HIDE DEF X
    <3>2. NoneAttached(X)
      BY <2>2, <3>1, Types DEF NoneAttached
    <3>3. given \in World /\ given.life = X /\ given.story = w.story
          /\ given.saved = w.saved
      BY <1>1, <3>1 DEF World, X
    <3> HIDE DEF given
    <3>4. d.w = given /\ d.back = TRUE
      OBVIOUS
    <3> QED
      BY <1>3, <2>1, <3>1, <3>2, <3>3, <3>4 DEF Displaced
  <2>5. /\ tried.life \in Maps /\ tried.life.inbound = L.inbound
        /\ \A j \in Key \ {p} : tried.life.rec[j] = L.rec[j]
        /\ tried.life.rec[p] # None /\ tried.life.rec[p].started = L.rec[p].started
        /\ tried.life.rec[p].term <=> ok
        /\ tried.life.cur = IF ok THEN None ELSE p
    BY <1>1, <2>1, AttemptFacts
  <2>6. Fine(w, tried, ok, {})
    BY <2>1, AttemptFine
  <2>7. ~ok => tried.story = w.story /\ tried.saved = w.saved
    <3>1. CASE ok = FALSE
      BY <1>1, <2>1, <3>1, AttemptRefused
    <3> QED
      BY <3>1
  <2>8. tried \in World
    BY <2>6 DEF Fine
  <2> HIDE DEF tried
  <2>9. d = [w |-> pushed, back |-> TRUE] /\ ~ok => Displaced(w, p, ok, d)
    <3> SUFFICES ASSUME ~ok, d = [w |-> pushed, back |-> TRUE] PROVE Displaced(w, p, ok, d)
      OBVIOUS
    <3> DEFINE T == tried.life
               X == Detach(T, p)
    <3>1. /\ X \in Maps /\ X.inbound = T.inbound
          /\ \A j \in Key \ {p} : X.rec[j] = T.rec[j]
          /\ X.rec[p] # None /\ X.rec[p].started = T.rec[p].started
          /\ X.rec[p].term = T.rec[p].term /\ X.rec[p].detached
          /\ Shrinks(T, X)
      BY <2>1, <2>5, DetachFacts
    <3> HIDE DEF X
    <3>2. Shrinks(L, T)
      BY <2>6 DEF Fine
    <3>3. Shrinks(L, X)
      BY <3>1, <3>2, ShrinksTrans
    <3>4. NoneAttached(X)
      BY <2>2, <2>5, <3>1, Types DEF NoneAttached
    <3>5. pushed \in World /\ pushed.life = X /\ pushed.story = tried.story
          /\ pushed.saved = tried.saved
      BY <2>8, <3>1 DEF World, X
    <3> HIDE DEF pushed
    <3>6. d.w = pushed /\ d.back = TRUE
      OBVIOUS
    <3>7. /\ X.inbound = L.inbound /\ \A j \in Key \ {p} : X.rec[j] = L.rec[j]
          /\ X.rec[p] # None /\ ~X.rec[p].term /\ X.rec[p].started = L.rec[p].started
      BY <2>5, <3>1
    <3> QED
      BY <1>3, <2>7, <3>3, <3>4, <3>5, <3>6, <3>7 DEF Displaced
  <2>10. d = [w |-> over, back |-> FALSE] /\ ok => Displaced(w, p, ok, d)
    <3> SUFFICES ASSUME ok, d = [w |-> over, back |-> FALSE] PROVE Displaced(w, p, ok, d)
      OBVIOUS
    <3> DEFINE T == tried.life
               X == Supersede(T, p)
    <3>1. /\ X \in Maps /\ X.inbound = T.inbound
          /\ \A j \in Key : X.rec[j] = IF j = p THEN None ELSE T.rec[j]
          /\ Shrinks(T, X)
      BY <2>1, <2>5, SupersedeFacts
    <3> HIDE DEF X
    <3>2. over \in World /\ over.life = X /\ over.story = tried.story
          /\ over.saved = tried.saved
      BY <2>8, <3>1 DEF World, X
    <3> HIDE DEF over
    <3>3. Good(tried)
      BY <2>6, FineSound DEF Sound
    <3>4. Good(over)
      BY <3>1, <3>2, <3>3, ShrinkGood
    <3>5. \A m \in Msg : Unknown(w, m) => Unknown(over, m)
      <4>1. \A m \in Msg : Unknown(w, m) => Unknown(tried, m)
        BY <2>6, ShrinkUnknown DEF Fine
      <4> QED
        BY <3>1, <3>2, <4>1, ShrinkUnknown
    <3>6. NoneAttached(X)
      BY <2>2, <2>5, <3>1, Types DEF NoneAttached
    <3> QED
      BY <2>1, <2>5, <3>1, <3>2, <3>4, <3>5, <3>6 DEF Displaced
  <2>11. \/ d = [w |-> apart, back |-> TRUE]
         \/ d = [w |-> given, back |-> TRUE] /\ ~L.rec[p].started
         \/ d = [w |-> pushed, back |-> TRUE] /\ ~tried.life.rec[p].term
         \/ d = [w |-> over, back |-> FALSE] /\ tried.life.rec[p].term
    BY <1>3 DEF Displace, tried
  <2> QED
    BY <2>3, <2>4, <2>5, <2>9, <2>10, <2>11
<1> QED
  BY <1>2, <1>3

(* The maps Y are those before a dispatch without the task that was        *)
(* current then; a rollback brings it back.                                *)
LEMMA UndoFacts ==
  ASSUME NEW L \in Maps, OneAttached(L), NEW p, p = CurrentTask(L),
         NEW Y \in Maps, NoneAttached(Y), NEW back \in BOOLEAN, back <=> p # None,
         \A j \in Key \ {p} :
           Y.rec[j] # L.rec[j] => Y.rec[j] = None /\ L.rec[j] # None /\ L.rec[j].term,
         p # None => \/ Y.rec[p] = None /\ ~L.rec[p].started
                     \/ /\ Y.rec[p] # None /\ ~Y.rec[p].term
                        /\ Y.rec[p].started = L.rec[p].started
  PROVE  LET Z == Withdrawn(Y, L, p, back) IN
         Z \in Maps /\ Shrinks(L, Z) /\ Keeps(L, Z)
<1> DEFINE inb == IF Y.inbound = None THEN L.inbound ELSE Y.inbound
           I == [Y EXCEPT !.inbound = IF @ = None THEN L.inbound ELSE @]
<1>1. I \in Maps /\ I.rec = Y.rec /\ I.cur = Y.cur
  BY DEF Maps
<1> HIDE DEF I
<1>2. NoneAttached(I)
  BY <1>1 DEF NoneAttached
<1>3. CASE p = None
  <2>1. Withdrawn(Y, L, p, back) = I
    BY <1>3 DEF Withdrawn, I
  <2>2. \A j \in Key : I.rec[j] # L.rec[j] =>
          I.rec[j] = None /\ L.rec[j] # None /\ L.rec[j].term
    BY <1>1, <1>3, Types
  <2>3. Shrinks(L, I)
    BY <1>2, <2>2, Types DEF Shrinks, OneAttached, NoneAttached
  <2>4. Keeps(L, I)
    BY <2>2, Types DEF Keeps
  <2> QED
    BY <1>1, <2>1, <2>3, <2>4
<1>4. CASE p # None
  <2> DEFINE rec == L.rec[p]
             again == IF Live(I, p) THEN I
                      ELSE [Bind(I, p, RunsOf(rec)) EXCEPT
                              !.rec[p] = rec, !.retired = @ \ RunsOf(rec)]
             b == [again.rec[p] EXCEPT !.detached = FALSE]
             Z == [again EXCEPT !.rec[p].detached = FALSE, !.cur = p]
  <2>1. p \in Msg /\ p \in Key /\ rec # None /\ ~rec.term /\ rec \in Record
    BY <1>4, CurrentFacts, Types
  <2>2. RunsOf(rec) \subseteq Run
    BY <2>1, RunsOfType
  <2>z. p \notin {None, Retired} /\ I.rec \in [Key -> Record \cup {None}]
    BY <1>1, <1>4, <2>1, Types DEF Maps
  <2>3. /\ again \in Maps /\ again.rec[p] \in Record /\ again.rec[p] # None
        /\ ~again.rec[p].term /\ again.rec[p].started = rec.started
        /\ \A j \in Key \ {p} : again.rec[j] = I.rec[j]
    <3>1. CASE Live(I, p)
      BY <1>1, <1>4, <2>1, <3>1, Types DEF Live
    <3>2. CASE ~Live(I, p)
      <4>1. Bind(I, p, RunsOf(rec)) \in Maps /\ Bind(I, p, RunsOf(rec)).rec = I.rec
        BY <1>1, <2>1 DEF Bind, Maps
      <4>2. [Bind(I, p, RunsOf(rec)) EXCEPT
               !.rec[p] = rec, !.retired = @ \ RunsOf(rec)] \in Maps
        <5> DEFINE B == Bind(I, p, RunsOf(rec))
        <5>1. B \in Maps
          BY <4>1
        <5> HIDE DEF B, rec
        <5>2. [B.rec EXCEPT ![p] = rec] \in [Key -> Record \cup {None}]
              /\ B.retired \ RunsOf(rec) \in SUBSET Run
          BY <2>1, <5>1 DEF Maps
        <5>3. [B EXCEPT !.rec = [B.rec EXCEPT ![p] = rec],
                        !.retired = B.retired \ RunsOf(rec)] \in Maps
          BY <5>1, <5>2 DEF Maps
        <5> QED
          BY <5>3 DEF B
      <4>3. again.rec = [I.rec EXCEPT ![p] = rec]
        BY <3>2, <4>1 DEF Maps
      <4>4. \A j \in Key : again.rec[j] = IF j = p THEN rec ELSE I.rec[j]
        BY <1>1, <4>3 DEF Maps
      <4>5. again \in Maps
        BY <3>2, <4>2
      <4> QED
        BY <2>1, <4>4, <4>5
    <3> QED
      BY <3>1, <3>2
  <2>4. Withdrawn(Y, L, p, back) = Z
    BY <1>4, <2>3 DEF Withdrawn, RestorePrevious, I
  <2> HIDE DEF again
  <2>5. b \in Record /\ b # None /\ ~b.term /\ b.started = rec.started /\ ~b.detached
    BY <2>3, NoneAssumption DEF Record
  <2>6. Z = [again EXCEPT !.rec[p] = b, !.cur = p]
    BY <2>3 DEF Maps
  <2> HIDE DEF b
  <2> HIDE DEF Z
  <2>7. Z \in Maps /\ Z.cur = p
        /\ \A j \in Key : Z.rec[j] = IF j = p THEN b ELSE I.rec[j]
    <3>1. Z \in Maps /\ Z.cur = p /\ Z.rec = [again.rec EXCEPT ![p] = b]
      BY <2>1, <2>3, <2>5, <2>6 DEF Maps
    <3>2. \A j \in Key : Z.rec[j] = IF j = p THEN b ELSE again.rec[j]
      BY <2>3, <3>1 DEF Maps
    <3> QED
      BY <2>3, <3>1, <3>2
  <2> HIDE DEF rec
  <2>8. \A j \in Key \ {p} : Z.rec[j] # L.rec[j] =>
          Z.rec[j] = None /\ L.rec[j] # None /\ L.rec[j].term
    BY <1>1, <2>7
  <2>9. \A m \in Msg \ {p} : Z.rec[m] # None => Z.rec[m].term \/ Z.rec[m].detached
    BY <1>2, <2>7, Types DEF NoneAttached
  <2>10. Z.rec[p] # None /\ ~Z.rec[p].term /\ ~Z.rec[p].detached
         /\ Z.rec[p].started = L.rec[p].started /\ L.rec[p] # None /\ ~L.rec[p].term
    BY <2>1, <2>5, <2>7 DEF rec
  <2>11. OneAttached(Z)
    BY <2>7, <2>9 DEF OneAttached
  <2>12. Shrinks(L, Z)
    BY <2>8, <2>10, <2>11, Types DEF Shrinks
  <2>13. Keeps(L, Z)
    BY <2>8, <2>10, Types DEF Keeps
  <2> QED
    BY <2>4, <2>7, <2>12, <2>13
<1> QED
  BY <1>3, <1>4

(* The message is admitted: its record is there, and none runs attached    *)
(* beside it.                                                              *)
LEMMA AdmittedGood ==
  ASSUME NEW w, Good(w), NoneAttached(w.life), NEW m \in Msg, Unknown(w, m),
         NEW inner \in Seq(Run), NEW outer \in Run \cup {None},
         NEW X \in Track(w.life, m, NewRecord(outer, inner))
  PROVE  LET rec == NewRecord(outer, inner)
             A == Bind([X EXCEPT !.cur = m], m, RunsOf(rec))
         IN /\ A \in Maps
            /\ \A j \in Key \ {m} : A.rec[j] # w.life.rec[j] =>
                 A.rec[j] = None /\ w.life.rec[j] # None /\ w.life.rec[j].term
            /\ Good([w EXCEPT !.life = A])
<1> DEFINE rec == NewRecord(outer, inner)
           L == w.life
           A == Bind([X EXCEPT !.cur = m], m, RunsOf(rec))
           u == [w EXCEPT !.life = A]
<1>1. w \in World /\ L \in Maps /\ m \in Key /\ L.rec[m] = None /\ w.story[m] = "none"
  BY Types DEF Good, World, Unknown
<1>2. rec \in Record /\ rec # None /\ ~rec.term /\ ~rec.started
  <2>1. rec \in Record /\ ~rec.term /\ ~rec.started
    BY DEF NewRecord, Record
  <2> QED
    BY <2>1, NoneAssumption
<1> HIDE DEF rec
<1>3. /\ X \in Maps /\ X.rec[m] = rec
      /\ \A j \in Key \ {m} :
           X.rec[j] # L.rec[j] => X.rec[j] = None /\ L.rec[j] # None /\ L.rec[j].term
      /\ Fits(Tracked(L)) => Fits(Tracked(X))
  BY <1>1, <1>2, TrackFacts DEF rec
<1>4. A \in Maps /\ A.rec = X.rec /\ A.cur = m
  <2>1. [X EXCEPT !.cur = m] \in Maps /\ [X EXCEPT !.cur = m].rec = X.rec
        /\ [X EXCEPT !.cur = m].cur = m
    BY <1>3 DEF Maps
  <2> QED
    BY <2>1 DEF Bind, Maps
<1> HIDE DEF A
<1>5. u \in World /\ u.life = A /\ u.story = w.story /\ u.saved = w.saved
  BY <1>1, <1>4 DEF World
<1> HIDE DEF u
<1>6. \A j \in Key \ {m} :
        A.rec[j] # L.rec[j] => A.rec[j] = None /\ L.rec[j] # None /\ L.rec[j].term
  BY <1>3, <1>4
<1>7. Agreeing(A, w.story)
  <2> SUFFICES ASSUME NEW j \in Msg PROVE RecOK(A.rec[j], w.story[j])
    BY DEF Agreeing
  <2>1. RecOK(L.rec[j], w.story[j]) /\ j \in Key
    BY Types DEF Good, Agreeing
  <2> QED
    BY <1>1, <1>2, <1>3, <1>4, <1>6, <2>1 DEF RecOK
<1>8. OneAttached(A)
  BY <1>4, <1>6, Types DEF OneAttached, NoneAttached
<1>9. Fits(Tracked(A))
  <2>1. Tracked(A) = Tracked(X)
    BY <1>4 DEF Tracked
  <2> QED
    BY <1>3, <2>1 DEF Good
<1>10. Good(u)
  BY <1>5, <1>7, <1>8, <1>9 DEF Good
<1> QED
  BY <1>4, <1>6, <1>10 DEF u, A, rec

LEMMA DispatchedFine ==
  ASSUME NEW L, NEW ok \in BOOLEAN, Sound(Now(L), ok), NEW m \in Msg,
         ok => Unknown(Now(L), m), NEW v \in Dispatched(L, m, ok)
  PROVE  Fine(Now(L), v, ok, {m})
<1> DEFINE mine == L.inbound # None /\ L.inbound.msg = m
           inner == IF mine THEN L.inbound.inner ELSE <<>>
           rec == NewRecord(Outer[m], inner)
           open == IF mine THEN [L EXCEPT !.inbound = None] ELSE L
           p == CurrentTask(L)
           w == Now(open)
           Admitted(X) == Bind([X EXCEPT !.cur = m], m, RunsOf(rec))
<1>1. Now(L) \in World /\ L \in Maps /\ OneAttached(L) /\ m \in Key
  BY NowLife, Types DEF Sound, Now
<1>2. CASE Live(L, m) \/ m \in L.gone
  <2>1. v = Now(RetireInboundOf(L, m))
    BY <1>2 DEF Dispatched
  <2>2. RetireInboundOf(L, m) \in Maps /\ Shrinks(L, RetireInboundOf(L, m))
        /\ Keeps(L, RetireInboundOf(L, m))
    BY <1>1, RetireOfFacts, SameRecords
  <2> QED
    BY <1>1, <2>1, <2>2, NowFine
<1>3. CASE ~(Live(L, m) \/ m \in L.gone)
  <2>1. L.rec[m] = None
    BY <1>1, <1>3 DEF Live
  <2>2. inner \in Seq(Run) /\ Outer[m] \in Run \cup {None}
    <3>1. mine => L.inbound \in Inbound
      BY <1>1 DEF Maps
    <3> QED
      BY <3>1, TaskAssumption DEF Inbound
  <2>3. open \in Maps /\ open.rec = L.rec /\ open.cur = L.cur
    BY <1>1 DEF Maps
  <2>4. PICK d \in Displace(w, p, ok) :
          LET room == Track(d.w.life, m, rec)
              Undo(Y) == [d.w EXCEPT !.life = Withdrawn(Y, L, p, d.back)]
          IN v \in IF room = {} THEN {Undo(d.w.life)}
                   ELSE IF ok THEN {Note([d.w EXCEPT !.life = Admitted(X)]) : X \in room}
                   ELSE {Undo(Remove([d.w EXCEPT !.life = Admitted(X)].life, m)) : X \in room}
    <3>1. v \in Dispatched(L, m, ok)
      OBVIOUS
    <3> QED
      BY <1>3, <3>1 DEF Dispatched
  <2> HIDE DEF inner
  <2>5. rec \in Record
    BY <2>2 DEF NewRecord, Record
  <2> HIDE DEF rec, open
  <2>6. Fine(Now(L), w, ok, {m}) /\ Sound(w, ok)
    BY <1>1, <2>3, SameRecords, NowFine, FineSound
  <2>7. w.life = open /\ w.story = story /\ w.saved = saved /\ p = CurrentTask(w.life)
    BY <2>3 DEF Now, CurrentTask, Live
  <2> DEFINE D == d.w.life
  <2>8. Displaced(w, p, ok, d)
    BY <2>6, <2>7, DisplaceFacts
  <2>9. /\ d.w \in World /\ NoneAttached(D) /\ D \in Maps
        /\ \A j \in Key \ {p} : D.rec[j] = L.rec[j]
        /\ d.back \in BOOLEAN /\ (d.back => p # None)
        /\ \/ /\ d.w.story = story /\ d.w.saved = saved /\ Shrinks(open, D)
              /\ p # None => d.back
           \/ ok /\ ~d.back /\ Good(d.w)
        /\ p # None /\ d.back =>
             \/ D.rec[p] = None /\ ~L.rec[p].started
             \/ D.rec[p] # None /\ ~D.rec[p].term /\ D.rec[p].started = L.rec[p].started
    BY <2>3, <2>7, <2>8 DEF Displaced, World
  <2>10. p # m
    BY <1>1, <2>1, CurrentFacts, Types
  <2>11. D.rec[m] = None
    BY <1>1, <2>1, <2>9, <2>10
  <2> DEFINE u(Y) == [d.w EXCEPT !.life = Withdrawn(Y, L, p, d.back)]
  <2>12. ASSUME NEW Y \in Maps, NoneAttached(Y), p # None => d.back,
                d.w.story = story, d.w.saved = saved,
                \A j \in Key : Y.rec[j] # D.rec[j] =>
                  Y.rec[j] = None /\ D.rec[j] # None /\ D.rec[j].term
         PROVE  Fine(Now(L), u(Y), ok, {m})
    <3>1. \A j \in Key \ {p} : Y.rec[j] # L.rec[j] =>
            Y.rec[j] = None /\ L.rec[j] # None /\ L.rec[j].term
      BY <2>9, <2>12
    <3>2. p # None => /\ p \in Key
                      /\ \/ Y.rec[p] = None /\ ~L.rec[p].started
                         \/ /\ Y.rec[p] # None /\ ~Y.rec[p].term
                            /\ Y.rec[p].started = L.rec[p].started
      BY <1>1, <2>9, <2>12, CurrentFacts, Types
    <3> DEFINE Z == Withdrawn(Y, L, p, d.back)
    <3>3. Z \in Maps /\ Shrinks(L, Z) /\ Keeps(L, Z)
      BY <1>1, <2>9, <2>12, <3>1, <3>2, UndoFacts
    <3> HIDE DEF Z
    <3>4. [d.w EXCEPT !.life = Z] = Now(Z)
      BY <2>9, <2>12 DEF World, Now
    <3>5. Fine(Now(L), Now(Z), ok, {m})
      BY <1>1, <3>3, NowFine
    <3> QED
      BY <3>4, <3>5 DEF Z
  <2>13. ok => Good(d.w)
    <3> SUFFICES ASSUME ok, ~Good(d.w) PROVE FALSE
      OBVIOUS
    <3>1. Good(w)
      BY <2>6 DEF Sound
    <3> QED
      BY <2>7, <2>9, <3>1, ShrinkGood
  <2>14. CASE Track(D, m, rec) = {} /\ (p # None => d.back)
              /\ d.w.story = story /\ d.w.saved = saved
    BY <2>4, <2>9, <2>12, <2>14
  <2>18. \A j \in Msg : Unknown(Now(L), j) => Unknown(d.w, j)
    <3>1. \A j \in Msg : Unknown(Now(L), j) => Unknown(w, j)
      BY <2>3, <2>7, Types DEF Unknown, Now
    <3>2. \A j \in Msg : Unknown(w, j) => Unknown(d.w, j)
      BY <2>8, ShrinkUnknown DEF Displaced
    <3> QED
      BY <3>1, <3>2
  <2>15. CASE Track(D, m, rec) = {} /\ ok /\ ~d.back /\ Good(d.w)
    <3> DEFINE I == [D EXCEPT !.inbound = IF @ = None THEN L.inbound ELSE @]
               z == [d.w EXCEPT !.life = I]
    <3>1. Withdrawn(D, L, p, d.back) = I
      BY <2>15 DEF Withdrawn
    <3>2. v = z
      BY <2>4, <2>15, <3>1
    <3>3. I \in Maps /\ I.rec = D.rec /\ I.cur = D.cur
      BY <1>1, <2>9 DEF Maps
    <3> HIDE DEF I
    <3>4. z \in World /\ z.life = I /\ z.story = d.w.story /\ z.saved = d.w.saved
      BY <2>9, <3>3 DEF World
    <3> HIDE DEF z
    <3>5. Shrinks(D, I)
      BY <3>3, SameRecords
    <3>6. Good(z)
      BY <2>15, <3>4, <3>5, ShrinkGood
    <3>7. \A j \in Msg : Unknown(d.w, j) => Unknown(z, j)
      BY <3>4, <3>5, ShrinkUnknown
    <3> QED
      BY <2>15, <2>18, <3>2, <3>4, <3>6, <3>7 DEF Fine
  <2>16. CASE Track(D, m, rec) # {} /\ ok
    <3>1. PICK X \in Track(D, m, rec) : v = Note([d.w EXCEPT !.life = Admitted(X)])
      BY <2>4, <2>16
    <3> DEFINE A == Admitted(X)
               u1 == [d.w EXCEPT !.life = A]
    <3>2. Unknown(d.w, m)
      BY <2>16, <2>18
    <3>3. /\ A \in Maps /\ Good(u1)
          /\ \A j \in Key \ {m} : A.rec[j] # D.rec[j] =>
               A.rec[j] = None /\ D.rec[j] # None /\ D.rec[j].term
      BY <2>2, <2>9, <2>13, <2>16, <3>2, AdmittedGood DEF rec
    <3>7. v = Note(u1)
      BY <3>1
    <3> HIDE DEF A
    <3>4. u1.life = A /\ u1.story = d.w.story
      BY <2>9 DEF World
    <3> HIDE DEF u1
    <3>5. Good(v) /\ v.life = A /\ v.story = d.w.story /\ v.saved = ActiveWork(A)
      BY <3>3, <3>4, <3>7, NoteGood
    <3>6. ASSUME NEW j \in Msg \ {m}, Unknown(Now(L), j) PROVE Unknown(v, j)
      <4>1. D.rec[j] = None /\ d.w.story[j] = "none" /\ j \in Key
        BY <2>18, <3>6, Types DEF Unknown
      <4>2. A.rec[j] = None
        BY <3>3, <3>6, <4>1
      <4>3. ActiveWork(A)[j] = None
        BY <4>1, <4>2 DEF ActiveWork, Live
      <4> QED
        BY <3>5, <4>1, <4>2, <4>3 DEF Unknown
    <3> QED
      BY <2>16, <3>5, <3>6 DEF Fine, Good
  <2>17. CASE Track(D, m, rec) # {} /\ ~ok
    <3>1. PICK X \in Track(D, m, rec) :
            v = u(Remove([d.w EXCEPT !.life = Admitted(X)].life, m))
      BY <2>4, <2>17
    <3> DEFINE A == Admitted(X)
               Y == Remove(A, m)
    <3>2. /\ X \in Maps
          /\ \A j \in Key \ {m} :
               X.rec[j] # D.rec[j] => X.rec[j] = None /\ D.rec[j] # None /\ D.rec[j].term
      BY <1>1, <2>5, <2>9, <2>11, TrackFacts
    <3>3. A \in Maps /\ A.rec = X.rec
      <4>1. [X EXCEPT !.cur = m] \in Maps /\ [X EXCEPT !.cur = m].rec = X.rec
        BY <3>2 DEF Maps
      <4> QED
        BY <4>1 DEF Bind, Maps
    <3>4. [d.w EXCEPT !.life = A].life = A
      BY <2>9 DEF World
    <3> HIDE DEF A
    <3>5. Y \in Maps /\ \A j \in Key : Y.rec[j] = IF j = m THEN None ELSE A.rec[j]
      BY <1>1, <3>3, RemoveFacts
    <3> HIDE DEF Y
    <3>6. \A j \in Key : Y.rec[j] # D.rec[j] =>
            Y.rec[j] = None /\ D.rec[j] # None /\ D.rec[j].term
      BY <2>11, <3>2, <3>3, <3>5
    <3>7. NoneAttached(Y)
      BY <2>9, <3>6, Types DEF NoneAttached
    <3>8. d.w.story = story /\ d.w.saved = saved /\ (p # None => d.back)
      BY <2>9, <2>17
    <3>9. Fine(Now(L), u(Y), ok, {m})
      BY <2>12, <3>5, <3>6, <3>7, <3>8
    <3> QED
      BY <3>1, <3>4, <3>9 DEF Y, A
  <2> QED
    BY <2>9, <2>14, <2>15, <2>16, <2>17
<1> QED
  BY <1>2, <1>3

-----------------------------------------------------------------------------
(* The endings of the reconciliation, written one after another.           *)
LEMMA Least ==
  ASSUME NEW T, T \subseteq Nat, T # {}
  PROVE  \E m \in T : \A k \in T : m <= k
<1> DEFINE U == {0 .. m : m \in T}
           R == StrictSubsetOrdering(Nat)
<1>1. U \subseteq FiniteSubsetsOf(Nat) /\ U # {}
  <2>1. \A m \in T : IsFiniteSet(0 .. m) /\ 0 .. m \subseteq Nat
    BY FS_Interval
  <2> QED
    BY <2>1 DEF FiniteSubsetsOf
<1>2. IsWellFoundedOn(R, FiniteSubsetsOf(Nat))
  BY FS_StrictSubsetOrderingWellFounded
<1> HIDE DEF R
<1>3. PICK x \in U : \A y \in U : <<y, x>> \notin R
  BY <1>1, <1>2, WFMin
<1>4. PICK m \in T : x = 0 .. m
  OBVIOUS
<1>5. ASSUME NEW k \in T, ~(m <= k) PROVE FALSE
  <2>1. k \in Nat /\ m \in Nat /\ k < m
    BY <1>5
  <2>2. 0 .. k \subseteq 0 .. m /\ m \in 0 .. m /\ m \notin 0 .. k
    BY <2>1
  <2>3. <<0 .. k, x>> \in R
    BY <1>4, <2>1, <2>2 DEF R, StrictSubsetOrdering
  <2> QED
    BY <1>3, <2>3
<1> QED
  BY <1>5

LEMMA ClosingDef ==
  ASSUME IsFiniteSet({k \in Key : Settles(k)})
  PROVE  \A keys \in SUBSET {k \in Key : Settles(k)} :
           Closing[keys] =
             IF keys = {} THEN Now(life)
             ELSE LET k == CHOOSE x \in keys : TRUE
                  IN ClosedBy(Closing[keys \ {k}], k)
<1> DEFINE S == {k \in Key : Settles(k)}
           c(keys) == CHOOSE x \in keys : TRUE
           rest(keys) == keys \ {c(keys)}
           step(f, keys) == IF keys = {} THEN Now(life)
                            ELSE ClosedBy(f[rest(keys)], c(keys))
           Upto(n) == {keys \in SUBSET S : Cardinality(keys) <= n}
           Built(n) == \E f : f = [keys \in Upto(n) |-> step(f, keys)]
<1>1. \A keys \in SUBSET S : IsFiniteSet(keys) /\ Cardinality(keys) \in Nat
  BY FS_Subset, FS_CardinalityType
<1>2. \A keys \in SUBSET S : keys # {} =>
        /\ c(keys) \in keys /\ rest(keys) \in SUBSET S
        /\ Cardinality(rest(keys)) = Cardinality(keys) - 1
  BY <1>1, FS_RemoveElement
<1>3. \A keys \in SUBSET S : keys # {} => Cardinality(keys) > 0
  BY <1>1, FS_EmptySet
<1> HIDE DEF S, c, rest
<1>4. Built(0)
  <2> DEFINE f == [keys \in Upto(0) |-> Now(life)]
  <2>1. \A keys \in Upto(0) : keys = {}
    BY <1>1, <1>3
  <2>2. f = [keys \in Upto(0) |-> step(f, keys)]
    BY <2>1
  <2> QED
    BY <2>2
<1>5. ASSUME NEW n \in Nat, Built(n) PROVE Built(n + 1)
  <2>1. PICK g : g = [keys \in Upto(n) |-> step(g, keys)]
    BY <1>5
  <2> DEFINE f == [keys \in Upto(n + 1) |->
                     IF keys \in Upto(n) THEN g[keys] ELSE step(g, keys)]
  <2>2. \A keys \in Upto(n + 1) : keys # {} => rest(keys) \in Upto(n)
    BY <1>1, <1>2
  <2>3. Upto(n) \subseteq Upto(n + 1)
    BY <1>1
  <2>4. \A keys \in Upto(n) : f[keys] = g[keys]
    BY <2>3
  <2>5. \A keys \in Upto(n + 1) : f[keys] = step(g, keys)
    BY <2>1
  <2>6. \A keys \in Upto(n + 1) : step(f, keys) = step(g, keys)
    BY <2>2, <2>4
  <2> HIDE DEF Upto, step
  <2>7. f = [keys \in Upto(n + 1) |-> step(f, keys)]
    BY <2>5, <2>6
  <2> QED
    BY <2>7
<1>6. \A n \in Nat : Built(n)
  <2> HIDE DEF Built
  <2> DEFINE T == {n \in Nat : ~Built(n)}
  <2> SUFFICES ASSUME T # {} PROVE FALSE
    OBVIOUS
  <2>1. PICK n \in T : \A k \in T : n <= k
    BY Least
  <2>2. n \in Nat /\ ~Built(n) /\ n # 0
    BY <1>4
  <2>3. n - 1 \in Nat /\ n = (n - 1) + 1 /\ n - 1 \notin T
    BY <2>1, <2>2
  <2>4. Built(n - 1)
    BY <2>3
  <2> QED
    BY <1>5, <2>2, <2>3, <2>4
<1>7. IsFiniteSet(S) /\ Cardinality(S) \in Nat
  BY <1>1 DEF S
<1>8. Upto(Cardinality(S)) = SUBSET S
  BY <1>7, FS_Subset
<1>9. \E f : f = [keys \in SUBSET S |-> step(f, keys)]
  BY <1>6, <1>7, <1>8
<1>10. Closing = CHOOSE f : f = [keys \in SUBSET S |-> step(f, keys)]
  BY DEF Closing, S, c, rest
<1>11. Closing = [keys \in SUBSET S |-> step(Closing, keys)]
  BY <1>9, <1>10
<1>12. \A keys \in SUBSET S : Closing[keys] = step(Closing, keys)
  BY <1>11
<1> QED
  BY <1>12 DEF S, c, rest

(* The verdict of the reconciliation names a run of the work.              *)
LEMMA ClosedByFine ==
  ASSUME life \in Maps, NEW w, Sound(w, Ok), NEW k \in Key, Settles(k)
  PROVE  Fine(w, ClosedBy(w, k), Ok, {})
<1> DEFINE work == recon.work[k]
           exact == index.run \in RunIds(k, work)
           named == IF k \in Run THEN k
                    ELSE IF work.outer # None THEN work.outer
                    ELSE work.inner[Len(work.inner)]
           end == [by |-> "reconciliation", st |-> "none",
                   out |-> IF exact /\ index.st = "good" THEN "good" ELSE "bad"]
<1>1. end \in Ending
  BY DEF Ending, Terminal
<1>2. work # None /\ ActiveWork(life)[k] = work
      /\ (k \in Msg => index.run \in RunIds(k, work))
  BY DEF Settles
<1>3. life.rec[k] # None /\ life.rec[k] \in Record
      /\ work.outer = life.rec[k].outer /\ work.inner = life.rec[k].inner
  <2>1. Live(life, k) /\ work = [started |-> life.rec[k].started,
                                 detached |-> life.rec[k].detached,
                                 outer |-> life.rec[k].outer,
                                 inner |-> life.rec[k].inner]
    BY <1>2 DEF ActiveWork
  <2> QED
    BY <2>1, Types DEF Live
<1>4. work.outer \in Run \cup {None} /\ work.inner \in Seq(Run)
  BY <1>3 DEF Record
<1> HIDE DEF work
<1>5. named \in Run
  <2>1. CASE k \in Run
    BY <2>1
  <2>2. CASE k \notin Run /\ work.outer # None
    BY <1>4, <2>2
  <2>3. CASE k \notin Run /\ work.outer = None
    <3>1. k \in Msg /\ index.run \in RunsOf(work)
      BY <1>2, <2>3 DEF Key, RunIds
    <3>2. PICK i \in DOMAIN work.inner : index.run = work.inner[i]
      BY <2>3, <3>1 DEF RunsOf
    <3>3. Len(work.inner) \in DOMAIN work.inner
      BY <1>4, <3>2
    <3>4. work.inner[Len(work.inner)] \in Run
      BY <1>4, <3>3
    <3> QED
      BY <2>3, <3>4
  <2> QED
    BY <2>1, <2>2, <2>3
<1>6. ClosedBy(w, k) = Finished(w, None, named, end, Ok)
  BY DEF ClosedBy, work
<1>7. Ok \in BOOLEAN
  BY DEF Ok
<1> HIDE DEF named, end
<1> QED
  BY <1>1, <1>5, <1>6, <1>7, FinishedFine

LEMMA ClosingFine ==
  ASSUME Sound(Now(life), Ok), Fits(Tracked(life))
  PROVE  Fine(Now(life), Closing[{k \in Key : Settles(k)}], Ok, {})
<1> DEFINE S == {k \in Key : Settles(k)}
           Bad == {keys \in SUBSET S : ~Fine(Now(life), Closing[keys], Ok, {})}
           T == {Cardinality(keys) : keys \in Bad}
<1>1. life \in Maps /\ Now(life) \in World /\ Ok \in BOOLEAN
  BY NowLife DEF Sound, Ok
<1>2. S \subseteq Tracked(life)
  <2>1. \A k \in S : ActiveWork(life)[k] # None
    BY DEF Settles
  <2>2. \A k \in Key : ActiveWork(life)[k] # None => life.rec[k] # None
    BY DEF ActiveWork, Live
  <2> QED
    BY <2>1, <2>2 DEF Tracked
<1>3. IsFiniteSet(S)
  BY <1>2, FS_Subset DEF Fits
<1>4. \A keys \in SUBSET S :
        Closing[keys] = IF keys = {} THEN Now(life)
                        ELSE LET k == CHOOSE x \in keys : TRUE
                             IN ClosedBy(Closing[keys \ {k}], k)
  BY <1>3, ClosingDef
<1>5. \A keys \in SUBSET S : IsFiniteSet(keys) /\ Cardinality(keys) \in Nat
  BY <1>3, FS_Subset, FS_CardinalityType
<1>6. SUFFICES ASSUME Bad # {} PROVE FALSE
  OBVIOUS
<1>7. T \subseteq Nat /\ T # {}
  BY <1>5, <1>6
<1>8. PICK n \in T : \A i \in T : n <= i
  BY <1>7, Least
<1>9. PICK keys \in Bad : n = Cardinality(keys)
  OBVIOUS
<1> DEFINE k == CHOOSE x \in keys : TRUE
           rest == keys \ {k}
<1>10. keys # {}
  BY <1>1, <1>4, <1>9, Unchanged
<1>11. k \in keys /\ k \in S /\ k \in Key /\ Settles(k)
  BY <1>9, <1>10
<1>12. Closing[keys] = ClosedBy(Closing[rest], k)
  BY <1>4, <1>9, <1>10
<1> HIDE DEF k
<1>13. rest \in SUBSET S /\ Cardinality(rest) = Cardinality(keys) - 1
  BY <1>5, <1>9, <1>11, FS_RemoveElement
<1>14. rest \notin Bad
  <2>1. Cardinality(rest) \in Nat /\ ~(n <= Cardinality(rest))
    BY <1>5, <1>9, <1>13
  <2> QED
    BY <1>8, <2>1
<1>15. Fine(Now(life), Closing[rest], Ok, {})
  BY <1>13, <1>14
<1>16. Sound(Closing[rest], Ok)
  BY <1>1, <1>15, FineSound
<1>17. Fine(Closing[rest], ClosedBy(Closing[rest], k), Ok, {})
  BY <1>1, <1>11, <1>16, ClosedByFine
<1>18. Fine(Now(life), Closing[keys], Ok, {})
  BY <1>1, <1>12, <1>15, <1>17, FineTrans
<1> QED
  BY <1>9, <1>18

-----------------------------------------------------------------------------
(* The inductive invariant.  While the spool is open the world is Good,    *)
(* and so it is while it is full; what a stopped or dead collector leaves  *)
(* behind is enough to restore it: its records agree with the story, or it *)
(* has none and the cursor tells what ran, and both together fit.          *)
Known(sp, w) ==
  /\ w \in World /\ OneAttached(w.life) /\ Fits(Tracked(w.life))
  /\ SavedOK(w.saved, w.story)
  /\ sp # "closed" => Agreeing(w.life, w.story)
  /\ sp = "closed" =>
       /\ Fits(Tracked(w.life) \cup Listed(w.saved))
       /\ Agreeing(w.life, w.story) \/ \A m \in Msg : w.life.rec[m] = None

(* Nothing is told of a message before it is dispatched.                   *)
Fresh(hk, w) == \A m \in Msg : hk[m].at # "dispatched" => Unknown(w, m)

HostStates ==
  [st : {"idle", "running", "paused", "good", "bad", "failed"}, starts : Nat]

HookStates ==
  [at : {"new", "received", "dispatched"}, replies : SUBSET {"good", "bad", "warning"}]

Around ==
  /\ plan \in Scenario
  /\ spool \in {"open", "full", "closed"}
  /\ recon.phase \in {"idle", "reading", "raced"}
  /\ hooks \in [Msg -> HookStates]
  /\ latest \in Msg \cup {None}
  /\ host \in [Run -> HostStates]
  /\ last \in Run \cup {None}
  /\ wire \in Seq(Event)
  /\ Len(wire) <= MaxWire
  /\ faults \in Nat

Inv == Around /\ Known(spool, Now(life)) /\ Fresh(hooks, Now(life))

LEMMA KnownSound ==
  ASSUME NEW sp, NEW w, Known(sp, w)
  PROVE  Sound(w, sp = "open") /\ (sp # "closed" => Good(w))
BY DEF Known, Sound, Good

LEMMA ShrinkAgreeing ==
  ASSUME NEW L, NEW X, NEW st, Agreeing(L, st), Shrinks(L, X)
  PROVE  Agreeing(X, st)
<1> SUFFICES ASSUME NEW m \in Msg PROVE RecOK(X.rec[m], st[m])
  BY DEF Agreeing
<1>1. RecOK(L.rec[m], st[m]) /\ m \in Key
  BY Types DEF Agreeing
<1>2. X.rec[m] = None \/ X.rec[m].term
      => L.rec[m] = None \/ L.rec[m].term \/ ~L.rec[m].started
  BY DEF Shrinks
<1>3. X.rec[m] # None => L.rec[m] # None
  BY <1>1 DEF Shrinks
<1>4. X.rec[m] # None /\ ~X.rec[m].term
      => ~L.rec[m].term /\ X.rec[m].started = L.rec[m].started
  BY DEF Shrinks
<1> QED
  BY <1>1, <1>2, <1>3, <1>4 DEF RecOK, Over

(* The invariant survives whatever an operator does.                       *)
LEMMA FineKnown ==
  ASSUME NEW sp, NEW w, NEW v, NEW D, Known(sp, w), Fine(w, v, sp = "open", D)
  PROVE  Known(sp, v) /\ \A m \in Msg \ D : Unknown(w, m) => Unknown(v, m)
<1>1. CASE sp # "closed"
  <2>1. Good(w) /\ Sound(w, sp = "open")
    BY <1>1, KnownSound
  <2>2. Good(v)
    <3>1. CASE v.story = w.story /\ v.saved = w.saved /\ Shrinks(w.life, v.life)
      BY <2>1, <3>1, ShrinkGood DEF Fine
    <3> QED
      BY <3>1 DEF Fine
  <2> QED
    BY <1>1, <2>2, ShrinkUnknown DEF Known, Good, Fine
<1>2. CASE sp = "closed"
  <2>1. v \in World /\ v.story = w.story /\ v.saved = w.saved /\ Shrinks(w.life, v.life)
    BY <1>2 DEF Fine
  <2>2. Tracked(v.life) \subseteq Tracked(w.life)
    BY <2>1 DEF Shrinks, Tracked
  <2>3. /\ Fits(Tracked(v.life))
        /\ Fits(Tracked(v.life) \cup Listed(v.saved))
    <3>1. Tracked(v.life) \cup Listed(v.saved) \subseteq Tracked(w.life) \cup Listed(w.saved)
      BY <2>1, <2>2
    <3> QED
      BY <1>2, <2>2, <3>1, FewerFit DEF Known
  <2>4. Agreeing(w.life, w.story) => Agreeing(v.life, v.story)
    BY <2>1, ShrinkAgreeing
  <2>5. \A m \in Msg : w.life.rec[m] = None => v.life.rec[m] = None
    BY <2>1, Types DEF Shrinks
  <2> QED
    BY <1>2, <2>1, <2>3, <2>4, <2>5, ShrinkUnknown DEF Known, Shrinks
<1> QED
  BY <1>1, <1>2

(* What an event that is refused leaves of the tasks that run.             *)
LEMMA FineHarmless ==
  ASSUME NEW w, NEW v, NEW D, Fine(w, v, FALSE, D)
  PROVE  Running(v.life) = Running(w.life) /\ Attached(w.life) \subseteq Attached(v.life)
<1>1. Shrinks(w.life, v.life) /\ Keeps(w.life, v.life)
  BY DEF Fine
<1>2. Running(v.life) = Running(w.life)
  BY <1>1, Types DEF Shrinks, Running, Live
<1>3. Attached(w.life) \subseteq Attached(v.life)
  BY <1>1, <1>2 DEF Keeps, Attached, Running, Live
<1> QED
  BY <1>2, <1>3

Harmless ==
  spool # "open" /\ UNCHANGED SpoolVars =>
    /\ Running(life') = Running(life)
    /\ Attached(life) \subseteq Attached(life')

(* A step that applies an operator.                                        *)
LEMMA FineStep ==
  ASSUME Inv, NEW v, NEW D, Fine(Now(life), v, Ok, D), Becomes(v), spool' = spool,
         \A m \in Msg : hooks'[m].at # "dispatched" =>
                          m \notin D /\ hooks[m].at # "dispatched"
  PROVE  Known(spool, Now(life))' /\ Fresh(hooks, Now(life))' /\ Harmless
<1> DEFINE w == Now(life)
<1>1. Known(spool, w) /\ Fine(w, v, spool = "open", D)
  BY DEF Inv, Ok
<1>2. Now(life)' = v
  <2>1. v \in World
    BY DEF Fine
  <2>2. v = [life |-> v.life, story |-> v.story, saved |-> v.saved]
    BY <2>1 DEF World
  <2> QED
    BY <2>2 DEF Becomes, Now
<1> HIDE DEF w
<1>3. Known(spool, v) /\ \A m \in Msg \ D : Unknown(w, m) => Unknown(v, m)
  BY <1>1, FineKnown
<1>4. Known(spool, Now(life))'
  BY <1>2, <1>3
<1>5. Fresh(hooks', v)
  BY <1>3 DEF Inv, Fresh, w
<1>6. Fresh(hooks, Now(life))'
  BY <1>2, <1>5
<1>7. Harmless
  <2> SUFFICES ASSUME spool # "open"
               PROVE  Running(life') = Running(life) /\ Attached(life) \subseteq Attached(life')
    BY DEF Harmless
  <2>1. Fine(w, v, FALSE, D)
    BY <1>1
  <2>2. w.life = life /\ v.life = life'
    BY DEF w, Now, Becomes
  <2> QED
    BY <2>1, <2>2, FineHarmless
<1> QED
  BY <1>4, <1>6, <1>7

(* A step that leaves the collector and its spool alone.                   *)
LEMMA QuietStep ==
  ASSUME Inv, UNCHANGED <<life, story, saved>>, spool' = spool \/ {spool, spool'} = {"open", "full"},
         \A m \in Msg : hooks'[m].at = hooks[m].at
  PROVE  Known(spool, Now(life))' /\ Fresh(hooks, Now(life))' /\ Harmless
<1>1. Now(life)' = Now(life)
  BY DEF Now
<1>2. Known(spool', Now(life))
  BY DEF Inv, Known
<1>3. Fresh(hooks', Now(life))
  BY DEF Inv, Fresh
<1>4. Harmless
  BY DEF Harmless
<1> QED
  BY <1>1, <1>2, <1>3, <1>4

-----------------------------------------------------------------------------
(* Stopping, restoring and what else is not an event.                      *)
Due(w) ==
  {m \in Msg : /\ Live(w.life, m) /\ ~w.life.rec[m].term
               /\ w.life.rec[m].pend # NoPend
               /\ w.life.rec[m].pend.out = "bad" \/ w.life.rec[m].sure}

(* Of every task that is due the ending is told, or stays for later.       *)
LEMMA DueFacts ==
  ASSUME NEW w, Good(w), NEW k \in Due(w)
  PROVE  LET X == AttemptPending(w, k, Ok) IN
         /\ X \in World
         /\ w.life.rec[k] # None /\ ~w.life.rec[k].term
         /\ X.life.rec[k] # None /\ X.life.rec[k].started = w.life.rec[k].started
         /\ X.life.rec[k].detached = w.life.rec[k].detached
         /\ X.life.rec[k].term <=> Ok
         /\ X.life.cur = IF Ok /\ w.life.cur = k THEN None ELSE w.life.cur
         /\ Ok => X.story[k] \in {"success", "failure"}
         /\ ~Ok => X.story = w.story
<1> DEFINE X == AttemptPending(w, k, Ok)
<1>1. w \in World /\ Ok \in BOOLEAN /\ k \in Msg /\ k \in Key
      /\ w.life.rec[k] # None /\ ~w.life.rec[k].term
  BY Types DEF Good, Ok, Due, Live
<1>2. Sound(w, Ok)
  BY <1>1 DEF Sound, Good
<1>3. Fine(w, X, Ok, {})
  BY <1>1, <1>2, AttemptFine
<1>4. X \in World
  BY <1>3 DEF Fine
<1>5. /\ X.life.rec[k] # None /\ X.life.rec[k].started = w.life.rec[k].started
      /\ X.life.rec[k].detached = w.life.rec[k].detached
      /\ X.life.rec[k].term <=> Ok
      /\ X.life.cur = IF Ok /\ w.life.cur = k THEN None ELSE w.life.cur
  BY <1>1, AttemptFacts
<1>6. ASSUME Ok PROVE X.story[k] \in {"success", "failure"}
  <2> DEFINE what == Verdict(w.life.rec[k].pend)
  <2>1. RecOK(w.life.rec[k], w.story[k])
    BY <1>1 DEF Good, Agreeing
  <2>2. w.story[k] \in {"none", "open"}
    BY <1>1, <2>1 DEF RecOK
  <2>3. what \in {"success", "failure"}
    BY VerdictType
  <2>4. X = Say([w EXCEPT !.life = Completed(@, k)], k, what)
    BY <1>6 DEF AttemptPending
  <2> HIDE DEF what, X
  <2>5. X.story = [w.story EXCEPT ![k] = Told(w.story[k], what)]
    BY <1>1, <2>4 DEF Say, World
  <2>6. X.story[k] = Told(w.story[k], what)
    BY <1>1, <2>5 DEF World
  <2> QED
    BY <2>2, <2>3, <2>6 DEF Told
<1>7. ASSUME ~Ok PROVE X.story = w.story
  <2>1. Ok = FALSE
    BY <1>1, <1>7
  <2>2. X = AttemptPending(w, k, FALSE)
    BY <2>1
  <2> QED
    BY <1>1, <2>2, AttemptRefused
<1> QED
  BY <1>1, <1>4, <1>5, <1>6, <1>7

LEMMA FlushedGood ==
  ASSUME NEW w, Good(w)
  PROVE  LET u == Flushed(w) IN
         /\ u \in World
         /\ Agreeing(u.life, u.story) /\ OneAttached(u.life) /\ Fits(Tracked(u.life))
         /\ SavedOK(ActiveWork(u.life), u.story)
         /\ ActiveWork(u.life) \in [Key -> Work \cup {None}]
         /\ \A m \in Msg : Unknown(w, m) => u.life.rec[m] = None /\ u.story[m] = "none"
<1> DEFINE L == w.life
           due == Due(w)
           One(m) == AttemptPending(w, m, Ok)
           rec == [k \in Key |-> IF k \in due THEN One(k).life.rec[k] ELSE L.rec[k]]
           cur == IF L.cur \in due THEN One(L.cur).life.cur ELSE L.cur
           st == [k \in Key |-> IF k \in due THEN One(k).story[k] ELSE w.story[k]]
           u == Flushed(w)
<1>1. w \in World /\ L \in Maps /\ w.story \in [Key -> Stories] /\ Ok \in BOOLEAN
  BY DEF Good, World, Ok
<1>2. \A k \in due : /\ k \in Key /\ k \in Msg
                     /\ One(k) \in World
                     /\ L.rec[k] # None /\ ~L.rec[k].term
                     /\ One(k).life.rec[k] # None
                     /\ One(k).life.rec[k].started = L.rec[k].started
                     /\ One(k).life.rec[k].detached = L.rec[k].detached
                     /\ One(k).life.rec[k].term <=> Ok
                     /\ One(k).life.cur = IF Ok /\ L.cur = k THEN None ELSE L.cur
                     /\ Ok => One(k).story[k] \in {"success", "failure"}
                     /\ ~Ok => One(k).story = w.story
  <2> SUFFICES ASSUME NEW k \in due
               PROVE  /\ k \in Key /\ k \in Msg
                      /\ One(k) \in World
                      /\ L.rec[k] # None /\ ~L.rec[k].term
                      /\ One(k).life.rec[k] # None
                      /\ One(k).life.rec[k].started = L.rec[k].started
                      /\ One(k).life.rec[k].detached = L.rec[k].detached
                      /\ One(k).life.rec[k].term <=> Ok
                      /\ One(k).life.cur = IF Ok /\ L.cur = k THEN None ELSE L.cur
                      /\ Ok => One(k).story[k] \in {"success", "failure"}
                      /\ ~Ok => One(k).story = w.story
    OBVIOUS
  <2>1. k \in Msg /\ k \in Key
    BY Types DEF Due
  <2> QED
    BY <2>1, DueFacts
<1>3. u = [w EXCEPT !.life = [L EXCEPT !.rec = rec, !.cur = cur], !.story = st]
  BY <1>1 DEF Flushed, Due, World, Maps
<1> HIDE DEF due, One, u
<1>4. \A k \in Key : rec[k] = IF k \in due THEN One(k).life.rec[k] ELSE L.rec[k]
  OBVIOUS
<1>5. \A k \in Key : st[k] = IF k \in due THEN One(k).story[k] ELSE w.story[k]
  OBVIOUS
<1>6. rec \in [Key -> Record \cup {None}]
  <2>1. \A k \in due : One(k).life.rec[k] \in Record \cup {None}
    BY <1>2, Types DEF World
  <2> QED
    BY <1>1, <2>1, Types
<1>7. cur = IF L.cur \in due /\ Ok THEN None ELSE L.cur
  BY <1>2
<1>8. st \in [Key -> Stories]
  <2>1. \A k \in due : One(k).story[k] \in Stories
    BY <1>2 DEF World
  <2> QED
    BY <1>1, <2>1
<1> HIDE DEF rec, cur, st
<1>9. [L EXCEPT !.rec = rec, !.cur = cur] \in Maps
  BY <1>1, <1>6, <1>7 DEF Maps
<1>10. /\ u \in World
       /\ u.life.rec = rec /\ u.life.cur = cur /\ u.story = st /\ u.saved = w.saved
  <2>1. [L EXCEPT !.rec = rec, !.cur = cur].rec = rec
        /\ [L EXCEPT !.rec = rec, !.cur = cur].cur = cur
    BY <1>1 DEF Maps
  <2> DEFINE X == [L EXCEPT !.rec = rec, !.cur = cur]
  <2>2. X \in Maps /\ X.rec = rec /\ X.cur = cur /\ u = [w EXCEPT !.life = X, !.story = st]
    BY <1>3, <1>9, <2>1
  <2> HIDE DEF X
  <2> QED
    BY <1>1, <1>8, <2>2 DEF World
<1>11. \A m \in Msg : /\ rec[m] # None <=> L.rec[m] # None
                      /\ rec[m].started = L.rec[m].started
                      /\ rec[m].detached = L.rec[m].detached
                      /\ rec[m].term <=> (L.rec[m].term \/ (m \in due /\ Ok))
  BY <1>2, <1>4, Types
<1>12. Agreeing(u.life, st)
  <2> SUFFICES ASSUME NEW m \in Msg PROVE RecOK(rec[m], st[m])
    BY <1>10 DEF Agreeing
  <2>1. RecOK(L.rec[m], w.story[m]) /\ m \in Key
    BY Types DEF Good, Agreeing
  <2>2. CASE m \in due /\ Ok
    <3>1. rec[m] # None /\ rec[m].term /\ st[m] \in {"success", "failure"}
      BY <1>2, <1>5, <1>11, <2>1, <2>2
    <3> QED
      BY <3>1 DEF RecOK, Over
  <2>3. CASE ~(m \in due /\ Ok)
    <3>1. st[m] = w.story[m]
      BY <1>2, <1>5, <2>1, <2>3
    <3> QED
      BY <1>11, <2>1, <2>3, <3>1 DEF RecOK
  <2> QED
    BY <2>2, <2>3
<1>13. OneAttached(u.life)
  <2>1. OneAttached(L)
    BY DEF Good
  <2> QED
    BY <1>7, <1>10, <1>11, <2>1 DEF OneAttached
<1>14. Fits(Tracked(u.life))
  <2>1. Tracked(u.life) \subseteq Tracked(L)
    BY <1>2, <1>4, <1>10 DEF Tracked
  <2> QED
    BY <2>1, FewerFit DEF Good
<1>15. u.life \in Maps
  BY <1>10 DEF World
<1>16. ActiveWork(u.life) \in [Key -> Work \cup {None}] /\ SavedOK(ActiveWork(u.life), st)
  BY <1>12, <1>13, <1>14, <1>15, WorkSaved
<1>17. \A m \in Msg : Unknown(w, m) => rec[m] = None /\ st[m] = "none"
  BY <1>2, <1>4, <1>5, Types DEF Unknown
<1> QED
  BY <1>10, <1>12, <1>13, <1>14, <1>16, <1>17 DEF u

LEMMA StopStep ==
  ASSUME Inv, Stop
  PROVE  Known(spool, Now(life))' /\ Fresh(hooks, Now(life))' /\ Harmless
<1> DEFINE w == Now(life)
           u == Flushed(w)
           v == Note(u)
<1>1. Good(w)
  BY KnownSound DEF Inv, Stop
<1>2. /\ u \in World
      /\ Agreeing(u.life, u.story) /\ OneAttached(u.life) /\ Fits(Tracked(u.life))
      /\ SavedOK(ActiveWork(u.life), u.story)
      /\ ActiveWork(u.life) \in [Key -> Work \cup {None}]
      /\ \A m \in Msg : Unknown(w, m) => u.life.rec[m] = None /\ u.story[m] = "none"
  BY <1>1, FlushedGood
<1>3. Becomes(v) /\ spool' = "closed" /\ spool # "closed" /\ hooks' = hooks
  BY DEF Stop, hostVars
<1> HIDE DEF u, w
<1>4. /\ v \in World /\ v.life = u.life /\ v.story = u.story
      /\ v.saved = ActiveWork(u.life)
  BY <1>2 DEF Note, World
<1> HIDE DEF v
<1>5. Now(life)' = v
  <2>1. v = [life |-> v.life, story |-> v.story, saved |-> v.saved]
    BY <1>4 DEF World
  <2> QED
    BY <1>3, <2>1 DEF Becomes, Now
<1>6. Tracked(v.life) \cup Listed(v.saved) = Tracked(v.life)
  BY <1>4 DEF Tracked, Listed, ActiveWork, Live
<1>7. Known("closed", v)
  BY <1>2, <1>4, <1>6 DEF Known
<1>8. Fresh(hooks, v)
  <2> SUFFICES ASSUME NEW m \in Msg, Unknown(w, m) PROVE Unknown(v, m)
    BY DEF Fresh, Inv, w
  <2>1. m \in Key /\ u.life.rec[m] = None /\ u.story[m] = "none"
    BY <1>2, Types
  <2>2. ActiveWork(u.life)[m] = None
    BY <2>1 DEF ActiveWork, Live
  <2> QED
    BY <1>4, <2>1, <2>2 DEF Unknown
<1>9. Harmless
  BY <1>3 DEF Harmless, SpoolVars
<1> QED
  BY <1>3, <1>5, <1>7, <1>8, <1>9

(* What the cursor lists is tracked again.                                 *)
LEMMA RestoreFacts ==
  ASSUME Known("closed", Now(life)), NEW first,
         LET main == {m \in Msg : saved[m] # None /\ ~saved[m].detached}
         IN first \in IF main = {} THEN {None} ELSE main
  PROVE  Good(Now(Restore(first)))
         /\ \A m \in Msg : Unknown(Now(life), m) => Unknown(Now(Restore(first)), m)
<1> DEFINE main == {m \in Msg : saved[m] # None /\ ~saved[m].detached}
           back == {k \in Key : /\ saved[k] # None /\ ~Live(life, k)
                                /\ \/ k \in Run \/ saved[k].detached
                                   \/ k = first /\ CurrentTask(life) = None}
           owned(r) == {m \in back \cap Msg : r \in RunsOf(saved[m])}
           rec == [k \in Key |-> IF k \in back THEN RestoredRecord(k) ELSE life.rec[k]]
           bind == [r \in Run |-> IF owned(r) = {} THEN life.bind[r]
                                  ELSE CHOOSE m \in owned(r) : TRUE]
           cur == IF first \in back THEN first ELSE life.cur
           X == Restore(first)
<1>1. /\ life \in Maps /\ story \in [Key -> Stories] /\ saved \in [Key -> Work \cup {None}]
      /\ OneAttached(life) /\ SavedOK(saved, story)
      /\ Fits(Tracked(life) \cup Listed(saved))
      /\ Agreeing(life, story) \/ \A m \in Msg : life.rec[m] = None
  BY NowLife DEF Known, Now
<1>2. X = [life EXCEPT !.rec = rec, !.bind = bind, !.cur = cur]
  BY <1>1 DEF Restore, Maps
<1>3. \A k \in back : /\ RestoredRecord(k) \in Record /\ RestoredRecord(k) # None
                      /\ ~RestoredRecord(k).term
                      /\ RestoredRecord(k).started = saved[k].started
                      /\ RestoredRecord(k).detached = saved[k].detached
  <2> SUFFICES ASSUME NEW k \in back
               PROVE  /\ RestoredRecord(k) \in Record /\ RestoredRecord(k) # None
                      /\ ~RestoredRecord(k).term
                      /\ RestoredRecord(k).started = saved[k].started
                      /\ RestoredRecord(k).detached = saved[k].detached
    OBVIOUS
  <2>1. saved[k] \in Work
    BY <1>1
  <2>2. /\ saved[k].started \in BOOLEAN /\ saved[k].detached \in BOOLEAN
        /\ saved[k].outer \in Run \cup {None} /\ saved[k].inner \in Seq(Run)
    BY <2>1 DEF Work
  <2>3. /\ RestoredRecord(k) \in Record /\ ~RestoredRecord(k).term
        /\ RestoredRecord(k).started = saved[k].started
        /\ RestoredRecord(k).detached = saved[k].detached
    BY <2>2 DEF RestoredRecord, NewRecord, Record
  <2> QED
    BY <2>3, NoneAssumption
<1>4. first \in back => first \in Msg
  BY Types
<1>5. \A r \in Run : owned(r) # {} => (CHOOSE m \in owned(r) : TRUE) \in Msg
  OBVIOUS
<1>6. \A k \in back : saved[k] # None /\ life.rec[k] = None
                      /\ (k \in Run \/ saved[k].detached \/ (k = first /\ CurrentTask(life) = None))
  BY DEF Live
<1>7. \A k \in Key \ back : life.rec[k] = None =>
        saved[k] = None \/ (k \notin Run /\ ~saved[k].detached
                            /\ (k # first \/ CurrentTask(life) # None))
  BY DEF Live
<1>8. back \subseteq Key
  OBVIOUS
<1> HIDE DEF back
<1>9. \A k \in Key : rec[k] = IF k \in back THEN RestoredRecord(k) ELSE life.rec[k]
  OBVIOUS
<1>10. rec \in [Key -> Record \cup {None}] /\ bind \in [Run -> Msg \cup {None}]
       /\ cur \in Msg \cup {None}
  <2>1. \A k \in Key : (IF k \in back THEN RestoredRecord(k) ELSE life.rec[k]) \in Record \cup {None}
    BY <1>1, <1>3, Types
  <2>2. \A r \in Run : life.bind[r] \in Msg \cup {None}
    BY <1>1 DEF Maps
  <2>3. life.cur \in Msg \cup {None}
    BY <1>1, Types
  <2> HIDE DEF owned
  <2> QED
    BY <1>4, <1>5, <2>1, <2>2, <2>3
<1> HIDE DEF owned, rec, bind, cur
<1>11. X \in Maps /\ X.rec = rec /\ X.cur = cur
  BY <1>1, <1>2, <1>10 DEF Maps
<1> HIDE DEF X
<1>12. Now(X) \in World /\ Now(X).life = X /\ Now(X).story = story /\ Now(X).saved = saved
  BY <1>1, <1>11 DEF Now, World
<1>13. Agreeing(X, story)
  <2> SUFFICES ASSUME NEW m \in Msg PROVE RecOK(rec[m], story[m])
    BY <1>11 DEF Agreeing
  <2>1. m \in Key /\ m \notin Run
    BY Types
  <2>2. /\ saved[m] # None => story[m] = IF saved[m].started THEN "open" ELSE "none"
        /\ story[m] \in Over \cup {"open"}
        /\ story[m] = "open" => saved[m] # None
    BY <1>1 DEF SavedOK
  <2>3. CASE m \in back
    BY <1>3, <1>6, <1>9, <2>1, <2>2, <2>3 DEF RecOK
  <2>4. CASE m \notin back /\ Agreeing(life, story)
    BY <1>9, <2>1, <2>4 DEF Agreeing
  <2>5. CASE m \notin back /\ \A n \in Msg : life.rec[n] = None
    <3>1. CurrentTask(life) = None
      BY <1>1, <2>5, CurrentFacts
    <3>2. saved[m] # None /\ ~saved[m].detached => m = first
      BY <1>1 DEF SavedOK
    <3>3. saved[m] = None
      BY <1>7, <2>1, <2>5, <3>1, <3>2
    <3> QED
      BY <1>9, <2>1, <2>2, <2>5, <3>3 DEF RecOK
  <2> QED
    BY <1>1, <2>3, <2>4, <2>5
<1>14. OneAttached(X)
  <2> SUFFICES ASSUME NEW m \in Msg, rec[m] # None, ~rec[m].term, ~rec[m].detached
               PROVE  cur = m
    BY <1>11 DEF OneAttached
  <2>1. m \in Key /\ m \notin Run
    BY Types
  <2>2. CASE m \in back
    <3>1. m = first
      BY <1>3, <1>6, <1>9, <2>1, <2>2
    <3> QED
      BY <2>2, <3>1 DEF cur
  <2>3. CASE m \notin back
    <3>1. life.rec[m] # None /\ life.cur = m /\ ~life.rec[m].term
      BY <1>1, <1>9, <2>1, <2>3 DEF OneAttached
    <3>2. CurrentTask(life) # None
      BY <2>1, <3>1, Types DEF CurrentTask, Live
    <3>3. ASSUME first \in back PROVE FALSE
      <4>1. saved[first].detached \/ first \in Run
        BY <1>6, <3>2, <3>3
      <4>2. first \in main
        BY <1>8, <3>3, Types
      <4> QED
        BY <4>1, <4>2, Types
    <3> QED
      BY <3>1, <3>3 DEF cur
  <2> QED
    BY <2>2, <2>3
<1>15. Fits(Tracked(X))
  <2>1. Tracked(X) \subseteq Tracked(life) \cup Listed(saved)
    BY <1>6, <1>9, <1>11 DEF Tracked, Listed
  <2> QED
    BY <1>1, <2>1, FewerFit
<1>16. Good(Now(X))
  BY <1>1, <1>12, <1>13, <1>14, <1>15 DEF Good
<1>17. \A m \in Msg : Unknown(Now(life), m) => Unknown(Now(X), m)
  <2> SUFFICES ASSUME NEW m \in Msg, Unknown(Now(life), m) PROVE Unknown(Now(X), m)
    OBVIOUS
  <2>1. m \in Key /\ life.rec[m] = None /\ story[m] = "none" /\ saved[m] = None
    BY Types DEF Unknown, Now
  <2>2. m \notin back
    BY <1>6, <2>1
  <2> QED
    BY <1>9, <1>11, <1>12, <2>1, <2>2 DEF Unknown
<1> QED
  BY <1>16, <1>17 DEF X

LEMMA NoRecords ==
  /\ NewLife \in Maps /\ \A k \in Key : NewLife.rec[k] = None
  /\ Tracked(NewLife) = {} /\ Fits({}) /\ OneAttached(NewLife)
<1>1. NewLife \in Maps /\ \A k \in Key : NewLife.rec[k] = None
  BY DEF NewLife, Maps
<1>2. Tracked(NewLife) = {}
  BY <1>1 DEF Tracked
<1>3. Fits({})
  BY FS_EmptySet, TaskAssumption DEF Fits
<1>4. OneAttached(NewLife)
  BY <1>1, Types DEF OneAttached
<1> QED
  BY <1>1, <1>2, <1>3, <1>4

LEMMA StartStep ==
  ASSUME Inv, Start
  PROVE  Known(spool, Now(life))' /\ Fresh(hooks, Now(life))' /\ Harmless
<1>1. /\ spool = "closed" /\ spool' = "open" /\ hooks' = hooks
      /\ story' = story /\ saved' = saved
  BY DEF Start, hostVars
<1>2. PICK first :
        /\ LET main == {m \in Msg : saved[m] # None /\ ~saved[m].detached}
           IN first \in IF main = {} THEN {None} ELSE main
        /\ life' = Restore(first)
  BY DEF Start
<1> DEFINE v == Now(Restore(first))
<1>3. Good(v) /\ \A m \in Msg : Unknown(Now(life), m) => Unknown(v, m)
  BY <1>1, <1>2, RestoreFacts DEF Inv
<1>4. Now(life)' = v
  BY <1>1, <1>2 DEF Now
<1> HIDE DEF v
<1>5. Known("open", v)
  BY <1>3 DEF Good, Known
<1>6. Fresh(hooks, v)
  BY <1>3 DEF Fresh, Inv
<1>7. Harmless
  BY <1>1 DEF Harmless, SpoolVars
<1> QED
  BY <1>1, <1>4, <1>5, <1>6, <1>7

LEMMA CrashStep ==
  ASSUME Inv, Crash
  PROVE  Known(spool, Now(life))' /\ Fresh(hooks, Now(life))' /\ Harmless
<1> DEFINE v == Now(NewLife)
<1>1. /\ spool' = "closed" /\ hooks' = hooks /\ story' = story /\ saved' = saved
      /\ life' = NewLife /\ faults' = faults + 1 /\ faults \in Nat
  BY DEF Crash, Fault, Inv, Around
<1>2. Now(life)' = v
  BY <1>1 DEF Now
<1>3. /\ story \in [Key -> Stories] /\ saved \in [Key -> Work \cup {None}]
      /\ SavedOK(saved, story)
  BY NowLife DEF Inv, Known, Now
<1>4. v \in World /\ v.life = NewLife /\ v.story = story /\ v.saved = saved
  BY <1>3, NoRecords DEF Now, World
<1> HIDE DEF v
<1>5. Known("closed", v)
  <2>1. Tracked(v.life) \cup Listed(v.saved) = Listed(saved)
    BY <1>4, NoRecords
  <2>2. \A m \in Msg : v.life.rec[m] = None
    BY <1>4, NoRecords, Types
  <2> QED
    BY <1>3, <1>4, <2>1, <2>2, NoRecords DEF Known, SavedOK
<1>6. Fresh(hooks, v)
  <2>1. \A m \in Msg : v.life.rec[m] = None
    BY <1>4, NoRecords, Types
  <2>2. \A m \in Msg : Unknown(Now(life), m) => Unknown(v, m)
    BY <1>4, <2>1 DEF Unknown, Now
  <2> QED
    BY <2>2 DEF Fresh, Inv
<1>7. Harmless
  BY <1>1 DEF Harmless, SpoolVars
<1> QED
  BY <1>1, <1>2, <1>5, <1>6, <1>7

LEMMA PruneStep ==
  ASSUME Inv, Prune
  PROVE  Known(spool, Now(life))' /\ Fresh(hooks, Now(life))' /\ Harmless
<1>1. /\ hooks' = hooks /\ story' = story /\ saved' = saved /\ spool' = spool
  BY DEF Prune, hostVars
<1>2. life \in Maps /\ Now(life) \in World
  BY NowLife DEF Inv, Known
<1>3. PICK X \in Maps : life' = X /\ Shrinks(life, X) /\ Keeps(life, X)
  <2>1. CASE \E k \in Key : Live(life, k) /\ life.rec[k].term /\ life' = Remove(life, k)
    BY <1>2, <2>1, RemoveShrinks
  <2>2. CASE life.inbound # None /\ life' = RetireInbound(life)
    <3>1. RetireInbound(life) \in Maps /\ RetireInbound(life).rec = life.rec
          /\ RetireInbound(life).cur = life.cur
      BY <1>2, <2>2, RetireFacts
    <3> QED
      BY <2>2, <3>1, SameRecords
  <2> QED
    BY <2>1, <2>2 DEF Prune
<1>4. Fine(Now(life), Now(X), Ok, {})
  BY <1>2, <1>3, NowFine
<1>5. Becomes(Now(X))
  BY <1>1, <1>3 DEF Becomes, Now
<1> QED
  BY <1>1, <1>4, <1>5, FineStep

(* An event that is observed, a hook or a timer.                           *)
LEMMA EventStep ==
  ASSUME Inv,
         \/ Handle \/ ReconcileEnd
         \/ \E m \in Msg :
              \/ Receive(m) \/ Dispatch(m) \/ Timer(m)
              \/ \E id \in {m, None}, r \in Run \cup {None}, reply \in plan.reply[m] :
                   FinalReply(m, id, r, reply)
  PROVE  Known(spool, Now(life))' /\ Fresh(hooks, Now(life))' /\ Harmless
<1>1. /\ Sound(Now(life), Ok) /\ Ok \in BOOLEAN /\ life \in Maps /\ Now(life).life = life
      /\ Fits(Tracked(life))
  <2>1. Sound(Now(life), Ok)
    BY KnownSound DEF Inv, Ok
  <2> QED
    BY <2>1, NowLife DEF Inv, Known, Now, Ok
<1>2. CASE Handle
  <2>1. spool' = spool /\ hooks' = hooks
    BY <1>2 DEF Handle, SpoolVars, hostVars
  <2> DEFINE e == Head(wire)
  <2>2. e.run \in Run /\ e.end \in Ending
    <3>1. wire \in Seq(Event) /\ wire # <<>>
      BY <1>2 DEF Inv, Around, Handle
    <3>2. e \in Event
      BY <3>1, HeadTailProperties
    <3> HIDE DEF e
    <3> QED
      BY <3>2 DEF Event, Ending
  <2>3. PICK v : /\ Becomes(v)
                 /\ \/ v \in Lifecycle(life, e.run, e.kind = "start", e.end, Ok)
                    \/ v = Active(life, e.run, e.kind, Ok)
    BY <1>2 DEF Handle
  <2> HIDE DEF e
  <2>4. (e.kind = "start") \in BOOLEAN
    OBVIOUS
  <2> DEFINE starts == e.kind = "start"
  <2> HIDE DEF starts
  <2>5. ASSUME v \in Lifecycle(life, e.run, e.kind = "start", e.end, Ok)
        PROVE  Fine(Now(life), v, Ok, {})
    <3>1. v \in Lifecycle(life, e.run, starts, e.end, Ok) /\ starts \in BOOLEAN
      BY <2>4, <2>5 DEF starts
    <3> QED
      BY <1>1, <2>2, <3>1, LifecycleFine
  <2>6. ASSUME v = Active(life, e.run, e.kind, Ok)
        PROVE  Fine(Now(life), v, Ok, {})
    BY <1>1, <2>2, <2>6, ActiveFine
  <2>7. Fine(Now(life), v, Ok, {})
    BY <2>3, <2>5, <2>6
  <2> QED
    BY <2>1, <2>3, <2>7, FineStep
<1>3. CASE ReconcileEnd
  <2>1. spool' = spool /\ hooks' = hooks /\ Becomes(Closing[{k \in Key : Settles(k)}])
    BY <1>3 DEF ReconcileEnd, SpoolVars, hostVars
  <2>2. Fine(Now(life), Closing[{k \in Key : Settles(k)}], Ok, {})
    BY <1>1, ClosingFine
  <2> QED
    BY <2>1, <2>2, FineStep
<1>4. ASSUME NEW m \in Msg, Receive(m)
      PROVE  Known(spool, Now(life))' /\ Fresh(hooks, Now(life))' /\ Harmless
  <2>1. /\ spool' = spool /\ Becomes(Observed(life, m, Ok))
        /\ hooks' = [hooks EXCEPT ![m].at = "received"] /\ hooks[m].at = "new"
    BY <1>4 DEF Receive, SpoolVars
  <2> DEFINE none == {}
  <2>2. Fine(Now(life), Observed(life, m, Ok), Ok, none)
    BY <1>1, ObservedFine
  <2>3. \A n \in Msg : hooks'[n].at # "dispatched" =>
                         n \notin none /\ hooks[n].at # "dispatched"
    BY <2>1 DEF Inv, Around, HookStates
  <2> HIDE DEF none
  <2> QED
    BY <2>1, <2>2, <2>3, FineStep
<1>5. ASSUME NEW m \in Msg, Dispatch(m)
      PROVE  Known(spool, Now(life))' /\ Fresh(hooks, Now(life))' /\ Harmless
  <2>1. /\ spool' = spool /\ hooks[m].at = "received"
        /\ hooks' = [hooks EXCEPT ![m].at = "dispatched"]
    BY <1>5 DEF Dispatch, SpoolVars
  <2>2. PICK v \in Dispatched(life, m, Ok) : Becomes(v)
    BY <1>5 DEF Dispatch
  <2>3. Unknown(Now(life), m)
    BY <2>1 DEF Inv, Fresh
  <2>4. Fine(Now(life), v, Ok, {m})
    BY <1>1, <2>3, DispatchedFine
  <2>5. \A n \in Msg : hooks'[n].at # "dispatched" =>
                         n \notin {m} /\ hooks[n].at # "dispatched"
    BY <2>1 DEF Inv, Around, HookStates
  <2> QED
    BY <2>1, <2>2, <2>4, <2>5, FineStep
<1>6. ASSUME NEW m \in Msg, Timer(m)
      PROVE  Known(spool, Now(life))' /\ Fresh(hooks, Now(life))' /\ Harmless
  <2>1. /\ spool' = spool /\ hooks' = hooks /\ Becomes(AttemptPending(Now(life), m, Ok))
        /\ life.rec[m] # None /\ ~life.rec[m].term /\ m \in Key
    BY <1>6, Types DEF Timer, SpoolVars, hostVars, Live
  <2>2. Fine(Now(life), AttemptPending(Now(life), m, Ok), Ok, {})
    BY <1>1, <2>1, AttemptFine
  <2> QED
    BY <2>1, <2>2, FineStep
<1>7. ASSUME NEW m \in Msg, NEW id \in {m, None}, NEW r \in Run \cup {None},
             NEW reply \in plan.reply[m], FinalReply(m, id, r, reply)
      PROVE  Known(spool, Now(life))' /\ Fresh(hooks, Now(life))' /\ Harmless
  <2> DEFINE end == [by |-> "final", out |-> IF reply = "bad" THEN "bad" ELSE "good",
                     st |-> IF reply = "warning" THEN "warning" ELSE "none"]
  <2>1. /\ spool' = spool /\ Becomes(Finished(Now(life), id, r, end, Ok))
        /\ hooks' = [hooks EXCEPT ![m].replies = @ \cup {reply}]
    BY <1>7 DEF FinalReply, SpoolVars
  <2>2. end \in Ending
    BY DEF Ending, Terminal
  <2> HIDE DEF end
  <2> DEFINE none == {}
  <2>3. Fine(Now(life), Finished(Now(life), id, r, end, Ok), Ok, none)
    BY <1>1, <2>2, FinishedFine
  <2>4. \A n \in Msg : hooks'[n].at # "dispatched" =>
                         n \notin none /\ hooks[n].at # "dispatched"
    BY <2>1 DEF Inv, Around, HookStates
  <2> HIDE DEF none
  <2> QED
    BY <2>1, <2>3, <2>4, FineStep
<1> QED
  BY <1>2, <1>3, <1>4, <1>5, <1>6, <1>7

LEMMA EvidenceType ==
  ASSUME NEW e \in HostEnding
  PROVE  Evidence(e) \in Ending
<1>1. e.phase \in {"end", "error"} /\ {e.failed, e.blocked, e.paused, e.restart, e.settled}
         \subseteq BOOLEAN
  BY DEF HostEnding
<1> DEFINE by == IF e.restart THEN "restart" ELSE e.phase
           out == IF ~e.restart /\ (e.failed \/ e.blocked \/ e.phase = "error")
                  THEN "bad" ELSE "good"
           st == IF e.restart THEN "continuation"
                 ELSE IF e.phase = "error" THEN (IF e.settled THEN "candidate" ELSE "none")
                 ELSE IF e.paused /\ ~e.failed THEN "continuation"
                 ELSE IF e.settled THEN "settled" ELSE "none"
<1>2. by \in {"final", "end", "error", "restart", "reconciliation"}
  BY <1>1
<1>3. out \in {"good", "bad"}
      /\ st \in {"none", "warning", "settled", "continuation", "candidate"}
  OBVIOUS
<1>4. Evidence(e) = [by |-> by, out |-> out, st |-> st]
  BY DEF Evidence
<1> HIDE DEF by, out, st
<1> QED
  BY <1>2, <1>3, <1>4 DEF Ending, Terminal

(* An event of the host joins the wire.                                    *)
LEMMA EmitAround ==
  ASSUME Inv, NEW kind \in Kind, NEW r \in Run, NEW end \in Ending,
         Emit(kind, r, end),
         host' \in [Run -> HostStates],
         last' \in Run \cup {None}
  PROVE  Around'
<1> DEFINE x == [kind |-> kind, run |-> r, end |-> end]
<1>1. wire \in Seq(Event) /\ Len(wire) < MaxWire /\ wire' = Append(wire, x)
      /\ MaxWire \in Nat
  BY TaskAssumption DEF Inv, Around, Emit
<1>a. x \in Event
  BY DEF Event, Ending
<1> HIDE DEF x
<1>2. wire' \in Seq(Event) /\ Len(wire') = Len(wire) + 1 /\ Len(wire) \in Nat
  BY <1>1, <1>a
<1>3. recon'.phase \in {"idle", "reading", "raced"}
  BY DEF Emit, Races, Inv, Around
<1>4. /\ plan' = plan /\ spool' = spool /\ faults' = faults /\ hooks' = hooks
      /\ latest' = latest
  BY DEF Emit, SpoolVars
<1>5. plan \in Scenario /\ spool \in {"open", "full", "closed"} /\ faults \in Nat
      /\ hooks \in [Msg -> HookStates]
      /\ latest \in Msg \cup {None}
  BY DEF Inv, Around
<1>6. Len(wire') <= MaxWire
  BY <1>1, <1>2
<1> QED
  BY <1>2, <1>3, <1>4, <1>5, <1>6 DEF Around

LEMMA HostStep ==
  ASSUME Inv,
         \/ \E r \in Run :
              \/ HostStart(r) \/ HostGivesUp(r)
              \/ \E e \in plan.ending[r] : HostEnd(r, e)
              \/ \E kind \in plan.activity[r] : HostActs(r, kind)
         \/ HostPersists \/ ReconcileStart \/ ReconcileRaced
         \/ SpoolFills \/ SpoolDrains
  PROVE  Inv' /\ Harmless
<1>1. /\ plan \in HostPlan /\ host \in [Run -> HostStates]
      /\ last \in Run \cup {None}
  BY TaskAssumption DEF Inv, Around
<1>a. \A r \in Run : plan.ending[r] \subseteq HostEnding
                     /\ plan.activity[r] \subseteq {"tool", "question", "progress"}
  BY <1>1 DEF HostPlan
<1>2. ASSUME NEW r \in Run, HostStart(r) PROVE Around'
  <2>1. /\ host' = [host EXCEPT ![r] = [st |-> "running", starts |-> host[r].starts + 1]]
        /\ last' = r /\ Emit("start", r, NoPend)
    BY <1>2 DEF HostStart
  <2>2. host[r].starts \in Nat
    BY <1>1 DEF HostStates
  <2>3. host' \in [Run -> HostStates]
    BY <1>1, <2>1, <2>2 DEF HostStates
  <2>4. NoPend \in Ending /\ "start" \in Kind
    BY DEF Ending, Kind
  <2> QED
    BY <2>1, <2>3, <2>4, EmitAround
<1>3. ASSUME NEW r \in Run, NEW e \in plan.ending[r], HostEnd(r, e) PROVE Around'
  <2>1. /\ Emit("end", r, Evidence(e)) /\ last' = last
        /\ \E s \in {"paused", "good", "failed", "bad"} : host' = [host EXCEPT ![r].st = s]
    BY <1>3 DEF HostEnd
  <2>2. host' \in [Run -> HostStates]
    BY <1>1, <2>1 DEF HostStates
  <2>3. Evidence(e) \in Ending /\ "end" \in Kind
    BY <1>a, EvidenceType DEF Kind
  <2> QED
    BY <1>1, <2>1, <2>2, <2>3, EmitAround
<1>4. ASSUME NEW r \in Run, NEW kind \in plan.activity[r], HostActs(r, kind) PROVE Around'
  <2>1. Emit(kind, r, NoPend) /\ host' = host /\ last' = last
    BY <1>4 DEF HostActs
  <2>2. NoPend \in Ending
    BY DEF Ending
  <2>3. kind \in Kind
    BY <1>a DEF Kind
  <2> QED
    BY <1>1, <2>1, <2>2, <2>3, EmitAround
<1>5. ASSUME NEW r \in Run, HostGivesUp(r) PROVE Around'
  <2>1. host' = [host EXCEPT ![r].st = "bad"]
    BY <1>5 DEF HostGivesUp
  <2>2. host' \in [Run -> HostStates]
    BY <1>1, <2>1 DEF HostStates
  <2> QED
    BY <1>5, <2>2 DEF HostGivesUp, SpoolVars, Inv, Around
<1>6. ASSUME HostPersists \/ ReconcileStart \/ ReconcileRaced PROVE Around'
  <2>1. /\ plan' = plan /\ spool' = spool /\ hooks' = hooks /\ latest' = latest
        /\ host' = host /\ last' = last /\ wire' = wire /\ faults' = faults
    BY <1>6 DEF HostPersists, ReconcileStart, ReconcileRaced, SpoolVars, hostVars
  <2>2. recon'.phase \in {"idle", "reading", "raced"}
    BY <1>6 DEF HostPersists, ReconcileStart, ReconcileRaced, Idle, Inv, Around
  <2> QED
    BY <2>1, <2>2 DEF Inv, Around
<1>7. ASSUME SpoolFills \/ SpoolDrains PROVE Around'
  <2>1. /\ plan' = plan /\ recon' = recon /\ hooks' = hooks /\ latest' = latest
        /\ host' = host /\ last' = last /\ wire' = wire
    BY <1>7 DEF SpoolFills, SpoolDrains, hostVars
  <2>2. spool' \in {"open", "full", "closed"}
    BY <1>7 DEF SpoolFills, SpoolDrains
  <2>3. faults' \in Nat
    BY <1>7 DEF SpoolFills, SpoolDrains, Fault, Inv, Around
  <2> QED
    BY <2>1, <2>2, <2>3 DEF Inv, Around
<1>8. Around'
  <2>1. CASE \E r \in Run :
               \/ HostStart(r) \/ HostGivesUp(r)
               \/ \E e \in plan.ending[r] : HostEnd(r, e)
               \/ \E kind \in plan.activity[r] : HostActs(r, kind)
    BY <1>2, <1>3, <1>4, <1>5, <2>1
  <2> QED
    BY <1>6, <1>7, <2>1
<1>9. /\ UNCHANGED <<life, story, saved, hooks>>
      /\ spool' = spool \/ {spool, spool'} = {"open", "full"}
  BY DEF HostStart, HostGivesUp, HostEnd, HostActs, Emit, HostPersists, ReconcileStart,
         ReconcileRaced, SpoolFills, SpoolDrains, SpoolVars, hostVars
<1>10. Known(spool, Now(life))' /\ Fresh(hooks, Now(life))' /\ Harmless
  BY <1>9, QuietStep
<1> QED
  BY <1>8, <1>10 DEF Inv

LEMMA RecoveryAround ==
  ASSUME Inv,
         \/ Start \/ Stop \/ Crash \/ Prune \/ Handle \/ ReconcileEnd
         \/ \E m \in Msg :
              \/ Receive(m) \/ Dispatch(m) \/ Timer(m)
              \/ \E id \in {m, None}, r \in Run \cup {None}, reply \in plan.reply[m] :
                   FinalReply(m, id, r, reply)
  PROVE  Around'
<1>1. /\ plan \in Scenario /\ spool \in {"open", "full", "closed"} /\ faults \in Nat
      /\ recon.phase \in {"idle", "reading", "raced"}
      /\ hooks \in [Msg -> HookStates] /\ host \in [Run -> HostStates]
      /\ latest \in Msg \cup {None} /\ last \in Run \cup {None}
      /\ wire \in Seq(Event) /\ Len(wire) <= MaxWire
      /\ MaxWire \in Nat
  BY TaskAssumption DEF Inv, Around
<1>2. ASSUME Start \/ Stop \/ Prune PROVE Around'
  <2>1. /\ plan' = plan /\ recon' = recon /\ hooks' = hooks /\ host' = host
        /\ latest' = latest /\ last' = last /\ wire' = wire
    BY <1>2 DEF Start, Stop, Prune, hostVars
  <2>2. spool' \in {"open", "full", "closed"} /\ faults' \in Nat
    BY <1>1, <1>2 DEF Start, Stop, Prune, Fault
  <2> QED
    BY <1>1, <2>1, <2>2 DEF Around
<1>3. ASSUME Crash PROVE Around'
  <2>1. /\ plan' = plan /\ hooks' = hooks /\ latest' = latest /\ last' = last
        /\ wire' = <<>> /\ spool' = "closed" /\ recon'.phase = "idle"
        /\ faults' = faults + 1
    BY <1>3 DEF Crash, Fault, Idle
  <2>2. host' \in [Run -> HostStates]
    <3>1. \A r \in Run : [host[r] EXCEPT !.st = "paused"] \in HostStates
      BY <1>1 DEF HostStates
    <3>2. host' = [r \in Run |-> IF host[r].st = "running"
                                 THEN [host[r] EXCEPT !.st = "paused"]
                                 ELSE host[r]]
      BY <1>3 DEF Crash
    <3> QED
      BY <1>1, <3>1, <3>2
  <2>3. wire' \in Seq(Event) /\ Len(wire') <= MaxWire
    BY <1>1, <2>1
  <2> QED
    BY <1>1, <2>1, <2>2, <2>3 DEF Around
<1>4. ASSUME Handle PROVE Around'
  <2>1. /\ plan' = plan /\ recon' = recon /\ hooks' = hooks /\ host' = host
        /\ latest' = latest /\ last' = last /\ spool' = spool /\ faults' = faults
        /\ wire # <<>> /\ wire' = Tail(wire)
    BY <1>4 DEF Handle, SpoolVars, hostVars
  <2>2. wire' \in Seq(Event) /\ Len(wire') = Len(wire) - 1 /\ Len(wire) \in Nat
    BY <1>1, <2>1, HeadTailProperties
  <2>3. Len(wire') <= MaxWire
    BY <1>1, <2>2
  <2> QED
    BY <1>1, <2>1, <2>2, <2>3 DEF Around
<1>5. ASSUME ReconcileEnd PROVE Around'
  <2>1. /\ plan' = plan /\ recon'.phase = "idle" /\ hooks' = hooks /\ host' = host
        /\ latest' = latest /\ last' = last /\ spool' = spool /\ faults' = faults
        /\ wire' = wire
    BY <1>5 DEF ReconcileEnd, SpoolVars, hostVars, Idle
  <2> QED
    BY <1>1, <2>1 DEF Around
<1>6. ASSUME NEW m \in Msg,
             \/ Receive(m) \/ Dispatch(m) \/ Timer(m)
             \/ \E id \in {m, None}, r \in Run \cup {None}, reply \in plan.reply[m] :
                  FinalReply(m, id, r, reply)
      PROVE  Around'
  <2>1. /\ plan' = plan /\ host' = host /\ last' = last /\ spool' = spool
        /\ faults' = faults /\ wire' = wire
    BY <1>6 DEF Receive, Dispatch, Timer, FinalReply, SpoolVars, hostVars
  <2>2. latest' \in Msg \cup {None}
    BY <1>1, <1>6 DEF Receive, Dispatch, Timer, FinalReply, hostVars
  <2>3. recon'.phase \in {"idle", "reading", "raced"}
    <3>1. recon' = recon \/ recon' = [phase |-> "raced"]
      BY <1>6 DEF Receive, Dispatch, Timer, FinalReply, Races, hostVars
    <3> QED
      BY <1>1, <3>1
  <2>4. \/ hooks' = hooks
        \/ \E at \in {"received", "dispatched"} : hooks' = [hooks EXCEPT ![m].at = at]
        \/ \E reply \in plan.reply[m] :
             hooks' = [hooks EXCEPT ![m].replies = @ \cup {reply}]
    BY <1>6 DEF Receive, Dispatch, Timer, FinalReply, hostVars
  <2>5. plan.reply[m] \subseteq {"good", "bad", "warning"}
    BY <1>1, TaskAssumption DEF HostPlan
  <2>6. hooks' \in [Msg -> HookStates]
    BY <1>1, <2>4, <2>5 DEF HookStates
  <2> QED
    BY <1>1, <2>1, <2>2, <2>3, <2>6 DEF Around
<1> QED
  BY <1>2, <1>3, <1>4, <1>5, <1>6

LEMMA InitInv == Init => Inv
<1> SUFFICES ASSUME Init PROVE Inv
  OBVIOUS
<1>1. /\ plan \in Scenario /\ life = NewLife /\ story = [k \in Key |-> "none"]
      /\ saved = [k \in Key |-> None] /\ spool = "closed" /\ recon.phase = "idle"
      /\ hooks = [m \in Msg |-> [at |-> "new", replies |-> {}]] /\ latest = None
      /\ host = [r \in Run |-> [st |-> "idle", starts |-> 0]]
      /\ last = None /\ wire = <<>> /\ faults = 0
  BY DEF Init, Idle
<1>2. hooks \in [Msg -> HookStates] /\ host \in [Run -> HostStates]
  BY <1>1 DEF HookStates, HostStates
<1>3. wire \in Seq(Event) /\ Len(wire) = 0 /\ 0 <= MaxWire
  BY <1>1, TaskAssumption
<1>4. Around
  BY <1>1, <1>2, <1>3 DEF Around
<1>5. Listed(saved) = {}
  BY <1>1 DEF Listed
<1>6. SavedOK(saved, story)
  BY <1>1, <1>5, NoRecords, Types DEF SavedOK, Over
<1>7. \A k \in Key : life.rec[k] = None /\ story[k] = "none" /\ saved[k] = None
  BY <1>1, NoRecords
<1>8. Now(life) \in World /\ Now(life).life = life /\ Now(life).story = story
      /\ Now(life).saved = saved
  BY <1>1, NoRecords DEF Now, World, Stories
<1>9. Known(spool, Now(life))
  <2>1. OneAttached(life) /\ Tracked(life) \cup Listed(saved) = {} /\ Fits(Tracked(life))
    BY <1>1, <1>5, NoRecords
  <2>2. \A m \in Msg : life.rec[m] = None
    BY <1>7, Types
  <2> QED
    BY <1>1, <1>6, <1>8, <2>1, <2>2, NoRecords DEF Known
<1>10. Fresh(hooks, Now(life))
  BY <1>7, <1>8, Types DEF Fresh, Unknown
<1> QED
  BY <1>4, <1>9, <1>10 DEF Inv

LEMMA NextInv == Inv /\ [Next]_vars => Inv' /\ Harmless
<1> SUFFICES ASSUME Inv, [Next]_vars PROVE Inv' /\ Harmless
  OBVIOUS
<1>1. CASE \/ \E r \in Run :
                \/ HostStart(r) \/ HostGivesUp(r)
                \/ \E e \in plan.ending[r] : HostEnd(r, e)
                \/ \E kind \in plan.activity[r] : HostActs(r, kind)
           \/ HostPersists \/ ReconcileStart \/ ReconcileRaced
           \/ SpoolFills \/ SpoolDrains
  BY <1>1, HostStep
<1>2. CASE Start
  BY <1>2, StartStep, RecoveryAround DEF Inv
<1>3. CASE Stop
  BY <1>3, StopStep, RecoveryAround DEF Inv
<1>4. CASE Crash
  BY <1>4, CrashStep, RecoveryAround DEF Inv
<1>5. CASE Prune
  BY <1>5, PruneStep, RecoveryAround DEF Inv
<1>6. CASE \/ Handle \/ ReconcileEnd
           \/ \E m \in Msg :
                \/ Receive(m) \/ Dispatch(m) \/ Timer(m)
                \/ \E id \in {m, None}, r \in Run \cup {None}, reply \in plan.reply[m] :
                     FinalReply(m, id, r, reply)
  BY <1>6, EventStep, RecoveryAround DEF Inv
<1>7. CASE UNCHANGED vars
  <2>1. /\ plan' = plan /\ life' = life /\ story' = story /\ saved' = saved
        /\ spool' = spool /\ recon' = recon /\ hooks' = hooks /\ latest' = latest
        /\ host' = host /\ last' = last /\ wire' = wire /\ faults' = faults
    BY <1>7 DEF vars, hostVars
  <2>2. Around'
    BY <2>1 DEF Inv, Around
  <2>3. Known(spool, Now(life))' /\ Fresh(hooks, Now(life))' /\ Harmless
    BY <2>1, QuietStep
  <2> QED
    BY <2>2, <2>3 DEF Inv
<1> QED
  BY <1>1, <1>2, <1>3, <1>4, <1>5, <1>6, <1>7 DEF Next

-----------------------------------------------------------------------------
(* What the lifecycle promises, for any number of messages, runs, records  *)
(* and faults.                                                             *)
LEMMA InvHolds == Spec => []Inv
<1>1. Init => Inv
  BY InitInv
<1>2. Inv /\ [Next]_vars => Inv'
  BY NextInv
<1> QED
  BY <1>1, <1>2, PTL DEF Spec

LEMMA InvFacts ==
  ASSUME Inv
  PROVE  /\ life \in Maps /\ story \in [Key -> Stories] /\ saved \in [Key -> Work \cup {None}]
         /\ Fits(Tracked(life)) /\ SavedOK(saved, story)
         /\ spool # "closed" => Agreeing(life, story)
BY NowLife DEF Inv, Known, Now

(* The spool tells of a task at most one ending and no start after it,     *)
(* whatever the host repeats, reorders or leaves out and wherever the      *)
(* collector stops, dies or is refused; the records and the events under   *)
(* way stay within their limits.                                           *)
THEOREM OneEndingHolds == Spec => []OneEnding
<1>1. Inv => OneEnding
  <2> SUFFICES ASSUME Inv PROVE OneEnding
    OBVIOUS
  <2>1. /\ life \in Maps /\ story \in [Key -> Stories]
        /\ saved \in [Key -> Work \cup {None}]
        /\ Fits(Tracked(life)) /\ SavedOK(saved, story)
    BY InvFacts
  <2>2. Cardinality({k \in Key : life.rec[k] # None}) <= MaxRuns
    BY <2>1 DEF Fits, Tracked
  <2>3. Around
    BY DEF Inv
  <2>4. TypeOK
    BY <2>1, <2>2, <2>3 DEF TypeOK, Around, HookStates, HostStates
  <2>5. \A m \in Msg : story[m] \notin {"twice", "reopened"}
    BY <2>1 DEF SavedOK, Over
  <2> QED
    BY <2>4, <2>5 DEF OneEnding
<1> QED
  BY <1>1, InvHolds, PTL

(* What the spool tells as running is listed in the cursor that a restart  *)
(* reads and, while the collector runs, is active work of the lifecycle:   *)
(* no crash, refusal or eviction leaves it open for good.                  *)
THEOREM OpenKeptHolds == Spec => []OpenKept
<1>1. Inv => OpenKept
  <2> SUFFICES ASSUME Inv, NEW m \in Msg, story[m] = "open"
               PROVE  /\ saved[m] # None
                      /\ spool # "closed" => ActiveWork(life)[m] # None
    BY DEF OpenKept
  <2>1. /\ life \in Maps /\ SavedOK(saved, story) /\ m \in Key
        /\ spool # "closed" => Agreeing(life, story)
    BY InvFacts, Types
  <2>2. saved[m] # None
    BY <2>1 DEF SavedOK
  <2>3. ASSUME spool # "closed" PROVE ActiveWork(life)[m] # None
    <3>1. RecOK(life.rec[m], story[m])
      BY <2>1, <2>3 DEF Agreeing
    <3>2. life.rec[m] # None /\ ~life.rec[m].term
      BY <3>1 DEF RecOK, Over
    <3>3. life.rec[m] \in Record
      BY <2>1, <3>2, Types
    <3>4. /\ life.rec[m].started \in BOOLEAN /\ life.rec[m].detached \in BOOLEAN
          /\ life.rec[m].outer \in Run \cup {None} /\ life.rec[m].inner \in Seq(Run)
      BY <3>3 DEF Record
    <3>5. ActiveWork(life)[m] \in Work
      BY <2>1, <3>2, <3>4 DEF ActiveWork, Live, Work
    <3> QED
      BY <3>5, NoneAssumption
  <2> QED
    BY <2>2, <2>3
<1> QED
  BY <1>1, InvHolds, PTL

(* An event that the spool refuses changes neither which tasks run nor     *)
(* makes one of them detached: every rollback restores what was displaced. *)
THEOREM RefusalHarmlessHolds == Spec => RefusalHarmless
<1>1. Inv /\ [Next]_vars =>
        [spool # "open" /\ UNCHANGED SpoolVars =>
           /\ Running(life') = Running(life)
           /\ Attached(life) \subseteq Attached(life')]_vars
  BY NextInv DEF Harmless
<1> QED
  BY <1>1, InvHolds, PTL DEF Spec, RefusalHarmless
=============================================================================
