------------------------ MODULE AuthorizationProofs ------------------------
(***************************************************************************)
(* Proofs about DeviceAuthorization for any number of requests and faults: *)
(* the user is told of a connection once, no poll replaces the credential  *)
(* of a working installation, and what is recorded as completed is.        *)
(*                                                                         *)
(* The argument: the status of a request never goes back, so that what a   *)
(* process has been answered still holds when it acts on it (StateOK).     *)
(* That the user is told once (Notified) needs no more.  The credential    *)
(* and the completion do: both processes poll the same request, and no     *)
(* request is begun meanwhile (Overlap = FALSE), so that what a process    *)
(* has found in the credential's file is either still there or replaced by *)
(* the credential that it is about to write itself (Shared).               *)
(***************************************************************************)
EXTENDS DeviceAuthorization, TLAPS

(* What the files and the notifier hold is taken apart everywhere.         *)
USE DEF Credential, Completion, Notice

ProcState == [at : Begins \cup Polls \cup {"idle"}, req : Req \cup {None},
              inst : Inst \cup {None}]

Passed(r) == server[r] \in {"approved", "completed", "denied", "expired"}
Over(r) == server[r] \in {"completed", "expired"}

(* What a process in an await knows of its request.                        *)
StateOK(x) ==
  /\ x.at # "idle" => x.req \in Req
  /\ x.at \in {"record", "reuse", "reused"} => x.inst \in Inst
  /\ x.at \in {"approved", "inspect", "write", "ack"} => Passed(x.req)
  /\ x.at \in {"lapsed", "issued"} => server[x.req] = "expired"
  /\ x.at \in {"completed", "reused"} => server[x.req] = "completed"
  /\ x.at = "record" => Over(x.req)

ProcsOK == \A p \in Proc : StateOK(proc[p])

(* What is announced is over, and counted.                                 *)
Sure ==
  /\ done # None => Over(done.req)
  /\ notice # None => Over(notice.req) /\ notice.req \notin receipts
  /\ \A r \in Req : sent[r] > 0 => Over(r)
Counted ==
  \A r \in Req :
    sent[r] <= faults +
      (IF r \in receipts
          \/ (notice # None /\ notice.at = "write" /\ notice.req = r)
       THEN 1 ELSE 0)

ToldInv == TypeOK /\ ProcsOK /\ Sure /\ Counted

(* The status of a request never goes back.                                *)
Progress ==
  \A r \in Req : /\ Passed(r) => Passed(r)'
                 /\ Over(r) => server'[r] = server[r]

-----------------------------------------------------------------------------
LEMMA IdleState == Idle \in ProcState /\ Idle.at = "idle" /\ Idle.inst = None
BY DEF Idle, ProcState

LEMMA StateKept ==
  ASSUME Progress, NEW x \in ProcState, StateOK(x)
  PROVE  StateOK(x)'
BY DEF Progress, StateOK, Passed, Over

LEMMA InitTold == Init => ToldInv
<1> SUFFICES ASSUME Init PROVE ToldInv
  OBVIOUS
<1>1. TypeOK
  <2>1. /\ server \in [Req -> {"new", "pending", "approved", "completed",
                               "denied", "expired"}]
        /\ owner \in [Req -> Inst \cup {None}] /\ alive \subseteq Inst
    <3>1. server \in [Req -> {"new", "pending", "approved", "completed",
                              "denied", "expired"}]
      BY DEF Init
    <3>2. owner \in [Req -> Inst \cup {None}]
      BY DEF Init
    <3>3. alive \subseteq Inst
      BY DEF Init, Inst
    <3> QED
      BY <3>1, <3>2, <3>3
  <2>2. /\ {pend, reply} \subseteq Req \cup {None} /\ begun \subseteq Req
        /\ receipts \subseteq Req /\ done = None
    BY AuthorizationAssumption DEF Init
  <2>3. cred \in Credential \cup {None}
    <3>1. [inst |-> Old, active |-> TRUE] \in Credential
      BY DEF Inst
    <3>2. cred \in {None, [inst |-> Old, active |-> TRUE]}
      BY DEF Init
    <3> QED
      BY <3>1, <3>2
  <2>4. proc \in [Proc -> ProcState]
    BY IdleState DEF Init
  <2>5. /\ loaded = None /\ accepted = None /\ fresh = FALSE /\ notice = None
        /\ sent \in [Req -> 0..(MaxFaults + 1)] /\ faults \in 0..MaxFaults
    BY AuthorizationAssumption DEF Init
  <2> QED
    BY <2>1, <2>2, <2>3, <2>4, <2>5 DEF TypeOK, ProcState
<1>2. ProcsOK
  BY IdleState DEF Init, ProcsOK, StateOK, Idle
<1>3. Sure /\ Counted
  BY AuthorizationAssumption DEF Init, Sure, Counted
<1> QED
  BY <1>1, <1>2, <1>3 DEF ToldInv

(* One process goes on.                                                    *)
LEMMA Moved ==
  ASSUME ToldInv, Progress, NEW p \in Proc, NEW P \in ProcState,
         proc' = [proc EXCEPT ![p] = P], StateOK(P)'
  PROVE  proc' \in [Proc -> ProcState] /\ ProcsOK'
<1>1. proc \in [Proc -> ProcState]
  BY DEF ToldInv, TypeOK, ProcState
<1>2. ASSUME NEW q \in Proc PROVE StateOK(proc[q])'
  <2>1. CASE q = p
    <3>1. proc'[q] = P
      BY <1>1, <2>1
    <3> QED
      BY <3>1 DEF StateOK, Passed, Over
  <2>2. CASE q # p
    <3>1. proc'[q] = proc[q] /\ proc[q] \in ProcState /\ StateOK(proc[q])
      BY <1>1, <2>2 DEF ToldInv, ProcsOK
    <3> QED
      BY <3>1 DEF Progress, StateOK, Passed, Over
  <2> QED
    BY <2>1, <2>2
<1> QED
  BY <1>1, <1>2 DEF ProcsOK

(* The rest of the invariant, of a step that tells the user nothing.       *)
LEMMA Untold ==
  ASSUME ToldInv, Progress, proc' \in [Proc -> ProcState], ProcsOK',
         server' \in [Req -> {"new", "pending", "approved", "completed",
                              "denied", "expired"}],
         owner' \in [Req -> Inst \cup {None}], alive' \subseteq Inst,
         {pend', reply'} \subseteq Req \cup {None}, begun' \subseteq Req,
         cred' \in Credential \cup {None},
         done' \in Completion \cup {None},
         done' = done \/ Over(done.req)',
         fresh' \in BOOLEAN, faults' \in {faults, faults + 1},
         faults' <= MaxFaults, UNCHANGED notifier
  PROVE  ToldInv'
<1>0. TypeOK /\ Sure /\ Counted
  BY DEF ToldInv
<1>1. TypeOK'
  BY <1>0, AuthorizationAssumption DEF TypeOK, ProcState, notifier
<1>2. Sure'
  <2>1. \A r \in Req : Over(r) => Over(r)'
    BY DEF Progress, Over
  <2>2. /\ done # None => done.req \in Req
        /\ notice # None => notice.req \in Req
    BY <1>0 DEF TypeOK
  <2>3. done' # None => Over(done.req)'
    <3>1. CASE done' = done
      BY <1>0, <2>1, <2>2, <3>1 DEF Sure, Over
    <3> QED
      BY <3>1
  <2>4. notice' # None => Over(notice.req)' /\ notice'.req \notin receipts'
    BY <1>0, <2>1, <2>2 DEF Sure, Over, notifier
  <2>5. \A r \in Req : sent'[r] > 0 => Over(r)'
    BY <1>0, <2>1 DEF Sure, notifier
  <2> QED
    BY <2>3, <2>4, <2>5 DEF Sure
<1>3. Counted'
  BY <1>0 DEF Counted, notifier, TypeOK
<1> QED
  BY <1>1, <1>2, <1>3 DEF ToldInv
-----------------------------------------------------------------------------
(* The forms of a step of a process.                                       *)
To(x, stage, i) == [at |-> stage, req |-> x.req, inst |-> i]

LEMMA Forms ==
  ASSUME TypeOK, NEW p \in Proc
  PROVE  /\ proc[p] \in ProcState
         /\ Leave(p) <=> proc' = [proc EXCEPT ![p] = Idle]
         /\ \A stage : Goto(p, stage) =>
              proc' = [proc EXCEPT ![p] = To(proc[p], stage, proc[p].inst)]
         /\ \A stage \in Polls \cup Begins, i \in Inst \cup {None} :
              Hold(p, stage, i) =>
                proc' = [proc EXCEPT ![p] = To(proc[p], stage, i)]
<1>1. proc[p] \in ProcState
  BY DEF TypeOK, ProcState
<1>2. ASSUME NEW stage, Goto(p, stage)
      PROVE  proc' = [proc EXCEPT ![p] = To(proc[p], stage, proc[p].inst)]
  <2>1. [proc[p] EXCEPT !.at = stage] = To(proc[p], stage, proc[p].inst)
    BY <1>1 DEF ProcState, To
  <2> QED
    BY <1>2, <2>1 DEF Goto
<1>3. ASSUME NEW stage \in Polls \cup Begins, NEW i \in Inst \cup {None},
             Hold(p, stage, i)
      PROVE  proc' = [proc EXCEPT ![p] = To(proc[p], stage, i)]
  <2>1. [proc[p] EXCEPT !.at = stage, !.inst = i] = To(proc[p], stage, i)
    <3> DEFINE y == [proc[p] EXCEPT !.at = stage, !.inst = i]
    <3>1. y \in ProcState
      BY <1>1 DEF ProcState
    <3>2. y.at = stage /\ y.req = proc[p].req /\ y.inst = i
      BY <1>1 DEF ProcState
    <3> HIDE DEF y
    <3>3. y = [at |-> y.at, req |-> y.req, inst |-> y.inst]
      BY <3>1 DEF ProcState
    <3> QED
      BY <3>2, <3>3 DEF y, To
  <2>2. proc' = [proc EXCEPT ![p] = [proc[p] EXCEPT !.at = stage, !.inst = i]]
    BY <1>1, <1>3 DEF Hold, TypeOK
  <2> QED
    BY <2>1, <2>2
<1> QED
  BY <1>1, <1>2, <1>3 DEF Leave

LEMMA ToState ==
  ASSUME NEW x \in ProcState, NEW stage \in Begins \cup Polls,
         NEW i \in Inst \cup {None}
  PROVE  /\ To(x, stage, i) \in ProcState
         /\ To(x, stage, i).at = stage
         /\ To(x, stage, i).req = x.req
         /\ To(x, stage, i).inst = i
BY DEF To, ProcState

(* A process goes on, and nothing else changes.                            *)
LEMMA JustMoved ==
  ASSUME ToldInv, NEW p \in Proc, NEW P \in ProcState,
         proc' = [proc EXCEPT ![p] = P], StateOK(P),
         UNCHANGED <<account, LocalFiles, begun, notifier>>,
         faults' \in {faults, faults + 1}, faults' <= MaxFaults
  PROVE  ToldInv'
<1>1. UNCHANGED <<server, owner, alive, pend, reply, cred, done, fresh>>
  BY DEF account, LocalFiles
<1>2. Progress
  BY <1>1 DEF Progress, Passed
<1>3. StateOK(P)'
  BY <1>1 DEF StateOK, Passed, Over
<1>4. proc' \in [Proc -> ProcState] /\ ProcsOK'
  BY <1>2, <1>3, Moved
<1>5. TypeOK
  BY DEF ToldInv
<1> QED
  BY <1>1, <1>2, <1>4, <1>5, Untold DEF TypeOK

LEMMA IdleOK == StateOK(Idle)
BY DEF StateOK, Idle

(* The awaits of a process that only ask, read or give up.                 *)
Looks(p) ==
  \/ PollStart(p) \/ Asked(p) \/ ExistingRead(p) \/ Inspected(p)
  \/ Refused(p) \/ Lapsed(p) \/ IssuedLooked(p) \/ CompletedRead(p)

LEMMA LooksTold ==
  ASSUME ToldInv, NEW p \in Proc, Looks(p)
  PROVE  ToldInv'
<1> DEFINE x == proc[p]
<1>0. TypeOK /\ ProcsOK /\ x \in ProcState /\ StateOK(x)
  BY Forms DEF ToldInv, ProcsOK
<1>1. /\ UNCHANGED <<account, LocalFiles, begun, notifier>>
      /\ faults' \in {faults, faults + 1} /\ faults' <= MaxFaults
  BY <1>0, AuthorizationAssumption
     DEF Looks, PollStart, Asked, ExistingRead, Inspected, Refused, Lapsed,
         IssuedLooked, CompletedRead, Elsewhere, TypeOK
<1>2. CASE Leave(p)
  BY <1>0, <1>1, <1>2, JustMoved, IdleState, IdleOK, Forms
<1>3. ASSUME NEW stage \in Begins \cup Polls, NEW i \in Inst \cup {None},
             proc' = [proc EXCEPT ![p] = To(x, stage, i)],
             StateOK(To(x, stage, i))
      PROVE  ToldInv'
  BY <1>0, <1>1, <1>3, ToState, JustMoved
<1>4. CASE PollStart(p)
  <2> DEFINE P == [Idle EXCEPT !.at = "ask", !.req = pend]
  <2>1. P \in ProcState /\ StateOK(P)
    <3>1. pend \in Req
      BY <1>0, <1>4 DEF PollStart, TypeOK
    <3> QED
      BY <3>1 DEF Idle, ProcState, StateOK, Polls
  <2>2. proc' = [proc EXCEPT ![p] = P]
    BY <1>4 DEF PollStart
  <2> HIDE DEF P
  <2> QED
    BY <1>1, <2>1, <2>2, JustMoved
<1>5. CASE Asked(p)
  <2>1. x.at = "ask" /\ x.req \in Req /\ x.inst \in Inst \cup {None}
    BY <1>0, <1>5 DEF Asked, At, StateOK, ProcState
  <2>2. ASSUME NEW stage \in {"approved", "completed", "rm"}, Goto(p, stage),
               stage \in {"approved", "completed"} => server[x.req] = stage
        PROVE  ToldInv'
    <3>1. stage \in Begins \cup Polls
      BY DEF Polls
    <3>2. StateOK(To(x, stage, x.inst))
      BY <2>1, <2>2 DEF StateOK, To, Passed
    <3> QED
      BY <1>0, <1>3, <2>1, <2>2, <3>1, <3>2, Forms
  <2> QED
    BY <1>2, <1>5, <2>2 DEF Asked
<1>6. CASE ExistingRead(p) \/ Inspected(p)
  <2>1. x.at \in {"approved", "inspect"} /\ x.req \in Req /\ Passed(x.req)
        /\ x.inst \in Inst \cup {None}
    BY <1>0, <1>6 DEF ExistingRead, Inspected, At, StateOK, ProcState
  <2>2. ASSUME NEW i \in Inst \cup {None}, NEW stage \in {"inspect", "write"}
        PROVE  StateOK(To(x, stage, i)) /\ stage \in Polls
    BY <2>1 DEF StateOK, To, Polls
  <2>3. cred # None => cred.inst \in Inst
    BY <1>0 DEF TypeOK
  <2> QED
    BY <1>0, <1>2, <1>3, <1>6, <2>1, <2>2, <2>3, Forms
       DEF ExistingRead, Inspected
<1>7. CASE Refused(p)
  <2>1. x.at = "refused" /\ x.req \in Req /\ x.inst \in Inst \cup {None}
    BY <1>0, <1>7 DEF Refused, At, StateOK, ProcState
  <2>2. ASSUME NEW stage \in {"revoke", "drop"}
        PROVE  StateOK(To(x, stage, x.inst)) /\ stage \in Polls
    BY <2>1 DEF StateOK, To, Polls
  <2> QED
    BY <1>0, <1>3, <1>7, <2>1, <2>2, Forms DEF Refused
<1>8. CASE Lapsed(p) \/ IssuedLooked(p)
  <2>1. /\ x.at \in {"lapsed", "issued"} /\ x.req \in Req
        /\ x.inst \in Inst \cup {None} /\ server[x.req] = "expired"
    BY <1>0, <1>8 DEF Lapsed, IssuedLooked, At, StateOK, ProcState
  <2>2. ASSUME NEW i \in Inst \cup {None}, NEW stage \in {"issued", "drop"}
        PROVE  StateOK(To(x, stage, i)) /\ stage \in Polls
    BY <2>1 DEF StateOK, To, Polls
  <2>3. StateOK(To(x, "record", x.req)) /\ "record" \in Polls /\ x.req \in Inst
    BY <2>1 DEF StateOK, To, Polls, Inst, Over
  <2>4. cred # None => cred.inst \in Inst
    BY <1>0 DEF TypeOK
  <2> QED
    BY <1>0, <1>3, <1>8, <2>1, <2>2, <2>3, <2>4, Forms
       DEF Lapsed, IssuedLooked
<1>9. CASE CompletedRead(p)
  <2>1. x.at = "completed" /\ x.req \in Req /\ Over(x.req)
    BY <1>0, <1>9 DEF CompletedRead, At, StateOK, ProcState, Over
  <2>2. CASE cred # None /\ cred.active
    <3>1. cred.inst \in Inst
      BY <1>0, <2>2 DEF TypeOK
    <3>2. StateOK(To(x, "record", cred.inst)) /\ "record" \in Polls
      BY <2>1, <3>1 DEF StateOK, To, Polls
    <3>3. Hold(p, "record", cred.inst)
      BY <1>9, <2>2 DEF CompletedRead
    <3> QED
      BY <1>0, <1>3, <3>1, <3>2, <3>3, Forms
  <2> QED
    BY <1>2, <1>9, <2>2 DEF CompletedRead
<1> QED
  BY <1>4, <1>5, <1>6, <1>7, <1>8, <1>9 DEF Looks

(* The awaits of a process that write a file or reach the account.         *)
Acts(p) == Write(p) \/ Acked(p) \/ Revoke(p) \/ Record(p) \/ Remove(p)

LEMMA ActsTold ==
  ASSUME ToldInv, NEW p \in Proc, Acts(p) PROVE ToldInv'
<1> DEFINE x == proc[p]
<1>0. TypeOK /\ ProcsOK /\ Sure /\ x \in ProcState /\ StateOK(x)
  BY Forms DEF ToldInv, ProcsOK
<1>1. /\ UNCHANGED <<owner, alive, begun, notifier, faults, reply>>
      /\ faults' <= MaxFaults
  BY <1>0, AuthorizationAssumption
     DEF Acts, Write, Acked, Revoke, Record, Remove, account, LocalFiles,
         Elsewhere, TypeOK
<1>2. ASSUME UNCHANGED server PROVE Progress
  BY <1>2 DEF Progress, Passed
<1>3. CASE Write(p) \/ Revoke(p)
  <2>1. x.at \in {"write", "revoke"} /\ x.req \in Req
        /\ x.inst \in Inst \cup {None} /\ (x.at = "write" => Passed(x.req))
    BY <1>0, <1>3 DEF Write, Revoke, At, StateOK, ProcState
  <2>2. PICK stage \in {"ack", "drop"} :
          Goto(p, stage) /\ (stage = "ack" => x.at = "write")
    BY <1>3 DEF Write, Revoke, At
  <2>3. PICK P \in ProcState :
          P = To(x, stage, x.inst) /\ StateOK(P)
    <3>1. stage \in Polls
      BY DEF Polls
    <3> DEFINE P == To(x, stage, x.inst)
    <3>2. P \in ProcState /\ P.at = stage /\ P.req = x.req /\ P.inst = x.inst
      BY <1>0, <2>1, <3>1, ToState
    <3> HIDE DEF P
    <3>3. StateOK(P)
      BY <2>1, <2>2, <3>2 DEF StateOK
    <3> QED
      BY <3>2, <3>3 DEF P
  <2>4. UNCHANGED <<server, pend, done, fresh>>
        /\ cred' \in Credential
    <3>1. UNCHANGED <<server, pend, done, fresh>>
          /\ \E a \in BOOLEAN : cred' = [inst |-> x.req, active |-> a]
      BY <1>3 DEF Write, Revoke, account
    <3>2. x.req \in Inst
      BY <2>1 DEF Inst
    <3> QED
      BY <3>1, <3>2
  <2>5. Progress /\ StateOK(P)'
    BY <1>2, <2>3, <2>4 DEF StateOK, Passed, Over
  <2>6. proc' \in [Proc -> ProcState] /\ ProcsOK'
    BY <1>0, <2>2, <2>3, <2>5, Forms, Moved
  <2> QED
    BY <1>0, <1>1, <2>4, <2>5, <2>6, Untold DEF TypeOK
<1>4. CASE Record(p)
  <2>1. x.at = "record" /\ x.req \in Req /\ x.inst \in Inst /\ Over(x.req)
    BY <1>0, <1>4 DEF Record, At, StateOK
  <2>2. PICK P \in ProcState : P = To(x, "rm", x.inst) /\ StateOK(P)
    <3>1. "rm" \in Polls
      BY DEF Polls
    <3> DEFINE P == To(x, "rm", x.inst)
    <3>2. P \in ProcState /\ P.at = "rm" /\ P.req = x.req /\ P.inst = x.inst
      BY <1>0, <2>1, <3>1, ToState
    <3> HIDE DEF P
    <3>3. StateOK(P)
      BY <2>1, <3>2 DEF StateOK
    <3> QED
      BY <3>2, <3>3 DEF P
  <2>3. UNCHANGED <<server, pend, cred>> /\ fresh' = FALSE
        /\ done' = [req |-> x.req, inst |-> x.inst]
    BY <1>4 DEF Record, account
  <2>4. Progress /\ StateOK(P)' /\ Over(done.req)'
    BY <1>2, <2>1, <2>2, <2>3 DEF StateOK, Passed, Over
  <2>5. proc' \in [Proc -> ProcState] /\ ProcsOK'
    BY <1>0, <1>4, <2>2, <2>4, Forms, Moved DEF Record
  <2>6. done' \in Completion
    BY <2>1, <2>3
  <2> QED
    BY <1>0, <1>1, <2>3, <2>4, <2>5, <2>6, Untold DEF TypeOK
<1>5. CASE Remove(p)
  <2>1. UNCHANGED <<server, cred, done, fresh>> /\ pend' = None
    BY <1>5 DEF Remove, account
  <2>2. Progress /\ StateOK(Idle)'
    BY <1>2, <2>1 DEF StateOK, Idle
  <2>3. proc' \in [Proc -> ProcState] /\ ProcsOK'
    BY <1>0, <1>5, <2>2, IdleState, Forms, Moved DEF Remove
  <2> QED
    BY <1>0, <1>1, <2>1, <2>2, <2>3, Untold DEF TypeOK
<1>6. CASE Acked(p)
  <2>1. /\ x.at = "ack" /\ x.req \in Req /\ Passed(x.req) /\ x.req \in Inst
        /\ x.inst \in Inst \cup {None}
    BY <1>0, <1>6 DEF Acked, At, StateOK, Inst, ProcState
  <2>2. /\ server' = [server EXCEPT ![x.req] =
                        IF @ = "approved" THEN "completed" ELSE @]
        /\ UNCHANGED <<pend, cred, done, fresh>>
    BY <1>6 DEF Acked, LocalFiles
  <2>3. Progress
    BY <1>0, <2>2 DEF Progress, Passed, Over, TypeOK
  <2>4. server' \in [Req -> {"new", "pending", "approved", "completed",
                             "denied", "expired"}]
    BY <1>0, <2>1, <2>2 DEF TypeOK
  <2>5. \/ server[x.req] = "denied" /\ Goto(p, "refused")
        \/ server[x.req] = "expired" /\ Goto(p, "lapsed")
        \/ server'[x.req] = "completed" /\ Hold(p, "record", x.req)
    BY <1>0, <1>6, <2>1, <2>2 DEF Acked, Passed, TypeOK
  <2>6. PICK stage \in {"refused", "lapsed", "record"}, i \in Inst \cup {None} :
          /\ proc' = [proc EXCEPT ![p] = To(x, stage, i)]
          /\ stage = "lapsed" => server'[x.req] = "expired"
          /\ stage = "record" => i \in Inst /\ server'[x.req] = "completed"
    BY <1>0, <2>1, <2>3, <2>5, Forms DEF Polls, Progress, Over
  <2>7. PICK P \in ProcState :
          P = To(x, stage, i) /\ P.at = stage /\ P.req = x.req /\ P.inst = i
    <3>1. stage \in Polls
      BY DEF Polls
    <3> QED
      BY <1>0, <3>1, ToState
  <2>8. StateOK(P)'
    BY <2>1, <2>6, <2>7 DEF StateOK, Over
  <2>9. proc' \in [Proc -> ProcState] /\ ProcsOK'
    BY <2>3, <2>6, <2>7, <2>8, Moved
  <2> QED
    BY <1>0, <1>1, <2>2, <2>3, <2>4, <2>9, Untold DEF TypeOK
<1> QED
  BY <1>3, <1>4, <1>5, <1>6 DEF Acts

(* The awaits of begin().                                                  *)
BeginLooks == BeginChecked \/ BeginState \/ BeginPrevious
BeginActs ==
  BeginReplace \/ BeginCreate \/ BeginRequest \/ BeginRouted \/ ReuseAsked
  \/ Reused

LEMMA BeginLooksTold == ASSUME ToldInv, BeginLooks PROVE ToldInv'
<1> DEFINE x == proc["helper"]
<1>0. /\ TypeOK /\ ProcsOK /\ x \in ProcState /\ StateOK(x)
      /\ "helper" \in Proc /\ x.inst \in Inst \cup {None}
  BY Forms DEF ToldInv, ProcsOK, Proc, ProcState
<1>1. /\ UNCHANGED <<account, LocalFiles, begun, notifier>>
      /\ faults' \in {faults, faults + 1} /\ faults' <= MaxFaults
  BY <1>0, AuthorizationAssumption
     DEF BeginLooks, BeginChecked, BeginState, BeginPrevious, Elsewhere, TypeOK
<1>2. x.at \in {"begin", "state", "previous"} /\ x.req \in Req
  BY <1>0 DEF BeginLooks, BeginChecked, BeginState, BeginPrevious, At, StateOK
<1>3. CASE Leave("helper")
  BY <1>0, <1>1, <1>3, JustMoved, IdleState, IdleOK, Forms
<1>4. ASSUME NEW stage \in {"reuse", "state", "create", "request", "previous",
                            "replace"},
             NEW i \in Inst \cup {None}, stage = "reuse" => i \in Inst,
             proc' = [proc EXCEPT !["helper"] = To(x, stage, i)]
      PROVE  ToldInv'
  <2>1. stage \in Begins
    BY DEF Begins
  <2>2. StateOK(To(x, stage, i))
    BY <1>2, <1>4 DEF StateOK, To
  <2> QED
    BY <1>0, <1>1, <1>4, <2>1, <2>2, ToState, JustMoved
<1>5. \/ Leave("helper")
      \/ \E stage \in {"state", "create", "request", "replace"} :
           Goto("helper", stage)
      \/ pend # None /\ Hold("helper", "previous", pend)
      \/ cred # None /\ Hold("helper", "reuse", cred.inst)
  BY DEF BeginLooks, BeginChecked, BeginState, BeginPrevious
<1>6. /\ pend # None => pend \in Inst
      /\ cred # None => cred.inst \in Inst
  BY <1>0 DEF TypeOK, Inst
<1>7. ASSUME NEW stage \in {"state", "create", "request", "replace"},
             Goto("helper", stage)
      PROVE  ToldInv'
  BY <1>0, <1>4, <1>7, Forms
<1>8. ASSUME NEW stage \in {"previous", "reuse"}, NEW i \in Inst,
             Hold("helper", stage, i)
      PROVE  ToldInv'
  <2>1. stage \in Polls \cup Begins
    BY DEF Begins
  <2> QED
    BY <1>0, <1>4, <1>8, <2>1, Forms
<1> QED
  BY <1>3, <1>5, <1>6, <1>7, <1>8
LEMMA BeginActsTold == ASSUME ToldInv, BeginActs PROVE ToldInv'
<1> DEFINE x == proc["helper"]
<1>0. /\ TypeOK /\ ProcsOK /\ x \in ProcState /\ StateOK(x)
      /\ "helper" \in Proc /\ x.inst \in Inst \cup {None}
  BY Forms DEF ToldInv, ProcsOK, Proc, ProcState
<1>1. UNCHANGED <<alive, begun, notifier, faults, cred>> /\ faults' <= MaxFaults
  BY <1>0, AuthorizationAssumption
     DEF BeginActs, BeginReplace, BeginCreate, BeginRequest, BeginRouted,
         ReuseAsked, Reused, account, LocalFiles, Elsewhere, TypeOK
<1>2. /\ x.req \in Req
      /\ x.at \in {"reuse", "reused"} => x.inst \in Inst
      /\ x.at = "reused" => server[x.req] = "completed"
  BY <1>0 DEF BeginActs, BeginReplace, BeginCreate, BeginRequest, BeginRouted,
              ReuseAsked, Reused, At, StateOK
<1>3. ASSUME Progress,
             \/ Leave("helper")
             \/ \E stage \in {"create", "request", "route"} :
                  Goto("helper", stage)
             \/ /\ Goto("helper", "reused") /\ x.inst \in Inst
                /\ server'[x.req] = "completed"
      PROVE  proc' \in [Proc -> ProcState] /\ ProcsOK'
  <2>1. CASE Leave("helper")
    <3>1. StateOK(Idle)'
      BY DEF StateOK, Idle
    <3> QED
      BY <1>0, <1>3, <2>1, <3>1, IdleState, Forms, Moved
  <2>2. ASSUME NEW stage \in {"create", "request", "route", "reused"},
               Goto("helper", stage),
               stage = "reused" =>
                 x.inst \in Inst /\ server'[x.req] = "completed"
        PROVE  proc' \in [Proc -> ProcState] /\ ProcsOK'
    <3>1. stage \in Begins
      BY DEF Begins
    <3>2. PICK P \in ProcState : /\ P = To(x, stage, x.inst) /\ P.at = stage
                                 /\ P.req = x.req /\ P.inst = x.inst
      BY <1>0, <3>1, ToState
    <3>3. StateOK(P)'
      BY <1>2, <2>2, <3>2 DEF StateOK
    <3> QED
      BY <1>0, <1>3, <2>2, <3>2, <3>3, Forms, Moved
  <2> QED
    BY <1>3, <2>1, <2>2
<1>4. CASE BeginReplace \/ BeginCreate \/ BeginRouted
  <2>1. UNCHANGED <<server, owner, done, fresh>>
    BY <1>4 DEF BeginReplace, BeginCreate, BeginRouted, account
  <2>2. Progress
    BY <2>1 DEF Progress, Passed
  <2>3. {pend', reply'} \subseteq Req \cup {None}
    BY <1>0, <1>2, <1>4 DEF BeginReplace, BeginCreate, BeginRouted, TypeOK
  <2>4. proc' \in [Proc -> ProcState] /\ ProcsOK'
    BY <1>3, <1>4, <2>2 DEF BeginReplace, BeginCreate, BeginRouted
  <2> QED
    BY <1>0, <1>1, <2>1, <2>2, <2>3, <2>4, Untold DEF TypeOK
<1>5. CASE BeginRequest
  <2>1. UNCHANGED <<owner, pend, reply, done, fresh>>
    BY <1>5 DEF BeginRequest, LocalFiles
  <2>2. /\ server' \in [Req -> {"new", "pending", "approved", "completed",
                                "denied", "expired"}]
        /\ Progress
    BY <1>0, <1>2, <1>5 DEF BeginRequest, TypeOK, Progress, Passed, Over
  <2>3. proc' \in [Proc -> ProcState] /\ ProcsOK'
    BY <1>3, <1>5, <2>2 DEF BeginRequest
  <2> QED
    BY <1>0, <1>1, <2>1, <2>2, <2>3, Untold DEF TypeOK
<1>6. CASE ReuseAsked
  <2>1. UNCHANGED <<pend, reply, done, fresh>>
    BY <1>6 DEF ReuseAsked, LocalFiles
  <2>2. x.inst \in Inst
    BY <1>2, <1>6 DEF ReuseAsked, At
  <2>3. /\ server' \in [Req -> {"new", "pending", "approved", "completed",
                                "denied", "expired"}]
        /\ owner' \in [Req -> Inst \cup {None}]
        /\ Progress
    BY <1>0, <1>2, <1>6, <2>2 DEF ReuseAsked, TypeOK, Progress, Passed, Over
  <2>4. \/ Leave("helper")
        \/ Goto("helper", "reused") /\ server'[x.req] = "completed"
    BY <1>0, <1>2, <1>6 DEF ReuseAsked, TypeOK
  <2>5. proc' \in [Proc -> ProcState] /\ ProcsOK'
    BY <1>3, <2>2, <2>3, <2>4
  <2> QED
    BY <1>0, <1>1, <2>1, <2>3, <2>5, Untold DEF TypeOK
<1>7. CASE Reused
  <2>1. UNCHANGED <<server, owner, pend, reply>>
    BY <1>7 DEF Reused, account
  <2>2. Progress
    BY <2>1 DEF Progress, Passed
  <2>3. x.inst \in Inst /\ Over(x.req)
    BY <1>2, <1>7 DEF Reused, At, Over
  <2>4. \/ UNCHANGED <<done, fresh>>
        \/ done' = [req |-> x.req, inst |-> x.inst] /\ fresh' = FALSE
    BY <1>7 DEF Reused
  <2>5. /\ done' \in Completion \cup {None}
        /\ (done' = done \/ Over(done.req)') /\ fresh' \in BOOLEAN
    <3>1. CASE UNCHANGED <<done, fresh>>
      BY <1>0, <3>1 DEF TypeOK
    <3>2. CASE done' = [req |-> x.req, inst |-> x.inst] /\ fresh' = FALSE
      <4>1. done' \in Completion /\ done'.req = x.req
        BY <1>2, <2>3, <3>2
      <4> QED
        BY <2>1, <2>3, <3>2, <4>1 DEF Over
    <3> QED
      BY <2>4, <3>1, <3>2
  <2>6. proc' \in [Proc -> ProcState] /\ ProcsOK'
    BY <1>3, <1>7, <2>2 DEF Reused
  <2> QED
    BY <1>0, <1>1, <2>1, <2>2, <2>5, <2>6, Untold DEF TypeOK
<1> QED
  BY <1>4, <1>5, <1>6, <1>7 DEF BeginActs

LEMMA BeginTold == ASSUME ToldInv, NEW r \in Req, Begin(r) PROVE ToldInv'
<1>0. TypeOK /\ "helper" \in Proc
  BY DEF ToldInv, Proc
<1> DEFINE P == [Idle EXCEPT !.at = "begin", !.req = r]
<1>1. P \in ProcState /\ P.at = "begin" /\ P.req = r
  BY DEF Idle, ProcState, Begins
<1>2. /\ proc' = [proc EXCEPT !["helper"] = P]
      /\ begun' \subseteq Req
      /\ UNCHANGED <<server, owner, alive, pend, cred, done, fresh, reply,
                     notifier>>
  BY <1>0 DEF Begin, account, LocalFiles, TypeOK
<1>3. faults' \in {faults, faults + 1} /\ faults' <= MaxFaults
  BY <1>0, AuthorizationAssumption DEF Begin, TypeOK
<1> HIDE DEF P
<1>4. Progress /\ StateOK(P)'
  BY <1>1, <1>2 DEF Progress, Passed, StateOK
<1>5. proc' \in [Proc -> ProcState] /\ ProcsOK'
  BY <1>0, <1>1, <1>2, <1>4, Moved
<1> QED
  BY <1>0, <1>2, <1>3, <1>4, <1>5, Untold DEF TypeOK

LEMMA BrokenTold ==
  ASSUME ToldInv, NEW p \in Proc, Broken(p) PROVE ToldInv'
<1>0. TypeOK
  BY DEF ToldInv
<1>1. /\ proc' = [proc EXCEPT ![p] = Idle]
      /\ UNCHANGED <<account, LocalFiles, begun, notifier>>
  BY DEF Broken, Leave
<1>2. faults' \in {faults, faults + 1} /\ faults' <= MaxFaults
  BY <1>0, AuthorizationAssumption DEF Broken, TypeOK
<1> QED
  BY <1>1, <1>2, IdleState, IdleOK, JustMoved

(* The account changes its mind.                                           *)
AccountStep ==
  \/ \E r \in Req : Approve(r) \/ Deny(r) \/ Expire(r)
  \/ \E i \in Inst : Delete(i)

LEMMA AccountTold == ASSUME ToldInv, AccountStep PROVE ToldInv'
<1>0. TypeOK /\ ProcsOK
  BY DEF ToldInv
<1>1. UNCHANGED <<LocalFiles, proc, begun, notifier, faults>>
  BY DEF AccountStep, Approve, Deny, Expire, Delete, Elsewhere
<1>2. ASSUME NEW r \in Req, Approve(r) \/ Deny(r) \/ Expire(r)
      PROVE  /\ server' \in [Req -> {"new", "pending", "approved", "completed",
                                     "denied", "expired"}]
             /\ owner' \in [Req -> Inst \cup {None}] /\ alive' \subseteq Inst
             /\ Progress
  <2>1. server' \in [Req -> {"new", "pending", "approved", "completed",
                             "denied", "expired"}]
    BY <1>0, <1>2 DEF Approve, Deny, Expire, TypeOK
  <2>2. owner' \in [Req -> Inst \cup {None}] /\ alive' \subseteq Inst
    BY <1>0, <1>2 DEF Approve, Deny, Expire, TypeOK, Inst
  <2>3. Progress
    BY <1>0, <1>2 DEF Approve, Deny, Expire, TypeOK, Progress, Passed, Over
  <2> QED
    BY <2>1, <2>2, <2>3
<1>3. ASSUME NEW i \in Inst, Delete(i)
      PROVE  /\ server' \in [Req -> {"new", "pending", "approved", "completed",
                                     "denied", "expired"}]
             /\ owner' \in [Req -> Inst \cup {None}] /\ alive' \subseteq Inst
             /\ Progress
  BY <1>0, <1>3 DEF Delete, TypeOK, Progress, Passed, Over
<1>4. /\ server' \in [Req -> {"new", "pending", "approved", "completed",
                              "denied", "expired"}]
      /\ owner' \in [Req -> Inst \cup {None}] /\ alive' \subseteq Inst
      /\ Progress
  BY <1>2, <1>3 DEF AccountStep
<1>5. proc' \in [Proc -> ProcState] /\ ProcsOK'
  <2>1. proc' \in [Proc -> ProcState]
    BY <1>0, <1>1 DEF TypeOK, ProcState
  <2>2. ASSUME NEW p \in Proc PROVE StateOK(proc[p])'
    <3>1. PICK P \in ProcState : P = proc[p] /\ proc'[p] = P /\ StateOK(P)
      BY <1>0, <1>1 DEF TypeOK, ProcState, ProcsOK
    <3>2. StateOK(P)'
      BY <1>4, <3>1, StateKept
    <3> QED
      BY <3>1, <3>2 DEF StateOK, Passed, Over
  <2> QED
    BY <2>1, <2>2 DEF ProcsOK
<1>6. faults <= MaxFaults
  BY <1>0, AuthorizationAssumption DEF TypeOK
<1> QED
  BY <1>0, <1>1, <1>4, <1>5, <1>6, Untold DEF TypeOK, LocalFiles

(* The notifier: a message is counted before its receipt is written, and a *)
(* lost one is a fault.                                                    *)
Notifies ==
  \/ Load \/ HealthAccepted \/ NoticeStart \/ NoticeSend \/ NoticeRefused
  \/ NoticeWrite \/ Crash

LEMMA NotifiesTold == ASSUME ToldInv, Notifies PROVE ToldInv'
<1>0. TypeOK /\ ProcsOK /\ Sure /\ Counted
  BY DEF ToldInv
<1>1. UNCHANGED <<server, owner, alive, pend, cred, done, reply, begun>>
  BY DEF Notifies, Load, HealthAccepted, NoticeStart, NoticeSend,
         NoticeRefused, NoticeWrite, Crash, account, LocalFiles
<1>2. Progress
  BY <1>1 DEF Progress, Passed
<1>3. proc' \in [Proc -> ProcState] /\ ProcsOK'
  <2>1. CASE UNCHANGED proc
    BY <1>0, <1>1, <2>1 DEF TypeOK, ProcState, ProcsOK, StateOK, Passed, Over
  <2>2. CASE Crash
    <3>1. StateOK(Idle)' /\ "collector" \in Proc
      BY DEF StateOK, Idle, Proc
    <3>2. proc' = [proc EXCEPT !["collector"] = Idle]
      BY <2>2 DEF Crash, Leave
    <3> QED
      BY <1>2, <3>1, <3>2, IdleState, Moved
  <2> QED
    BY <2>1, <2>2 DEF Notifies, Load, HealthAccepted, NoticeStart, NoticeSend,
                      NoticeRefused, NoticeWrite
<1>4. /\ faults' \in 0..MaxFaults /\ faults' \in {faults, faults + 1}
      /\ fresh' \in BOOLEAN /\ receipts' \subseteq Req
      /\ {loaded', accepted'} \subseteq Inst \cup {None}
  <2>1. faults' \in 0..MaxFaults /\ faults' \in {faults, faults + 1}
    BY <1>0, AuthorizationAssumption
       DEF Notifies, Load, HealthAccepted, NoticeStart, NoticeSend,
           NoticeRefused, NoticeWrite, Crash, TypeOK
  <2>2. fresh' \in BOOLEAN
    BY <1>0 DEF Notifies, Load, HealthAccepted, NoticeStart, NoticeSend,
                NoticeRefused, NoticeWrite, Crash, TypeOK, LocalFiles
  <2>3. receipts' \subseteq Req
    BY <1>0 DEF Notifies, Load, HealthAccepted, NoticeStart, NoticeSend,
                NoticeRefused, NoticeWrite, Crash, TypeOK
  <2>4. {loaded', accepted'} \subseteq Inst \cup {None}
    BY <1>0 DEF Notifies, Load, HealthAccepted, NoticeStart, NoticeSend,
                NoticeRefused, NoticeWrite, Crash, TypeOK
  <2> QED
    BY <2>1, <2>2, <2>3, <2>4
<1>5. CASE Load \/ HealthAccepted
  <2>1. UNCHANGED <<sent, notice, receipts, faults>>
    BY <1>5 DEF Load, HealthAccepted
  <2>2. Sure' /\ Counted'
    BY <1>0, <1>1, <2>1 DEF Sure, Counted, Over
  <2> QED
    BY <1>0, <1>1, <1>3, <1>4, <2>1, <2>2 DEF ToldInv, TypeOK, ProcState
<1>6. CASE NoticeStart
  <2>1. /\ done # None /\ reply = done.req /\ done.req \in Req
        /\ notice = None /\ notice' = [at |-> "send", req |-> reply]
        /\ reply \notin receipts
        /\ UNCHANGED <<sent, receipts, faults>>
    BY <1>0, <1>6 DEF NoticeStart, TypeOK
  <2>2. notice' \in Notice
        /\ notice'.at = "send" /\ notice'.req = done.req
    BY <2>1
  <2>3. Sure'
    BY <1>0, <1>1, <2>1, <2>2 DEF Sure, Over
  <2>4. Counted'
    BY <1>0, <2>1, <2>2 DEF Counted
  <2> QED
    BY <1>0, <1>1, <1>3, <1>4, <2>1, <2>2, <2>3, <2>4
       DEF ToldInv, TypeOK, ProcState
<1>7. CASE NoticeRefused \/ NoticeWrite \/ Crash
  <2>1. /\ notice' = None /\ UNCHANGED sent
        /\ \/ UNCHANGED receipts
           \/ receipts' = receipts \cup {notice.req}
        /\ receipts \subseteq receipts'
    BY <1>7 DEF NoticeRefused, NoticeWrite, Crash
  <2>2. Sure'
    BY <1>0, <1>1, <2>1 DEF Sure, Over
  <2>3. Counted'
    <3> SUFFICES ASSUME NEW r \in Req
                 PROVE  sent[r] <= faults' + (IF r \in receipts' THEN 1 ELSE 0)
      BY <2>1 DEF Counted
    <3>1. sent[r] \in Nat /\ faults \in Nat
      BY <1>0, AuthorizationAssumption DEF TypeOK
    <3>2. \/ NoticeWrite /\ receipts' = receipts \cup {notice.req}
          \/ Crash /\ faults' = faults + 1 /\ receipts' = receipts
          \/ NoticeRefused /\ notice.at = "send" /\ receipts' = receipts
      BY <1>7 DEF NoticeRefused, NoticeWrite, Crash
    <3> QED
      BY <1>0, <1>4, <2>1, <3>1, <3>2 DEF Counted
  <2> QED
    BY <1>0, <1>1, <1>3, <1>4, <2>1, <2>2, <2>3 DEF ToldInv, TypeOK, ProcState
<1>8. CASE NoticeSend
  <2> DEFINE n == notice.req
  <2>1. /\ notice # None /\ n \in Req /\ notice.at = "send" /\ Over(n)
        /\ n \notin receipts /\ sent' = [sent EXCEPT ![n] = @ + 1]
        /\ UNCHANGED receipts
    BY <1>0, <1>8 DEF NoticeSend, TypeOK, Sure
  <2>2. \/ /\ notice' # None /\ notice'.at = "write" /\ notice'.req = n
           /\ notice' \in Notice
           /\ UNCHANGED faults
        \/ notice' = None /\ faults' = faults + 1
    <3>1. [notice EXCEPT !.at = "write"] \in Notice
          /\ [notice EXCEPT !.at = "write"].at = "write"
          /\ [notice EXCEPT !.at = "write"].req = n
      BY <1>0, <2>1 DEF TypeOK
    <3>2. [notice EXCEPT !.at = "write"] # None
      BY <3>1, AuthorizationAssumption
    <3> QED
      BY <1>8, <3>1, <3>2 DEF NoticeSend
  <2>3. /\ sent'[n] = sent[n] + 1 /\ sent[n] \in Nat /\ faults \in Nat
        /\ \A r \in Req \ {n} : sent'[r] = sent[r] /\ sent[r] \in Nat
    BY <1>0, <2>1, AuthorizationAssumption DEF TypeOK
  <2> HIDE DEF n
  <2>4. Sure'
    <3>1. \A r \in Req : sent'[r] > 0 => Over(r)'
      BY <1>0, <1>1, <2>1, <2>3 DEF Sure, Over
    <3>2. notice' # None => Over(notice.req)' /\ notice'.req \notin receipts'
      BY <1>1, <2>1, <2>2 DEF Over
    <3> QED
      BY <1>0, <1>1, <3>1, <3>2 DEF Sure, Over
  <2>5. Counted'
    <3> SUFFICES ASSUME NEW r \in Req
                 PROVE  sent'[r] <= faults' +
                          (IF r \in receipts
                              \/ (notice' # None /\ notice'.at = "write"
                                    /\ notice'.req = r)
                           THEN 1 ELSE 0)
      BY <2>1 DEF Counted
    <3>1. sent[r] <= faults + (IF r \in receipts THEN 1 ELSE 0)
      BY <1>0, <2>1 DEF Counted
    <3>2. CASE r = n
      BY <2>1, <2>2, <2>3, <3>1, <3>2
    <3>3. CASE r # n
      BY <2>1, <2>2, <2>3, <3>1, <3>3
    <3> QED
      BY <3>2, <3>3
  <2>6. sent' \in [Req -> 0..(MaxFaults + 1)]
    <3>1. \A r \in Req : sent'[r] \in Nat /\ sent'[r] <= faults' + 1
      BY <1>4, <2>3, <2>5, AuthorizationAssumption DEF Counted
    <3>2. sent' = [sent EXCEPT ![n] = @ + 1] /\ n \in Req
      BY <2>1
    <3>3. DOMAIN sent = Req /\ sent \in [Req -> 0..(MaxFaults + 1)]
      BY <1>0 DEF TypeOK
    <3>4. \A r \in Req : sent'[r] \in 0..(MaxFaults + 1)
      BY <1>4, <3>1, AuthorizationAssumption
    <3> QED
      BY <3>2, <3>3, <3>4
  <2> QED
    BY <1>0, <1>1, <1>3, <1>4, <2>1, <2>2, <2>4, <2>5, <2>6
       DEF ToldInv, TypeOK, ProcState
<1> QED
  BY <1>5, <1>6, <1>7, <1>8 DEF Notifies

LEMMA ToldStep == ToldInv /\ [Next]_vars => ToldInv'
<1> SUFFICES ASSUME ToldInv, [Next]_vars PROVE ToldInv'
  OBVIOUS
<1>1. CASE Next
  <2>1. ASSUME NEW p \in Proc, PollStart(p) \/ PollStep(p) \/ Broken(p)
        PROVE  ToldInv'
    BY <2>1, LooksTold, ActsTold, BrokenTold DEF PollStep, Looks, Acts
  <2>2. ASSUME BeginStep PROVE ToldInv'
    BY <2>2, BeginLooksTold, BeginActsTold DEF BeginStep, BeginLooks, BeginActs
  <2>3. ASSUME NEW r \in Req, Begin(r) PROVE ToldInv'
    BY <2>3, BeginTold
  <2> QED
    BY <1>1, <2>1, <2>2, <2>3, AccountTold, NotifiesTold
       DEF Next, AccountStep, Notifies
<1>2. CASE UNCHANGED vars
  BY <1>2 DEF vars, account, notifier, ToldInv, TypeOK, ProcsOK, StateOK,
              Passed, Over, Sure, Counted
<1> QED
  BY <1>1, <1>2

(* The user is told of a connection once, with every crash or lost receipt *)
(* at most once more, and never of a request that was refused (ToldOnce;   *)
(* connection-notice.js).                                                  *)
THEOREM Announced == Spec => []ToldOnce
<1>1. ToldInv => ToldOnce
  <2> SUFFICES ASSUME ToldInv PROVE ToldOnce
    OBVIOUS
  <2>1. TypeOK /\ Sure /\ Counted
    BY DEF ToldInv
  <2>2. ASSUME NEW r \in Req PROVE sent[r] <= 1 + faults
    <3>1. sent[r] \in Nat /\ faults \in Nat
      BY <2>1, AuthorizationAssumption DEF TypeOK
    <3> QED
      BY <2>1, <3>1 DEF Counted
  <2> QED
    BY <2>1, <2>2 DEF ToldOnce, Sure, Over
<1> QED
  BY <1>1, InitTold, ToldStep, PTL DEF Spec
-----------------------------------------------------------------------------
(* The credential and the completion, when no request is begun while       *)
(* another is polled.                                                      *)
Granted == {"approved", "inspect", "write", "ack", "refused", "revoke",
            "lapsed", "issued"}

(* What a process in an await knows of the installation and of the files.  *)
BindOK(x) ==
  /\ x.at \in Polls => pend \in {None, x.req}
  /\ x.at \in Granted => owner[x.req] = x.req
  /\ x.at \in {"refused", "revoke"} => server[x.req] = "denied"
  /\ x.at = "inspect" => cred # None /\ cred.inst \in {x.inst, x.req}
  /\ x.at = "write" =>
       cred = None \/ cred.inst = x.req \/ cred.inst \notin alive
  /\ x.at \in {"ack", "refused", "revoke", "lapsed"} =>
       cred # None /\ cred.inst = x.req
  /\ x.at \in {"record", "reused"} => x.inst = owner[x.req]
  /\ x.at \in Begins \ {"reused"} => server[x.req] # "completed"

(* One request at a time: it is begun by the helper alone, and polled by   *)
(* both.                                                                   *)
Turns ==
  /\ proc["collector"].at \notin Begins
  /\ proc["helper"].at \in Begins => proc["collector"].at = "idle"
  /\ proc["collector"].at \in Polls /\ proc["helper"].at \in Polls =>
       proc["collector"].req = proc["helper"].req

(* The account: what it has approved is the request's own installation,    *)
(* and what it has not, or has refused, is not alive.                      *)
Issued ==
  \A r \in Req :
    /\ server[r] = "approved" => owner[r] = r
    /\ server[r] \in {"new", "pending", "denied"} => r \notin alive

(* The credential in the file was issued; it is the one that the request   *)
(* at hand was completed for.                                              *)
Current(r) == pend = r \/ \E p \in Proc : proc[p].at \in Polls /\ proc[p].req = r
Shared ==
  /\ cred # None /\ cred.inst \in Req => Passed(cred.inst)
  /\ \A r \in Req :
       Current(r) /\ server[r] = "completed" /\ cred # None /\ cred.active
         => cred.inst = owner[r]

BoundInv ==
  /\ Turns /\ Issued /\ Shared
  /\ \A p \in Proc : BindOK(proc[p])

LEMMA Stages ==
  /\ Polls \cap Begins = {} /\ "idle" \notin Polls \cup Begins
  /\ Granted \subseteq Polls /\ {"record", "completed"} \subseteq Polls
  /\ {"reuse", "reused"} \subseteq Begins
BY DEF Polls, Begins, Granted

LEMMA TwoProcs == Proc = {"collector", "helper"} /\ "collector" # "helper"
BY DEF Proc

LEMMA InitBound == Init => BoundInv
<1> SUFFICES ASSUME Init PROVE BoundInv
  OBVIOUS
<1>1. \A p \in Proc : proc[p] = Idle /\ Idle.at = "idle"
  BY IdleState DEF Init
<1>2. Turns /\ \A p \in Proc : BindOK(proc[p])
  BY <1>1, Stages, TwoProcs DEF Turns, BindOK
<1>3. Issued
  BY AuthorizationAssumption DEF Init, Issued
<1>4. Shared
  BY AuthorizationAssumption DEF Init, Shared, Passed
<1> QED
  BY <1>2, <1>3, <1>4 DEF BoundInv

(* A process that goes on in its turn, or ends it.                         *)
LEMMA TurnsKept ==
  ASSUME ToldInv, Turns, NEW p \in Proc, NEW P \in ProcState,
         proc' = [proc EXCEPT ![p] = P],
         \/ P.at = "idle"
         \/ P.at \in Polls /\ proc[p].at \in Polls /\ P.req = proc[p].req
         \/ P.at \in Begins /\ proc[p].at \in Begins
  PROVE  Turns'
<1>1. proc \in [Proc -> ProcState]
  BY DEF ToldInv, TypeOK, ProcState
<1>2. proc'[p] = P /\ \A q \in Proc \ {p} : proc'[q] = proc[q]
  BY <1>1
<1> QED
  BY <1>1, <1>2, Stages, TwoProcs DEF Turns

(* A step that changes neither the account nor the two files.              *)
LEMMA Quiet ==
  ASSUME ToldInv, BoundInv, NEW p \in Proc, NEW P \in ProcState,
         proc' = [proc EXCEPT ![p] = P], BindOK(P), Turns',
         P.at \in Polls => Current(P.req),
         UNCHANGED <<server, owner, alive, pend, cred>>
  PROVE  BoundInv'
<1>0. Turns /\ Issued /\ Shared /\ \A q \in Proc : BindOK(proc[q])
  BY DEF BoundInv
<1>1. proc \in [Proc -> ProcState]
  BY DEF ToldInv, TypeOK, ProcState
<1>2. proc'[p] = P /\ \A q \in Proc \ {p} : proc'[q] = proc[q]
  BY <1>1
<1>3. ASSUME NEW q \in Proc PROVE BindOK(proc[q])'
  <2>1. PICK x \in ProcState : x = proc'[q] /\ BindOK(x)
    BY <1>0, <1>1, <1>2
  <2> QED
    BY <2>1 DEF BindOK
<1>4. Issued'
  BY <1>0 DEF Issued
<1>5. Shared'
  <2>1. ASSUME NEW r \in Req, Current(r)' PROVE Current(r)
    BY <1>1, <1>2, <2>1 DEF Current
  <2> QED
    BY <1>0, <2>1 DEF Shared, Passed
<1> QED
  BY <1>3, <1>4, <1>5 DEF BoundInv

LEMMA LeaveBound ==
  ASSUME ToldInv, BoundInv, NEW p \in Proc, Leave(p),
         UNCHANGED <<server, owner, alive, pend, cred>>
  PROVE  BoundInv'
<1>1. Idle \in ProcState /\ BindOK(Idle) /\ Idle.at \notin Polls
  BY IdleState, Stages DEF BindOK, Idle
<1>2. proc' = [proc EXCEPT ![p] = Idle]
  BY DEF Leave
<1>3. Turns'
  BY <1>1, <1>2, IdleState, TurnsKept DEF BoundInv
<1> QED
  BY <1>1, <1>2, <1>3, Quiet

LEMMA NotifiesBound ==
  ASSUME ToldInv, BoundInv, Notifies \/ \E p \in Proc : Broken(p)
  PROVE  BoundInv'
<1>1. UNCHANGED <<server, owner, alive, pend, cred>>
  BY DEF Notifies, Load, HealthAccepted, NoticeStart, NoticeSend,
         NoticeRefused, NoticeWrite, Crash, Broken, account, LocalFiles
<1>2. CASE UNCHANGED proc
  BY <1>1, <1>2 DEF BoundInv, Turns, Issued, Shared, Current, BindOK, Passed
<1>3. CASE \E p \in Proc : Leave(p)
  BY <1>1, <1>3, LeaveBound
<1> QED
  BY <1>2, <1>3, TwoProcs
     DEF Notifies, Load, HealthAccepted, NoticeStart, NoticeSend,
         NoticeRefused, NoticeWrite, Crash, Broken
LEMMA LooksBound ==
  ASSUME ToldInv, BoundInv, NEW p \in Proc, Looks(p), ~Overlap
  PROVE  BoundInv'
<1> DEFINE x == proc[p]
<1>0. /\ TypeOK /\ x \in ProcState /\ StateOK(x) /\ BindOK(x)
      /\ Turns /\ Issued /\ Shared /\ proc \in [Proc -> ProcState]
      /\ \A q \in Proc : BindOK(proc[q])
  BY Forms DEF ToldInv, ProcsOK, BoundInv, TypeOK, ProcState
<1>1. UNCHANGED <<server, owner, alive, pend, cred>>
  BY DEF Looks, PollStart, Asked, ExistingRead, Inspected, Refused, Lapsed,
         IssuedLooked, CompletedRead, account, LocalFiles
<1>2. CASE Leave(p)
  BY <1>1, <1>2, LeaveBound
<1>3. CASE PollStart(p)
  <2>1. PICK P \in ProcState : /\ P.at = "ask" /\ P.req = pend
                               /\ proc' = [proc EXCEPT ![p] = P]
    <3> DEFINE P == [Idle EXCEPT !.at = "ask", !.req = pend]
    <3>1. pend \in Req
      BY <1>0, <1>3 DEF PollStart, TypeOK
    <3>2. P \in ProcState /\ P.at = "ask" /\ P.req = pend
      BY <3>1 DEF Idle, ProcState, Polls
    <3>3. proc' = [proc EXCEPT ![p] = P]
      BY <1>3 DEF PollStart
    <3> HIDE DEF P
    <3> QED
      BY <3>2, <3>3
  <2>2. /\ pend # None /\ "ask" \in Polls
        /\ \A q \in Proc : proc[q].at \notin Begins
    BY <1>3 DEF PollStart, Polls
  <2>3. BindOK(P)
    BY <2>1, <2>2, Stages DEF BindOK, Granted
  <2>4. Turns'
    <3>1. proc'[p] = P /\ \A q \in Proc \ {p} : proc'[q] = proc[q]
      BY <1>0, <2>1
    <3>2. \A q \in Proc : proc[q].at \in Polls => proc[q].req = pend
      BY <1>0, <2>2 DEF BindOK
    <3> QED
      BY <2>1, <2>2, <3>1, <3>2, Stages, TwoProcs DEF Turns
  <2> QED
    BY <1>1, <2>1, <2>3, <2>4, Quiet DEF Current
<1>4. ASSUME x.at \in Polls, x.req \in Req,
             NEW stage \in Polls, NEW i \in Inst \cup {None},
             proc' = [proc EXCEPT ![p] = To(x, stage, i)],
             BindOK(To(x, stage, i))
      PROVE  BoundInv'
  <2>1. PICK P \in ProcState : /\ P = To(x, stage, i) /\ P.at = stage
                               /\ P.req = x.req
    BY <1>0, ToState
  <2>2. Turns'
    BY <1>0, <1>4, <2>1, TurnsKept
  <2> QED
    BY <1>1, <1>4, <2>1, <2>2, Quiet DEF Current
<1>5. CASE Asked(p)
  <2>1. x.at = "ask" /\ x.req \in Req /\ x.inst \in Inst \cup {None}
        /\ x.at \in Polls
    BY <1>0, <1>5 DEF Asked, At, StateOK, ProcState, Polls
  <2>2. ASSUME NEW stage \in {"approved", "completed", "rm"}, Goto(p, stage),
               stage = "approved" => server[x.req] = stage
        PROVE  BoundInv'
    <3>1. stage \in Polls
      BY DEF Polls
    <3>2. stage = "approved" => owner[x.req] = x.req
      BY <1>0, <2>1, <2>2 DEF Issued
    <3>3. BindOK(To(x, stage, x.inst))
      BY <1>0, <2>1, <3>1, <3>2, Stages DEF BindOK, To, Granted
    <3> QED
      BY <1>0, <1>4, <2>1, <2>2, <3>1, <3>3, Forms
  <2> QED
    BY <1>2, <1>5, <2>2 DEF Asked
<1>6. CASE ExistingRead(p) \/ Inspected(p)
  <2>1. /\ x.at \in {"approved", "inspect"} /\ x.req \in Req
        /\ x.inst \in Inst \cup {None} /\ x.at \in Polls
        /\ owner[x.req] = x.req /\ pend \in {None, x.req}
    BY <1>0, <1>6
       DEF ExistingRead, Inspected, At, StateOK, BindOK, ProcState, Polls,
           Granted
  <2>2. "inspect" \in Polls /\ "write" \in Polls
    BY DEF Polls
  <2>3. CASE cred # None /\ Hold(p, "inspect", cred.inst)
    <3>1. cred.inst \in Inst
      BY <1>0, <2>3 DEF TypeOK
    <3>2. BindOK(To(x, "inspect", cred.inst))
      BY <2>1, <2>2, <2>3, Stages DEF BindOK, To
    <3> QED
      BY <1>0, <1>4, <2>1, <2>2, <2>3, <3>1, <3>2, Forms
  <2>4. CASE Goto(p, "write")
             /\ (cred = None \/ cred.inst = x.req \/ cred.inst \notin alive)
    <3>1. BindOK(To(x, "write", x.inst))
      BY <2>1, <2>2, <2>4, Stages DEF BindOK, To
    <3> QED
      BY <1>0, <1>4, <2>1, <2>2, <2>4, <3>1, Forms
  <2> QED
    BY <1>0, <1>2, <1>6, <2>3, <2>4 DEF ExistingRead, Inspected, At, BindOK
<1>7. CASE Refused(p)
  <2>1. /\ x.at = "refused" /\ x.req \in Req /\ x.inst \in Inst \cup {None}
        /\ x.at \in Polls
    BY <1>0, <1>7 DEF Refused, At, StateOK, ProcState, Polls
  <2>2. ASSUME NEW stage \in {"revoke", "drop"}
        PROVE  BindOK(To(x, stage, x.inst)) /\ stage \in Polls
    <3>1. stage \in Polls
      BY DEF Polls
    <3> QED
      BY <1>0, <2>1, <3>1, Stages DEF BindOK, To, Granted
  <2> QED
    BY <1>0, <1>4, <1>7, <2>1, <2>2, Forms DEF Refused
<1>8. CASE Lapsed(p) \/ IssuedLooked(p)
  <2>1. /\ x.at \in {"lapsed", "issued"} /\ x.req \in Req
        /\ x.inst \in Inst \cup {None} /\ x.at \in Polls
        /\ owner[x.req] = x.req /\ x.req \in Inst
    BY <1>0, <1>8 DEF Lapsed, IssuedLooked, At, StateOK, BindOK, ProcState,
                      Polls, Granted, Inst
  <2>2. /\ "record" \in Polls /\ "drop" \in Polls /\ "issued" \in Polls
        /\ {"record", "drop"} \cap Granted = {}
    BY DEF Polls, Granted
  <2>3. ASSUME NEW i \in Inst \cup {None}, NEW stage \in {"issued", "drop"}
        PROVE  BindOK(To(x, stage, i))
    BY <1>0, <2>1, <2>2, Stages DEF BindOK, To
  <2>4. BindOK(To(x, "record", x.req))
    BY <1>0, <2>1, <2>2, Stages DEF BindOK, To
  <2>5. cred # None => cred.inst \in Inst
    BY <1>0 DEF TypeOK
  <2> QED
    BY <1>0, <1>4, <1>8, <2>1, <2>2, <2>3, <2>4, <2>5, Forms
       DEF Lapsed, IssuedLooked
<1>9. CASE CompletedRead(p)
  <2>1. /\ x.at = "completed" /\ x.req \in Req /\ x.at \in Polls
        /\ server[x.req] = "completed" /\ "record" \in Polls
    BY <1>0, <1>9 DEF CompletedRead, At, StateOK, Polls
  <2>2. CASE cred # None /\ cred.active
    <3>1. cred.inst \in Inst /\ cred.inst = owner[x.req]
      BY <1>0, <2>1, <2>2 DEF TypeOK, Shared, Current
    <3>2. BindOK(To(x, "record", cred.inst))
      BY <1>0, <2>1, <3>1, Stages DEF BindOK, To, Granted
    <3>3. Hold(p, "record", cred.inst)
      BY <1>9, <2>2 DEF CompletedRead
    <3> QED
      BY <1>0, <1>4, <2>1, <3>1, <3>2, <3>3, Forms
  <2> QED
    BY <1>2, <1>9, <2>2 DEF CompletedRead
<1> QED
  BY <1>3, <1>5, <1>6, <1>7, <1>8, <1>9 DEF Looks
(* A step of a poll that writes: what the other process knows still holds, *)
(* for it polls the same request.                                          *)
LEMMA ActsBound ==
  ASSUME ToldInv, BoundInv, NEW p \in Proc, Acts(p)
  PROVE  BoundInv'
<1> DEFINE x == proc[p]
<1>0. /\ TypeOK /\ x \in ProcState /\ StateOK(x) /\ BindOK(x)
      /\ Turns /\ Issued /\ Shared /\ proc \in [Proc -> ProcState]
      /\ \A q \in Proc : BindOK(proc[q]) /\ StateOK(proc[q])
  BY Forms DEF ToldInv, ProcsOK, BoundInv, TypeOK, ProcState
<1>1. /\ x.at \in {"write", "ack", "revoke", "record", "rm", "drop"}
      /\ x.at \in Polls /\ x.inst \in Inst \cup {None}
      /\ UNCHANGED <<owner, alive>>
  BY <1>0 DEF Acts, Write, Acked, Revoke, Record, Remove, At, ProcState, Polls,
              account
<1>2. PICK r \in Req : r = x.req
  BY <1>0, <1>1 DEF StateOK
<1>3. /\ pend \in {None, r}
      /\ \A q \in Proc : proc[q].at \in Polls => proc[q].req = r
      /\ proc["helper"].at \notin Begins
  <2>1. pend \in {None, r}
    BY <1>0, <1>1, <1>2 DEF BindOK
  <2>2. \A q \in Proc : proc[q].at \in Polls => proc[q].req = r
    BY <1>0, <1>1, <1>2, TwoProcs DEF Turns
  <2>3. proc["helper"].at \notin Begins
    BY <1>0, <1>1, Stages, TwoProcs DEF Turns
  <2> QED
    BY <2>1, <2>2, <2>3
<1>4. \A q \in Req : Current(q) => q = r
  BY <1>3, AuthorizationAssumption DEF Current, Inst
<1>5. ASSUME NEW stage \in Polls, NEW i \in Inst \cup {None},
             proc' = [proc EXCEPT ![p] = To(x, stage, i)],
             \A y \in ProcState : y.at = stage /\ y.req = r /\ y.inst = i =>
               BindOK(y)',
             \A y \in ProcState :
               /\ BindOK(y) /\ StateOK(y)
               /\ y.at \notin Begins /\ (y.at \in Polls => y.req = r)
               => BindOK(y)',
             Issued', pend' \in {pend, None},
             cred' # None /\ cred'.inst \in Req => Passed(cred.inst)',
             server'[r] = "completed" /\ cred' # None /\ cred'.active
               => (Current(r) => cred'.inst = owner[r]),
             \A q \in Req \ {r} : server'[q] = server[q]
      PROVE  BoundInv'
  <2>1. PICK P \in ProcState : /\ P = To(x, stage, i) /\ P.at = stage
                               /\ P.req = r /\ P.inst = i
    BY <1>0, <1>2, ToState
  <2>2. proc'[p] = P /\ \A q \in Proc \ {p} : proc'[q] = proc[q]
    BY <1>0, <1>5, <2>1
  <2>3. Turns'
    BY <1>0, <1>1, <1>2, <1>5, <2>1, TurnsKept
  <2>4. ASSUME NEW q \in Proc PROVE BindOK(proc[q])'
    <3>1. proc[q].at \notin Begins
      BY <1>0, <1>3, TwoProcs DEF Turns
    <3>2. PICK y \in ProcState : y = proc'[q] /\ BindOK(y)'
      BY <1>0, <1>3, <1>5, <2>1, <2>2, <3>1
    <3> QED
      BY <3>2 DEF BindOK
  <2>5. Shared'
    <3>1. ASSUME NEW q \in Req, Current(q)' PROVE q = r /\ Current(r)
      <4>1. pend' = q \/ \E u \in Proc : proc'[u].at \in Polls /\ proc'[u].req = q
        BY <3>1 DEF Current
      <4> QED
        BY <1>0, <1>1, <1>2, <1>3, <1>5, <2>1, <2>2, <4>1,
           AuthorizationAssumption DEF Current, Inst
    <3> QED
      BY <1>1, <1>5, <3>1 DEF Shared
  <2> QED
    BY <1>5, <2>3, <2>4, <2>5 DEF BoundInv
<1>6. CASE Write(p) \/ Revoke(p)
  <2>8. PICK i \in Inst \cup {None} : i = x.inst
    BY <1>1
  <2>1. PICK a \in BOOLEAN, stage \in {"ack", "drop"} :
          /\ cred' = [inst |-> r, active |-> a] /\ Goto(p, stage)
          /\ a => x.at = "write" /\ stage = "ack"
          /\ stage = "ack" => x.at = "write"
    BY <1>2, <1>6 DEF Write, Revoke, At
  <2>2. UNCHANGED <<server, pend>> /\ stage \in Polls
    BY <1>6 DEF Write, Revoke, account, Polls
  <2>3. /\ cred' # None /\ cred'.inst = r /\ cred'.active = a
        /\ proc' = [proc EXCEPT ![p] = To(x, stage, i)]
    <3>1. cred' \in Credential
      BY <2>1 DEF Inst
    <3> QED
      BY <1>0, <2>1, <2>8, <3>1, AuthorizationAssumption, Forms
  <2>4. Passed(r) /\ (a => owner[r] = r) /\ (stage = "ack" => owner[r] = r)
    BY <1>0, <1>1, <1>2, <1>6, <2>1, Stages
       DEF Write, Revoke, At, StateOK, BindOK, Passed, Granted
  <2>5. ASSUME NEW y \in ProcState, y.at = stage, y.req = r, y.inst = i
        PROVE  BindOK(y)'
    BY <1>1, <1>3, <2>1, <2>2, <2>3, <2>4, <2>5, Stages DEF BindOK, Granted
  <2>6. ASSUME NEW y \in ProcState, BindOK(y), y.at \notin Begins,
               y.at \in Polls => y.req = r
        PROVE  BindOK(y)'
    BY <1>1, <2>1, <2>2, <2>3, <2>6, Stages DEF BindOK, Granted, Polls
  <2>7. Issued'
    BY <1>0, <1>1, <2>2 DEF Issued
  <2> QED
    <3>1. cred'.inst \in Req => Passed(cred.inst)'
      BY <2>2, <2>3, <2>4 DEF Passed
    <3>2. cred'.active => cred'.inst = owner[r]
      BY <2>3, <2>4
    <3>3. \A q \in Req \ {r} : server'[q] = server[q]
      BY <2>2
    <3> QED
      <4>1. server'[r] = "completed" /\ cred' # None /\ cred'.active
              => (Current(r) => cred'.inst = owner[r])
        BY <3>2
      <4>2. cred' # None /\ cred'.inst \in Req => Passed(cred.inst)'
        BY <3>1
      <4>3. pend' \in {pend, None}
        BY <2>2
      <4>4. \A y \in ProcState : y.at = stage /\ y.req = r /\ y.inst = i =>
               BindOK(y)'
        BY <2>5
      <4>5. \A y \in ProcState :
               /\ BindOK(y) /\ StateOK(y)
               /\ y.at \notin Begins /\ (y.at \in Polls => y.req = r)
               => BindOK(y)'
        BY <2>6
      <4> QED
        BY <1>5, <2>2, <2>3, <2>7, <2>8, <3>3, <4>1, <4>2, <4>3, <4>4, <4>5
<1>7. CASE Acked(p)
  <2>1. /\ x.at = "ack" /\ Passed(r) /\ owner[r] = r
        /\ cred # None /\ cred.inst = r
    BY <1>0, <1>2, <1>7, Stages DEF Acked, At, StateOK, BindOK, Granted
  <2>2. /\ server' = [server EXCEPT ![r] =
                        IF @ = "approved" THEN "completed" ELSE @]
        /\ UNCHANGED <<pend, cred>>
    BY <1>2, <1>7 DEF Acked, LocalFiles
  <2>3. /\ \A q \in Req \ {r} : server'[q] = server[q]
        /\ server'[r] \in {"completed", "denied", "expired"}
        /\ server'[r] = "denied" <=> server[r] = "denied"
        /\ Passed(r)'
    BY <1>0, <2>1, <2>2 DEF TypeOK, Passed
  <2>4. PICK stage \in {"refused", "lapsed", "record"}, i \in Inst \cup {None} :
          /\ proc' = [proc EXCEPT ![p] = To(x, stage, i)]
          /\ stage = "refused" => server'[r] = "denied"
          /\ stage = "record" => i = r
    <3>1. \/ server[r] = "denied" /\ Goto(p, "refused")
          \/ server[r] = "expired" /\ Goto(p, "lapsed")
          \/ Hold(p, "record", r)
      BY <1>2, <1>7 DEF Acked
    <3>2. r \in Inst /\ "record" \in Polls
      BY DEF Inst, Polls
    <3> QED
      BY <1>0, <1>1, <2>3, <3>1, <3>2, Forms
  <2>5. stage \in Polls
    BY DEF Polls
  <2>6. ASSUME NEW y \in ProcState, y.at = stage, y.req = r, y.inst = i
        PROVE  BindOK(y)'
    BY <1>1, <1>3, <2>1, <2>2, <2>4, <2>5, <2>6, Stages DEF BindOK
  <2>7. ASSUME NEW y \in ProcState, BindOK(y), y.at \notin Begins,
               y.at \in Polls => y.req = r
        PROVE  BindOK(y)'
    BY <1>1, <2>2, <2>3, <2>7, Stages DEF BindOK, Granted, Polls
  <2>8. Issued'
    BY <1>0, <1>1, <2>3 DEF Issued
  <2>9. cred'.inst \in Req => Passed(cred.inst)'
    BY <2>1, <2>2, <2>3
  <2> QED
    BY <1>1, <1>5, <2>1, <2>2, <2>3, <2>4, <2>5, <2>6, <2>7, <2>8, <2>9
<1>8. CASE Record(p)
  <2>1. UNCHANGED <<server, owner, alive, pend, cred>> /\ "rm" \in Polls
        /\ proc' = [proc EXCEPT ![p] = To(x, "rm", x.inst)]
    BY <1>0, <1>8, Forms DEF Record, account, Polls
  <2>2. PICK P \in ProcState : /\ P = To(x, "rm", x.inst) /\ P.at = "rm"
                               /\ P.req = r
    BY <1>0, <1>1, <1>2, <2>1, ToState
  <2>3. BindOK(P)
    BY <1>3, <2>1, <2>2, Stages DEF BindOK, Granted
  <2>4. Turns'
    BY <1>0, <1>1, <1>2, <2>1, <2>2, TurnsKept
  <2> QED
    BY <1>1, <1>2, <2>1, <2>2, <2>3, <2>4, Quiet DEF Current
<1>9. CASE Remove(p)
  <2>1. /\ UNCHANGED <<server, owner, alive, cred>> /\ pend' = None
        /\ proc' = [proc EXCEPT ![p] = Idle]
    BY <1>9 DEF Remove, account, Leave
  <2>2. Turns'
    BY <1>0, <2>1, IdleState, TurnsKept
  <2>3. proc'[p] = Idle /\ \A q \in Proc \ {p} : proc'[q] = proc[q]
    BY <1>0, <2>1
  <2>4. ASSUME NEW q \in Proc PROVE BindOK(proc[q])'
    <3>1. PICK y \in ProcState : y = proc'[q] /\ (y = Idle \/ BindOK(y))
      BY <1>0, <2>3, IdleState
    <3> QED
      BY <2>1, <3>1, IdleState, Stages DEF BindOK
  <2>5. Shared' /\ Issued'
    <3>1. ASSUME NEW q \in Req, Current(q)' PROVE Current(q)
      BY <1>0, <2>1, <2>3, <3>1, IdleState, Stages, AuthorizationAssumption
         DEF Current, Inst
    <3> QED
      BY <1>0, <2>1, <3>1 DEF Shared, Issued, Passed
  <2> QED
    BY <2>2, <2>4, <2>5 DEF BoundInv
<1> QED
  BY <1>6, <1>7, <1>8, <1>9 DEF Acts
(* A step of begin(): nobody polls.                                        *)
LEMMA BeginLooksBound ==
  ASSUME ToldInv, BoundInv, BeginLooks PROVE BoundInv'
<1> DEFINE x == proc["helper"]
<1>0. /\ TypeOK /\ x \in ProcState /\ BindOK(x) /\ Turns
      /\ "helper" \in Proc /\ x.inst \in Inst \cup {None}
  BY Forms DEF ToldInv, BoundInv, Proc, ProcState
<1>1. UNCHANGED <<server, owner, alive, pend, cred>>
  BY DEF BeginLooks, BeginChecked, BeginState, BeginPrevious, account,
         LocalFiles
<1>2. /\ x.at \in {"begin", "state", "previous"} /\ x.at \in Begins
      /\ server[x.req] # "completed"
  BY <1>0, Stages
     DEF BeginLooks, BeginChecked, BeginState, BeginPrevious, At, Begins,
         BindOK
<1>3. CASE Leave("helper")
  BY <1>0, <1>1, <1>3, LeaveBound
<1>4. ASSUME NEW stage \in {"reuse", "state", "create", "request", "previous",
                            "replace"},
             NEW i \in Inst \cup {None},
             proc' = [proc EXCEPT !["helper"] = To(x, stage, i)]
      PROVE  BoundInv'
  <2>1. stage \in Begins
    BY DEF Begins
  <2>2. PICK P \in ProcState : /\ P = To(x, stage, i) /\ P.at = stage
                               /\ P.req = x.req
    BY <1>0, <2>1, ToState
  <2>3. BindOK(P)
    BY <1>2, <2>1, <2>2, Stages DEF BindOK, Granted, Polls
  <2>4. Turns'
    BY <1>0, <1>2, <1>4, <2>1, <2>2, TurnsKept
  <2> QED
    BY <1>0, <1>1, <1>4, <2>1, <2>2, <2>3, <2>4, Stages, Quiet
<1>5. \/ Leave("helper")
      \/ \E stage \in {"state", "create", "request", "replace"} :
           Goto("helper", stage)
      \/ pend # None /\ Hold("helper", "previous", pend)
      \/ cred # None /\ Hold("helper", "reuse", cred.inst)
  BY DEF BeginLooks, BeginChecked, BeginState, BeginPrevious
<1>6. /\ pend # None => pend \in Inst
      /\ cred # None => cred.inst \in Inst
  BY <1>0 DEF TypeOK, Inst
<1>7. ASSUME NEW stage \in {"state", "create", "request", "replace"},
             Goto("helper", stage)
      PROVE  BoundInv'
  BY <1>0, <1>4, <1>7, Forms
<1>8. ASSUME NEW stage \in {"previous", "reuse"}, NEW i \in Inst,
             Hold("helper", stage, i)
      PROVE  BoundInv'
  <2>1. stage \in Polls \cup Begins
    BY DEF Begins
  <2> QED
    BY <1>0, <1>4, <1>8, <2>1, Forms
<1> QED
  BY <1>3, <1>5, <1>6, <1>7, <1>8

LEMMA BeginBound ==
  ASSUME ToldInv, BoundInv, NEW r \in Req, Begin(r), ~Overlap
  PROVE  BoundInv'
<1>1. PICK P \in ProcState : /\ P.at = "begin" /\ P.req = r
                             /\ proc' = [proc EXCEPT !["helper"] = P]
  <2> DEFINE P == [Idle EXCEPT !.at = "begin", !.req = r]
  <2>1. P \in ProcState /\ P.at = "begin" /\ P.req = r
    BY DEF Idle, ProcState, Begins
  <2>2. proc' = [proc EXCEPT !["helper"] = P]
    BY DEF Begin
  <2> HIDE DEF P
  <2> QED
    BY <2>1, <2>2
<1>2. /\ UNCHANGED <<server, owner, alive, pend, cred>>
      /\ \A p \in Proc : proc[p].at = "idle"
      /\ server[r] # "completed" /\ "begin" \in Begins
  BY DEF Begin, account, LocalFiles, At, Begins
<1>3. BindOK(P)
  BY <1>1, <1>2, Stages DEF BindOK, Granted, Polls
<1>4. Turns'
  <2>1. proc \in [Proc -> ProcState]
    BY DEF ToldInv, TypeOK, ProcState
  <2> QED
    BY <1>1, <1>2, <2>1, Stages, TwoProcs DEF Turns
<1> QED
  BY <1>1, <1>2, <1>3, <1>4, Stages, TwoProcs, Quiet
LEMMA BeginActsBound ==
  ASSUME ToldInv, BoundInv, BeginActs PROVE BoundInv'
<1> DEFINE x == proc["helper"]
<1>0. /\ TypeOK /\ x \in ProcState /\ StateOK(x) /\ BindOK(x)
      /\ Turns /\ Issued /\ Shared /\ proc \in [Proc -> ProcState]
      /\ "helper" \in Proc /\ x.inst \in Inst \cup {None}
  BY Forms DEF ToldInv, ProcsOK, BoundInv, TypeOK, ProcState, Proc
<1>1. /\ x.at \in {"replace", "create", "request", "route", "reuse", "reused"}
      /\ x.at \in Begins /\ UNCHANGED <<alive, cred>>
  BY DEF BeginActs, BeginReplace, BeginCreate, BeginRequest, BeginRouted,
         ReuseAsked, Reused, At, Begins, account, LocalFiles
<1>2. PICK r \in Req, i \in Inst \cup {None} : r = x.req /\ i = x.inst
  BY <1>0, <1>1, Stages DEF StateOK
<1>3. /\ \A p \in Proc : proc[p].at \notin Polls
      /\ proc["collector"].at = "idle"
      /\ x.at # "reused" => server[r] # "completed"
  BY <1>0, <1>1, <1>2, Stages, TwoProcs DEF Turns, BindOK
<1>4. ASSUME NEW P \in ProcState, proc' = [proc EXCEPT !["helper"] = P],
             \/ P.at = "idle"
             \/ P.at \in Begins \ {"reused"} /\ P.req = r
                  /\ server'[r] # "completed"
             \/ P.at = "reused" /\ P.inst = owner'[P.req],
             Issued',
             \A q \in Req : Passed(q) => Passed(q)' /\ owner'[q] = owner[q],
             \A q \in Req : pend' = q /\ server'[q] = "completed"
                              /\ cred # None /\ cred.active
                => cred.inst = owner'[q]
      PROVE  BoundInv'
  <2>1. /\ proc'["helper"] = P /\ proc'["collector"] = proc["collector"]
        /\ P.at \notin Polls
    BY <1>0, <1>4, Stages, TwoProcs
  <2>2. Turns'
    BY <1>0, <1>1, <1>4, Stages, TurnsKept
  <2>3. ASSUME NEW p \in Proc PROVE BindOK(proc[p])'
    <3>1. PICK y \in ProcState : y = proc'[p] /\ (y = P \/ y.at = "idle")
      BY <1>0, <1>3, <2>1, TwoProcs
    <3>2. BindOK(y)'
      BY <1>4, <3>1 DEF BindOK, Polls, Begins, Granted
    <3> QED
      BY <3>1, <3>2 DEF BindOK
  <2>4. Shared'
    <3>1. ASSUME NEW q \in Req, Current(q)' PROVE pend' = q
      BY <1>3, <2>1, <3>1, Stages, TwoProcs DEF Current
    <3>2. cred' # None /\ cred'.inst \in Req => Passed(cred.inst)'
      BY <1>0, <1>1, <1>4 DEF Shared
    <3> QED
      BY <1>1, <1>4, <3>1, <3>2 DEF Shared
  <2> QED
    BY <1>4, <2>2, <2>3, <2>4 DEF BoundInv
<1>5. ASSUME UNCHANGED <<server, owner>>
      PROVE  Issued' /\ \A q \in Req : Passed(q) => Passed(q)'
                                       /\ owner'[q] = owner[q]
  BY <1>0, <1>1, <1>5 DEF Issued, Passed
<1>6. ASSUME NEW stage \in {"create", "request", "route", "reused"},
             Goto("helper", stage)
      PROVE  \E P \in ProcState :
               /\ proc' = [proc EXCEPT !["helper"] = P]
               /\ P.at = stage /\ P.req = r /\ P.inst = i
               /\ stage \in Begins
  <2>1. stage \in Begins
    BY DEF Begins
  <2> QED
    BY <1>0, <1>2, <1>6, <2>1, Forms, ToState
<1>7. CASE BeginReplace \/ BeginCreate \/ BeginRouted \/ Reused
  <2>1. UNCHANGED <<server, owner>> /\ pend' \in {None, pend, r}
        /\ (pend' = r /\ pend # r => server[r] # "completed")
    BY <1>2, <1>3, <1>7
       DEF BeginReplace, BeginCreate, BeginRouted, Reused, account, At
  <2>2. \A q \in Req : pend' = q /\ server'[q] = "completed"
                         /\ cred # None /\ cred.active
          => cred.inst = owner'[q]
    BY <1>0, <2>1, AuthorizationAssumption DEF Shared, Current, Inst
  <2>3. CASE Leave("helper")
    BY <1>4, <1>5, <2>1, <2>2, <2>3, IdleState DEF Leave
  <2>4. ASSUME NEW stage \in {"create", "request"}, Goto("helper", stage),
               server[r] # "completed"
        PROVE  BoundInv'
    <3>1. PICK P \in ProcState :
            /\ proc' = [proc EXCEPT !["helper"] = P]
            /\ P.at = stage /\ P.req = r /\ stage \in Begins
      BY <1>6, <2>4
    <3> QED
      BY <1>4, <1>5, <2>1, <2>2, <2>4, <3>1
  <2> QED
    BY <1>3, <1>7, <2>3, <2>4
       DEF BeginReplace, BeginCreate, BeginRouted, Reused, At
<1>8. CASE BeginRequest
  <2>1. /\ UNCHANGED <<owner, pend>>
        /\ \/ server[r] \in {"new", "pending"}
              /\ server' = [server EXCEPT ![r] = "pending"]
              /\ Goto("helper", "route")
           \/ UNCHANGED server /\ Leave("helper")
    BY <1>2, <1>8 DEF BeginRequest, LocalFiles
  <2>2. CASE UNCHANGED server /\ Leave("helper")
    BY <1>0, <1>4, <1>5, <2>1, <2>2, IdleState DEF Leave, Shared, Current
  <2>3. CASE /\ server[r] \in {"new", "pending"}
             /\ server' = [server EXCEPT ![r] = "pending"]
             /\ Goto("helper", "route")
    <3>1. PICK P \in ProcState :
            /\ proc' = [proc EXCEPT !["helper"] = P]
            /\ P.at = "route" /\ P.req = r /\ "route" \in Begins
      BY <1>6, <2>3
    <3>2. server'[r] = "pending" /\ \A q \in Req \ {r} : server'[q] = server[q]
      BY <1>0, <2>3 DEF TypeOK
    <3>3. Issued'
      BY <1>0, <1>1, <2>1, <2>3, <3>2 DEF Issued
    <3>4. \A q \in Req : Passed(q) => Passed(q)' /\ owner'[q] = owner[q]
      BY <2>1, <2>3, <3>2 DEF Passed
    <3>5. \A q \in Req : pend' = q /\ server'[q] = "completed"
                           /\ cred # None /\ cred.active
            => cred.inst = owner'[q]
      BY <1>0, <2>1, <3>2 DEF Shared, Current
    <3> QED
      BY <1>4, <3>1, <3>2, <3>3, <3>4, <3>5
  <2> QED
    BY <2>1, <2>2, <2>3
<1>9. CASE ReuseAsked
  <2>1. /\ UNCHANGED pend
        /\ \/ /\ Active(i) /\ server[r] = "new"
              /\ server' = [server EXCEPT ![r] = "completed"]
              /\ owner' = [owner EXCEPT ![r] = i]
              /\ Goto("helper", "reused")
           \/ UNCHANGED <<server, owner>> /\ Leave("helper")
    BY <1>2, <1>9 DEF ReuseAsked, LocalFiles
  <2>2. CASE UNCHANGED <<server, owner>> /\ Leave("helper")
    BY <1>0, <1>4, <1>5, <2>1, <2>2, IdleState DEF Leave, Shared, Current
  <2>3. CASE /\ Active(i) /\ server[r] = "new"
             /\ server' = [server EXCEPT ![r] = "completed"]
             /\ owner' = [owner EXCEPT ![r] = i]
             /\ Goto("helper", "reused")
    <3>1. PICK P \in ProcState :
            /\ proc' = [proc EXCEPT !["helper"] = P]
            /\ P.at = "reused" /\ P.req = r /\ P.inst = i
      BY <1>6, <2>3
    <3>2. /\ server'[r] = "completed" /\ owner'[r] = i /\ cred.inst = i
          /\ \A q \in Req \ {r} : server'[q] = server[q] /\ owner'[q] = owner[q]
      BY <1>0, <2>3 DEF TypeOK, Active
    <3>3. Issued'
      BY <1>0, <1>1, <2>3, <3>2 DEF Issued
    <3>4. \A q \in Req : Passed(q) => Passed(q)' /\ owner'[q] = owner[q]
      BY <2>3, <3>2 DEF Passed
    <3>5. \A q \in Req : pend' = q /\ server'[q] = "completed"
                           /\ cred # None /\ cred.active
            => cred.inst = owner'[q]
      BY <1>0, <2>1, <3>2 DEF Shared, Current
    <3> QED
      BY <1>4, <3>1, <3>2, <3>3, <3>4, <3>5
  <2> QED
    BY <2>1, <2>2, <2>3
<1> QED
  BY <1>7, <1>8, <1>9 DEF BeginActs
(* The account changes the owner of no request that is over or approved.   *)
Steady ==
  /\ \A r \in Req : /\ Passed(r) => Passed(r)' /\ owner'[r] = owner[r]
                    /\ server'[r] = "completed" <=> server[r] = "completed"
                    /\ server[r] = "denied" => server'[r] = "denied"
  /\ \A i \in Inst : i \in alive' /\ i \notin alive => i \in Req /\ ~Passed(i)

LEMMA AccountBound == ASSUME ToldInv, BoundInv, AccountStep PROVE BoundInv'
<1>0. /\ TypeOK /\ Turns /\ Issued /\ Shared /\ proc \in [Proc -> ProcState]
      /\ \A p \in Proc : BindOK(proc[p]) /\ StateOK(proc[p])
  BY DEF ToldInv, ProcsOK, BoundInv, TypeOK, ProcState
<1>1. UNCHANGED <<pend, cred, proc>>
  BY DEF AccountStep, Approve, Deny, Expire, Delete, LocalFiles
<1>2. Steady /\ Issued'
  <2>1. ASSUME NEW r \in Req, Approve(r)
        PROVE  Steady /\ Issued'
    <3>1. /\ server[r] = "pending" /\ server'[r] = "approved"
          /\ owner'[r] = r /\ alive' = alive \cup {r}
          /\ \A q \in Req \ {r} : server'[q] = server[q] /\ owner'[q] = owner[q]
      BY <1>0, <2>1 DEF Approve, TypeOK
    <3> QED
      BY <1>0, <3>1 DEF Passed, Issued, Steady
  <2>2. ASSUME NEW r \in Req, Deny(r) \/ Expire(r)
        PROVE  Steady /\ Issued'
    <3>1. /\ server[r] \in {"pending", "approved"} /\ owner' = owner
          /\ \/ server[r] = "pending" /\ server'[r] = "denied"
             \/ server'[r] = "expired"
          /\ alive' \subseteq alive
          /\ \A q \in Req \ {r} : server'[q] = server[q]
      BY <1>0, <2>2 DEF Deny, Expire, TypeOK
    <3> QED
      BY <1>0, <3>1 DEF Passed, Issued, Steady
  <2>3. ASSUME NEW i \in Inst, Delete(i)
        PROVE  Steady /\ Issued'
    <3>1. /\ owner' = owner /\ alive' = alive \ {i}
          /\ \A q \in Req :
               server'[q] = IF owner[q] = i /\ server[q] = "approved"
                            THEN "denied" ELSE server[q]
      BY <2>3 DEF Delete
    <3> QED
      BY <1>0, <3>1 DEF Passed, Issued, Steady
  <2> QED
    BY <2>1, <2>2, <2>3 DEF AccountStep
<1>3. ASSUME NEW p \in Proc PROVE BindOK(proc[p])'
  <2>1. PICK x \in ProcState :
          x = proc[p] /\ x = proc'[p] /\ BindOK(x) /\ StateOK(x)
    BY <1>0, <1>1
  <2>2. x.at \in Polls \cup Begins => x.req \in Req
    BY <2>1, Stages DEF StateOK
  <2>3. x.at \in Granted => owner'[x.req] = x.req
    <3>1. x.at \in Granted => Passed(x.req)
      BY <2>1, Stages DEF StateOK, BindOK, Passed, Granted
    <3> QED
      BY <1>2, <2>1, <2>2, <3>1, Stages DEF BindOK, Steady
  <2>4. x.at = "write" =>
          cred = None \/ cred.inst = x.req \/ cred.inst \notin alive'
    BY <1>0, <1>2, <2>1 DEF BindOK, Shared, TypeOK, Steady
  <2>5. x.at \in {"record", "reused"} => x.inst = owner'[x.req]
    BY <1>2, <2>1, <2>2, Stages DEF BindOK, StateOK, Over, Passed, Steady
  <2>6. /\ x.at \in {"refused", "revoke"} => server'[x.req] = "denied"
        /\ x.at \in Begins \ {"reused"} => server'[x.req] # "completed"
    BY <1>2, <2>1, <2>2, Stages DEF BindOK, Granted, Steady
  <2>7. BindOK(x)'
    BY <1>1, <2>1, <2>3, <2>4, <2>5, <2>6 DEF BindOK
  <2> QED
    BY <2>1, <2>7 DEF BindOK
<1>4. Shared' /\ Turns'
  <2>1. Turns'
    BY <1>0, <1>1 DEF Turns
  <2>2. \A r \in Req : server'[r] = "completed" =>
          server[r] = "completed" /\ owner'[r] = owner[r]
    BY <1>2 DEF Passed, Steady
  <2>3. \A r \in Req : Current(r)' => Current(r)
    BY <1>1 DEF Current
  <2> QED
    BY <1>0, <1>1, <1>2, <2>1, <2>2, <2>3 DEF Shared, Steady
<1> QED
  BY <1>2, <1>3, <1>4 DEF BoundInv

LEMMA BoundStep ==
  ASSUME ~Overlap
  PROVE  ToldInv /\ BoundInv /\ [Next]_vars => BoundInv'
<1> SUFFICES ASSUME ToldInv, BoundInv, [Next]_vars PROVE BoundInv'
  OBVIOUS
<1>1. CASE Next
  <2>1. ASSUME NEW p \in Proc, PollStart(p) \/ PollStep(p) \/ Broken(p)
        PROVE  BoundInv'
    BY <2>1, LooksBound, ActsBound, NotifiesBound DEF PollStep, Looks, Acts
  <2>2. ASSUME BeginStep PROVE BoundInv'
    BY <2>2, BeginLooksBound, BeginActsBound
       DEF BeginStep, BeginLooks, BeginActs
  <2>3. ASSUME NEW r \in Req, Begin(r) PROVE BoundInv'
    BY <2>3, BeginBound
  <2> QED
    BY <1>1, <2>1, <2>2, <2>3, AccountBound, NotifiesBound
       DEF Next, AccountStep, Notifies
<1>2. CASE UNCHANGED vars
  BY <1>2 DEF vars, account, BoundInv, Turns, Issued, Shared, Current, BindOK,
              Passed
<1> QED
  BY <1>1, <1>2

(* The steps that write the credential or the completion.                  *)
LEMMA CredentialWrites ==
  ASSUME ToldInv, BoundInv, [Next]_vars, cred # None, cred.active,
         cred.inst \in alive
  PROVE  cred' = cred
<1>0. /\ TypeOK /\ Issued
      /\ \A p \in Proc : BindOK(proc[p]) /\ StateOK(proc[p])
  BY DEF ToldInv, ProcsOK, BoundInv
<1>1. \/ cred' = cred
      \/ \E p \in Proc : Write(p) \/ Revoke(p)
  BY DEF Next, vars, account, notifier, LocalFiles, Elsewhere,
         PollStart, PollStep, Asked, ExistingRead, Inspected, Acked, Refused,
         Lapsed, IssuedLooked, CompletedRead, Record, Remove, Broken, Begin,
         BeginStep,
         BeginChecked, BeginState, BeginPrevious, BeginReplace, BeginCreate,
         BeginRequest, BeginRouted, ReuseAsked, Reused, Approve, Deny, Expire,
         Delete, Load, HealthAccepted, NoticeStart, NoticeSend, NoticeRefused,
         NoticeWrite, Crash
<1>2. ASSUME NEW p \in Proc, Write(p) PROVE cred' = cred
  <2>1. cred.inst = proc[p].req
    BY <1>0, <1>2 DEF Write, At, BindOK
  <2>2. cred' = [inst |-> cred.inst, active |-> TRUE] /\ cred \in Credential
    BY <1>0, <1>2, <2>1 DEF Write, TypeOK
  <2> QED
    BY <2>2
<1>3. ASSUME NEW p \in Proc, Revoke(p) PROVE FALSE
  BY <1>0, <1>3, Stages DEF Revoke, At, BindOK, StateOK, Issued
<1> QED
  BY <1>1, <1>2, <1>3
LEMMA CompletionWrites ==
  ASSUME ToldInv, BoundInv, [Next]_vars, done' # done
  PROVE  /\ server[done'.req] \in {"completed", "expired"}
         /\ done'.inst = owner[done'.req]
<1>0. \A p \in Proc : BindOK(proc[p]) /\ StateOK(proc[p])
  BY DEF ToldInv, ProcsOK, BoundInv
<1>1. Reused \/ \E p \in Proc : Record(p)
  BY DEF Next, vars, account, notifier, LocalFiles, Elsewhere,
         PollStart, PollStep, Asked, ExistingRead, Inspected, Acked, Refused,
         Lapsed, IssuedLooked, CompletedRead, Write, Revoke, Remove, Broken,
         Begin,
         BeginStep, BeginChecked, BeginState, BeginPrevious, BeginReplace,
         BeginCreate, BeginRequest, BeginRouted, ReuseAsked, Approve, Deny,
         Expire, Delete, Load, HealthAccepted, NoticeStart, NoticeSend,
         NoticeRefused, NoticeWrite, Crash
<1>2. ASSUME NEW p \in Proc, proc[p].at \in {"record", "reused"},
             done' = [req |-> proc[p].req, inst |-> proc[p].inst]
      PROVE  /\ server[done'.req] \in {"completed", "expired"}
             /\ done'.inst = owner[done'.req]
  BY <1>0, <1>2 DEF BindOK, StateOK, Over
<1>3. CASE Reused
  <2>1. /\ proc["helper"].at = "reused" /\ "helper" \in Proc
        /\ done' = [req |-> proc["helper"].req, inst |-> proc["helper"].inst]
    BY <1>3 DEF Reused, At, Proc
  <2> QED
    BY <1>2, <2>1
<1>4. ASSUME NEW p \in Proc, Record(p)
      PROVE  /\ server[done'.req] \in {"completed", "expired"}
             /\ done'.inst = owner[done'.req]
  BY <1>2, <1>4 DEF Record, At
<1> QED
  BY <1>1, <1>3, <1>4

(* No poll replaces the credential of a working installation, whichever    *)
(* process is interrupted where and whatever the account changes its mind  *)
(* to, if one request at a time is begun (HealthyKept;                     *)
(* device-authorization.js:158-187).                                       *)
THEOREM BindingKept == ASSUME ~Overlap PROVE Spec => HealthyKept
<1>1. ToldInv /\ BoundInv /\ [Next]_vars => ToldInv' /\ BoundInv'
  BY ToldStep, BoundStep
<1>2. ToldInv /\ BoundInv /\ [Next]_vars
        => [cred # None /\ cred.active /\ cred.inst \in alive
              => cred' = cred]_vars
  BY CredentialWrites
<1> QED
  BY <1>1, <1>2, InitTold, InitBound, PTL DEF Spec, HealthyKept

(* What is recorded as completed the account has completed, or let lapse   *)
(* after its credential was saved, and the installation named is the one   *)
(* the request is bound to (CompletionTrue; device-authorization.js:164).  *)
THEOREM CompletionBound == ASSUME ~Overlap PROVE Spec => CompletionTrue
<1>1. ToldInv /\ BoundInv /\ [Next]_vars => ToldInv' /\ BoundInv'
  BY ToldStep, BoundStep
<1>2. ToldInv /\ BoundInv /\ [Next]_vars
        => [done' # done => /\ server[done'.req] \in {"completed", "expired"}
                            /\ done'.inst = owner[done'.req]]_vars
  BY CompletionWrites
<1> QED
  BY <1>1, <1>2, InitTold, InitBound, PTL DEF Spec, CompletionTrue
=============================================================================
