------------------------ MODULE DeviceAuthorization ------------------------
(***************************************************************************)
(* How an agent is connected to an account: auth/device-authorization.js   *)
(* over the credential store of auth/credentials.js, driven by the connect *)
(* tool or scripts/device-enroll.mjs (the helper) and by the heartbeat     *)
(* (the collector, auth/collector-authorization.js), and the message of    *)
(* auth/connection-notice.js that tells the user so.                       *)
(*                                                                         *)
(* The helper begins a request, the account approves it, and both poll its *)
(* pending file until the credential is saved and acknowledged.  They are  *)
(* two processes over the same files: each await is a step of its own.     *)
(* What a request issues is an installation of the same name.  The proof   *)
(* that a file carries is the request; validation and clocks are left out. *)
(***************************************************************************)
EXTENDS Naturals

CONSTANTS
  Req,        \* requests of the account, numbered as they are begun, and
              \* the installations they issue
  Early,      \* requests that may be pending when the collector starts
  Old,        \* an installation from before
  None,
  Overlap,    \* a request may be begun while another is being polled
  MaxFaults   \* bound: interrupted processes, lost answers, begun again

Inst == Req \cup {Old}
Proc == {"collector", "helper"}
Credential == [inst : Inst, active : BOOLEAN]
Completion == [req : Req, inst : Inst]
Notice == [at : {"send", "write"}, req : Req]

ASSUME AuthorizationAssumption ==
  /\ Req \subseteq Nat /\ Old \notin Req
  /\ None \notin Inst \cup Credential \cup Completion \cup Notice
  /\ Early \subseteq Req /\ Overlap \in BOOLEAN /\ MaxFaults \in Nat

VARIABLES
  server,    \* account: the status of each request
  owner,     \* account: the installation each request is bound to
  alive,     \* account: installations that are not revoked
  pend,      \* file device-authorization.json
  cred,      \* file installation.json
  done,      \* file authorization-completed.json
  reply,     \* file connection-reply.json
  receipts,  \* files connection-receipt-*.json
  proc,      \* the await each process is in
  begun,     \* requests begun
  loaded,    \* collector: the credential auth.load() has found active
  accepted,  \* notifier: the installation of the last accepted health
  fresh,     \* notifier: which was accepted after the completion
  notice,    \* notifier: deliver()
  sent,      \* messages the user has received
  faults

account == <<server, owner, alive>>
notifier == <<receipts, loaded, accepted, notice, sent>>
vars == <<account, pend, cred, done, reply, proc, begun, fresh, notifier,
          faults>>

Begins == {"begin", "state", "previous", "replace", "create", "request",
           "route", "reuse", "reused"}
Polls == {"ask", "approved", "inspect", "write", "ack", "refused", "revoke",
          "lapsed", "issued", "completed", "record", "rm", "drop"}
Idle == [at |-> "idle", req |-> None, inst |-> None]

TypeOK ==
  /\ server \in [Req -> {"new", "pending", "approved", "completed", "denied",
                         "expired"}]
  /\ owner \in [Req -> Inst \cup {None}]
  /\ alive \subseteq Inst
  /\ {pend, reply} \subseteq Req \cup {None}
  /\ cred \in Credential \cup {None}
  /\ done \in Completion \cup {None}
  /\ receipts \subseteq Req /\ begun \subseteq Req
  /\ proc \in [Proc -> [at : Begins \cup Polls \cup {"idle"},
                        req : Req \cup {None}, inst : Inst \cup {None}]]
  /\ {loaded, accepted} \subseteq Inst \cup {None}
  /\ fresh \in BOOLEAN
  /\ notice \in Notice \cup {None}
  /\ sent \in [Req -> 0..(MaxFaults + 1)]
  /\ faults \in 0..MaxFaults

-----------------------------------------------------------------------------
At(p, stage) == proc[p].at = stage
Goto(p, stage) == proc' = [proc EXCEPT ![p].at = stage]
Hold(p, stage, i) == proc' = [proc EXCEPT ![p].at = stage, ![p].inst = i]
Leave(p) == proc' = [proc EXCEPT ![p] = Idle]   \* returns or throws
Active(i) == cred = [inst |-> i, active |-> TRUE]

LocalFiles == <<pend, cred, done, fresh, reply>>
Elsewhere == <<begun, notifier, faults>>

(* poll() ---------------------------------------------------------------- *)
PollStart(p) ==
  /\ At(p, "idle")
  /\ pend # None
  /\ Overlap \/ \A q \in Proc : proc[q].at \notin Begins
  /\ proc' = [proc EXCEPT ![p] = [Idle EXCEPT !.at = "ask", !.req = pend]]
  /\ UNCHANGED <<account, LocalFiles, Elsewhere>>

Asked(p) ==
  LET status == server[proc[p].req] IN
  /\ At(p, "ask")
  /\ \/ status \in {"approved", "completed"} /\ Goto(p, status)
     \/ status \in {"denied", "expired"} /\ Goto(p, "rm")
     \/ status \in {"new", "pending"} /\ Leave(p)
  /\ UNCHANGED <<account, LocalFiles, Elsewhere>>

ExistingTrusted(p) ==
  /\ At(p, "approved")
  /\ Goto(p, "write")
  /\ UNCHANGED <<account, LocalFiles, Elsewhere>>

ExistingRead(p) ==
  /\ At(p, "approved")
  /\ IF cred # None /\ cred.inst # proc[p].req
     THEN Hold(p, "inspect", cred.inst) ELSE Goto(p, "write")
  /\ UNCHANGED <<account, LocalFiles, Elsewhere>>

(* inspectCredential of the installation that would be replaced.           *)
Inspected(p) ==
  /\ At(p, "inspect")
  /\ IF proc[p].inst \in alive THEN Leave(p) ELSE Goto(p, "write")
  /\ UNCHANGED <<account, LocalFiles, Elsewhere>>

Write(p) ==
  /\ At(p, "write")
  /\ cred' = [inst |-> proc[p].req, active |-> TRUE]
  /\ Goto(p, "ack")
  /\ UNCHANGED <<account, pend, done, fresh, reply, Elsewhere>>

AckUnread(p) ==
  LET r == proc[p].req IN
  /\ At(p, "ack")
  /\ server' = [server EXCEPT ![r] =
                  IF @ = "approved" THEN "completed" ELSE @]
  /\ Hold(p, "record", r)
  /\ UNCHANGED <<owner, alive, LocalFiles, Elsewhere>>

(* Deletion or the deadline can win between the credential and its ACK.    *)
Acked(p) ==
  LET r == proc[p].req IN
  /\ At(p, "ack")
  /\ server' = [server EXCEPT ![r] =
                  IF @ = "approved" THEN "completed" ELSE @]
  /\ CASE server[r] = "denied" -> Goto(p, "refused")
       [] server[r] = "expired" -> Goto(p, "lapsed")
       [] OTHER -> Hold(p, "record", r)
  /\ UNCHANGED <<owner, alive, LocalFiles, Elsewhere>>

Refused(p) ==
  /\ At(p, "refused")
  /\ IF cred # None /\ cred.inst = proc[p].req
     THEN Goto(p, "revoke") ELSE Goto(p, "drop")
  /\ UNCHANGED <<account, LocalFiles, Elsewhere>>

Revoke(p) ==
  /\ At(p, "revoke")
  /\ cred' = [inst |-> proc[p].req, active |-> FALSE]
  /\ Goto(p, "drop")
  /\ UNCHANGED <<account, pend, done, fresh, reply, Elsewhere>>

Lapsed(p) ==
  /\ At(p, "lapsed")
  /\ IF cred # None THEN Hold(p, "issued", cred.inst) ELSE Goto(p, "drop")
  /\ UNCHANGED <<account, LocalFiles, Elsewhere>>

(* inspectCredential of what was read, after the deadline.                 *)
IssuedLooked(p) ==
  /\ At(p, "issued")
  /\ IF proc[p].inst \in alive
     THEN Hold(p, "record", proc[p].req) ELSE Goto(p, "drop")
  /\ UNCHANGED <<account, LocalFiles, Elsewhere>>

CompletedLeft(p) ==
  /\ At(p, "completed")
  /\ Leave(p)
  /\ UNCHANGED <<account, LocalFiles, Elsewhere>>

(* A poll answered "completed": some other process has acknowledged it.    *)
CompletedRead(p) ==
  /\ At(p, "completed")
  /\ IF cred # None /\ cred.active
     THEN Hold(p, "record", cred.inst) ELSE Leave(p)
  /\ UNCHANGED <<account, LocalFiles, Elsewhere>>

(* recordAuthorizationCompletion                                           *)
Record(p) ==
  /\ At(p, "record")
  /\ done' = [req |-> proc[p].req, inst |-> proc[p].inst]
  /\ fresh' = FALSE
  /\ Goto(p, "rm")
  /\ UNCHANGED <<account, pend, cred, reply, Elsewhere>>

(* fs.rm: without force it throws when the file is gone.                   *)
Remove(p) ==
  /\ proc[p].at \in {"rm", "drop"}
  /\ pend' = None
  /\ Leave(p)
  /\ UNCHANGED <<account, cred, done, fresh, reply, Elsewhere>>

-----------------------------------------------------------------------------
(* begin(), called once for a request unless it is repeated.               *)
Begin(r) ==
  /\ At("helper", "idle")
  /\ server[r] \in {"new", "pending"}
  /\ \A q \in Req : q < r => q \in begun
  /\ Overlap \/ \A p \in Proc : At(p, "idle")
  /\ begun' = begun \cup {r}
  /\ IF r \in begun THEN faults < MaxFaults /\ faults' = faults + 1
     ELSE faults' = faults
  /\ proc' = [proc EXCEPT
                !["helper"] = [Idle EXCEPT !.at = "begin", !.req = r]]
  /\ UNCHANGED <<account, LocalFiles, notifier>>

(* A working installation is not replaced.  continueInvitation keeps it    *)
(* and binds the new request to it.                                        *)
BeginChecked ==
  /\ At("helper", "begin")
  /\ IF cred # None /\ cred.inst \in alive
     THEN \/ Leave("helper")
          \/ cred.active /\ Hold("helper", "reuse", cred.inst)
     ELSE Goto("helper", "state")
  /\ UNCHANGED <<account, LocalFiles, Elsewhere>>

BeginState ==
  /\ At("helper", "state")
  /\ IF pend = None THEN Goto("helper", "create")
     ELSE IF pend = proc["helper"].req THEN Goto("helper", "request")
     ELSE Hold("helper", "previous", pend)
  /\ UNCHANGED <<account, LocalFiles, Elsewhere>>

(* The request of the pending file must be over.                           *)
BeginPrevious ==
  /\ At("helper", "previous")
  /\ IF server[proc["helper"].inst] \in {"pending", "approved"}
     THEN Leave("helper") ELSE Goto("helper", "replace")
  /\ UNCHANGED <<account, LocalFiles, Elsewhere>>

BeginReplace ==
  /\ At("helper", "replace")
  /\ IF pend = None THEN Leave("helper") ELSE Goto("helper", "create")
  /\ pend' = None
  /\ UNCHANGED <<account, cred, done, fresh, reply, Elsewhere>>

BeginCreate ==
  /\ At("helper", "create")
  /\ IF pend # None THEN Leave("helper") /\ UNCHANGED pend
     ELSE Goto("helper", "request") /\ pend' = proc["helper"].req
  /\ UNCHANGED <<account, cred, done, fresh, reply, Elsewhere>>

BeginRequest ==
  LET r == proc["helper"].req IN
  /\ At("helper", "request")
  /\ IF server[r] \in {"new", "pending"}
     THEN server' = [server EXCEPT ![r] = "pending"] /\ Goto("helper", "route")
     ELSE Leave("helper") /\ UNCHANGED server
  /\ UNCHANGED <<owner, alive, LocalFiles, Elsewhere>>

(* saveConnectionReply of the connect tool                                 *)
BeginRouted ==
  /\ At("helper", "route")
  /\ reply' = proc["helper"].req
  /\ Leave("helper")
  /\ UNCHANGED <<account, pend, cred, done, fresh, Elsewhere>>

(* reuseExisting: asked with the credential it began with, as long as that *)
(* is the one in the file.                                                 *)
ReuseAsked ==
  LET r == proc["helper"].req i == proc["helper"].inst IN
  /\ At("helper", "reuse")
  /\ IF Active(i) /\ i \in alive /\ server[r] = "new"
     THEN /\ server' = [server EXCEPT ![r] = "completed"]
          /\ owner' = [owner EXCEPT ![r] = i]
          /\ Goto("helper", "reused")
     ELSE Leave("helper") /\ UNCHANGED <<server, owner>>
  /\ UNCHANGED <<alive, LocalFiles, Elsewhere>>

Reused ==
  LET own == [req |-> proc["helper"].req, inst |-> proc["helper"].inst] IN
  /\ At("helper", "reused")
  /\ Leave("helper")
  /\ IF Active(own.inst) /\ done # own THEN done' = own /\ fresh' = FALSE
     ELSE UNCHANGED <<done, fresh>>
  /\ UNCHANGED <<account, pend, cred, reply, Elsewhere>>

-----------------------------------------------------------------------------
(* The account.                                                            *)
Approve(r) ==
  /\ server[r] = "pending"
  /\ server' = [server EXCEPT ![r] = "approved"]
  /\ owner' = [owner EXCEPT ![r] = r]
  /\ alive' = alive \cup {r}
  /\ UNCHANGED <<LocalFiles, proc, Elsewhere>>

Deny(r) ==
  /\ server[r] = "pending"
  /\ server' = [server EXCEPT ![r] = "denied"]
  /\ UNCHANGED <<owner, alive, LocalFiles, proc, Elsewhere>>

Delete(i) ==
  /\ i \in alive
  /\ alive' = alive \ {i}
  /\ server' = [r \in Req |-> IF owner[r] = i /\ server[r] = "approved"
                              THEN "denied" ELSE server[r]]
  /\ UNCHANGED <<owner, LocalFiles, proc, Elsewhere>>

Expire(r) ==
  /\ server[r] \in {"pending", "approved"}
  /\ server' = [server EXCEPT ![r] = "expired"]
  /\ alive' \in {alive, alive \ {r}}
  /\ UNCHANGED <<owner, LocalFiles, proc, Elsewhere>>

-----------------------------------------------------------------------------
(* The heartbeat reads the credential after its poll and sends health with *)
(* it; the acknowledged events reach the notifier.                         *)
Load ==
  /\ At("collector", "idle")
  /\ loaded' = IF cred # None /\ cred.active THEN cred.inst ELSE None
  /\ UNCHANGED <<account, LocalFiles, proc, begun, receipts, accepted, notice,
                 sent, faults>>

HealthAccepted ==
  /\ loaded \in alive
  /\ accepted' = loaded
  /\ fresh' = TRUE
  /\ UNCHANGED <<account, pend, cred, done, reply, proc, begun, receipts,
                 loaded, notice, sent, faults>>

NoticeUnrecorded ==
  /\ notice = None
  /\ reply # None /\ done # None
  /\ reply = done.req /\ accepted = done.inst /\ fresh
  /\ notice' = [at |-> "send", req |-> reply]
  /\ UNCHANGED <<account, LocalFiles, proc, begun, receipts, loaded, accepted,
                 sent, faults>>

(* deliver(), one flight at a time.                                        *)
NoticeStart ==
  /\ notice = None
  /\ reply # None /\ done # None
  /\ reply \notin receipts
  /\ reply = done.req /\ accepted = done.inst /\ fresh
  /\ notice' = [at |-> "send", req |-> reply]
  /\ UNCHANGED <<account, LocalFiles, proc, begun, receipts, loaded, accepted,
                 sent, faults>>

(* send(): the message may arrive although its receipt does not, or not.   *)
NoticeSend ==
  /\ notice # None /\ notice.at = "send"
  /\ sent' = [sent EXCEPT ![notice.req] = @ + 1]
  /\ \/ notice' = [notice EXCEPT !.at = "write"] /\ UNCHANGED faults
     \/ notice' = None /\ faults < MaxFaults /\ faults' = faults + 1
  /\ UNCHANGED <<account, LocalFiles, proc, begun, receipts, loaded, accepted>>

NoticeRefused ==
  /\ notice # None /\ notice.at = "send"
  /\ notice' = None
  /\ UNCHANGED <<account, LocalFiles, proc, begun, receipts, loaded, accepted,
                 sent, faults>>

NoticeWrite ==
  /\ notice # None /\ notice.at = "write"
  /\ receipts' = receipts \cup {notice.req}
  /\ notice' = None
  /\ UNCHANGED <<account, LocalFiles, proc, begun, loaded, accepted, sent,
                 faults>>

-----------------------------------------------------------------------------
(* A request fails, its answer is lost, or a write throws.                 *)
Broken(p) ==
  /\ ~At(p, "idle")
  /\ faults < MaxFaults
  /\ faults' = faults + 1
  /\ Leave(p)
  /\ UNCHANGED <<account, LocalFiles, begun, notifier>>

(* The gateway dies; a helper of its own does not.                         *)
Crash ==
  /\ faults < MaxFaults
  /\ faults' = faults + 1
  /\ Leave("collector")
  /\ notice' = None /\ loaded' = None /\ accepted' = None /\ fresh' = FALSE
  /\ UNCHANGED <<account, pend, cred, done, reply, begun, receipts, sent>>

-----------------------------------------------------------------------------
(* A request begun before, or an installation enrolled since, may be there *)
(* when the collector starts.                                              *)
Init ==
  /\ pend \in Early \cup {None}
  /\ server = [r \in Req |-> IF r = pend THEN "pending" ELSE "new"]
  /\ owner = [r \in Req |-> None]
  /\ cred \in {None, [inst |-> Old, active |-> TRUE]}
  /\ alive = IF cred = None THEN {} ELSE {Old}
  /\ begun = {pend} \ {None}
  /\ done = None /\ reply = pend /\ receipts = {}
  /\ proc = [p \in Proc |-> Idle]
  /\ loaded = None /\ accepted = None /\ fresh = FALSE /\ notice = None
  /\ sent = [r \in Req |-> 0]
  /\ faults = 0

PollStep(p) ==
  \/ Asked(p) \/ ExistingRead(p) \/ Inspected(p) \/ Write(p) \/ Acked(p)
  \/ Refused(p) \/ Revoke(p) \/ Lapsed(p) \/ IssuedLooked(p)
  \/ CompletedRead(p) \/ Record(p) \/ Remove(p)

BeginStep ==
  \/ BeginChecked \/ BeginState \/ BeginPrevious \/ BeginReplace
  \/ BeginCreate \/ BeginRequest \/ BeginRouted \/ ReuseAsked \/ Reused

Next ==
  \/ \E p \in Proc : PollStart(p) \/ PollStep(p) \/ Broken(p)
  \/ \E r \in Req : Begin(r) \/ Approve(r) \/ Deny(r) \/ Expire(r)
  \/ BeginStep
  \/ \E i \in Inst : Delete(i)
  \/ Load \/ HealthAccepted
  \/ NoticeStart \/ NoticeSend \/ NoticeRefused \/ NoticeWrite
  \/ Crash

Spec == Init /\ [][Next]_vars

(* Every await returns, by a timeout at the latest, and the heartbeat      *)
(* polls again and again.                                                  *)
Fairness ==
  /\ WF_vars(PollStart("collector"))
  /\ WF_vars(PollStep("collector"))
  /\ WF_vars(PollStep("helper") \/ BeginStep)
FairSpec == Spec /\ Fairness

-----------------------------------------------------------------------------
(* "A healthy binding [...] is preserved" (docs/OPENCLAW_CONNECT_TOOL.md): *)
(* while the account has not revoked it, no poll of the two processes      *)
(* replaces the credential of a working installation.                      *)
HealthyKept ==
  [][cred # None /\ cred.active /\ cred.inst \in alive => cred' = cred]_vars

(* "Never advertise that revoked binding as a completed local              *)
(* authorization" (device-authorization.js:164): a completion is recorded  *)
(* only of a request the account completed, or let lapse after its         *)
(* credential was saved, and names the installation it is bound to.        *)
CompletionTrue ==
  [][done' # done => /\ server[done'.req] \in {"completed", "expired"}
                     /\ done'.inst = owner[done'.req]]_vars

(* The user is told of a connection once, unless a crash or a lost receipt *)
(* hides that he was, and never of a request that was refused.  With it    *)
(* the types.                                                              *)
ToldOnce ==
  /\ TypeOK
  /\ \A r \in Req :
       /\ sent[r] <= 1 + faults
       /\ sent[r] > 0 => server[r] \in {"completed", "expired"}

(* "The existing collector polls without another model turn": an approved  *)
(* request is completed, unless the account changes its mind or a working  *)
(* installation would have to go, whichever process is interrupted where.  *)
Connects ==
  \A r \in Req : server[r] = "approved" ~>
    \/ done # None /\ done.req = r
    \/ server[r] \in {"denied", "expired"} \/ r \notin alive
    \/ cred # None /\ cred.inst # r /\ cred.inst \in alive
=============================================================================
