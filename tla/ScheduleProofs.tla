--------------------------- MODULE ScheduleProofs ---------------------------
(***************************************************************************)
(* Proofs about ScheduleRunner, for any set of jobs and installations.     *)
(* The inductive invariant IInv says which outbox and which launches each  *)
(* phase of execute() may meet: what the code never checks again because   *)
(* the step before it established it.                                      *)
(***************************************************************************)
EXTENDS ScheduleRunner, TLAPS

ToldOf(j) == {r \in Result : \E i \in Installation : <<i, j, r>> \in told}

(* A tick runs for an installation, and works on a job of it.              *)
PhaseInv ==
  /\ active => binding \in Installation
  /\ phase # "idle" => cred \in Installation
  /\ phase = "polling" => entry.job = 0
  /\ phase \in {"admitted", "launching", "waiting", "asking", "reporting"} =>
       entry.job \in Job /\ Owner[entry.job] = cred
  /\ phase \in {"admitted", "launching", "waiting", "asking"} =>
       entry.result = "none"
  /\ phase = "admitted" => launches[entry.job] = 0
  /\ phase = "launching" /\ entry.job \in SystemEvent =>
       run[entry.job] = "ok"

(* What was told of the outbox's job is what the outbox says.              *)
OutboxInv ==
  entry.job # 0 =>
    /\ claim[entry.job] # "queued"
    /\ ToldOf(entry.job) \subseteq {entry.result}
    /\ entry.result = "succeeded" => run[entry.job] = "ok"

(* The job in the answer of a poll is new to the runner.                   *)
OfferInv ==
  offered # 0 =>
    /\ phase = "polling"
    /\ Owner[offered] = cred
    /\ claim[offered] # "queued"
    /\ launches[offered] = 0
    /\ ToldOf(offered) = {}

(* So is every job the server has not handed out.                          *)
QueuedInv == \A j \in Job :
  claim[j] = "queued" => launches[j] = 0 /\ ToldOf(j) = {}

IInv ==
  /\ TypeOK
  /\ PhaseInv
  /\ OutboxInv
  /\ OfferInv
  /\ QueuedInv
  /\ LaunchedOnce
  /\ OutcomeKept
  /\ TrueSuccess
  /\ OwnReports
  /\ OneStory

(* What the file looks like after each kind of write.                      *)
LEMMA Cleared ==
  /\ NoEntry \in Entry
  /\ NoEntry.job = 0 /\ NoEntry.launched = FALSE /\ NoEntry.result = "none"
BY DEF NoEntry, Entry

LEMMA Recorded ==
  ASSUME TypeOK, NEW r \in Result, entry' = [entry EXCEPT !.result = r]
  PROVE  /\ entry' \in Entry
         /\ entry'.job = entry.job
         /\ entry'.result = r
BY DEF TypeOK, Entry

LEMMA InitInv == Init => IInv
<1> SUFFICES ASSUME Init PROVE IInv
  OBVIOUS
<1>1. TypeOK
  <2>1. 0 \in 0..MaxBinding /\ 0 \in Job \cup {0}
    BY ScheduleAssumption
  <2>2. launches \in [Job -> Nat]
    BY DEF Init
  <2> QED
    BY <2>1, <2>2, Cleared DEF Init, TypeOK, Phase
<1>2. /\ PhaseInv /\ OutboxInv /\ OfferInv /\ QueuedInv /\ LaunchedOnce
      /\ OutcomeKept /\ TrueSuccess /\ OwnReports /\ OneStory
  BY DEF Init, NoEntry, PhaseInv, OutboxInv, OfferInv, QueuedInv, ToldOf,
         LaunchedOnce, OutcomeKept, TrueSuccess, OwnReports, OneStory
<1> QED
  BY <1>1, <1>2 DEF IInv

(* A step of the runner that neither launches nor is told anything by the  *)
(* server keeps what was told; the parts that speak of the server alone.   *)
LEMMA ServerKept ==
  ASSUME IInv, UNCHANGED <<launches, claim, told>>, UNCHANGED run
  PROVE  /\ QueuedInv' /\ LaunchedOnce' /\ TrueSuccess' /\ OwnReports'
         /\ OneStory'
         /\ \A j \in Job : ToldOf(j)' = ToldOf(j) /\ Told(j)' = Told(j)
BY DEF IInv, QueuedInv, LaunchedOnce, TrueSuccess, OwnReports, OneStory,
       ToldOf, Told

(* The beginning of execute().                                             *)
LEMMA TickFacts ==
  ASSUME IInv, Tick
  PROVE  /\ cred' = binding /\ binding \in Installation
         /\ offered = 0 /\ offered' = 0
         /\ UNCHANGED <<binding, active, service, launches, run, claim, told>>
BY DEF IInv, PhaseInv, OfferInv, Tick, bindingVars

LEMMA TickQuarantineInv == ASSUME IInv, TickQuarantine PROVE IInv'
<1>1. /\ Tick /\ Foreign /\ TypeOK
      /\ quarantined' = quarantined \cup {entry.job} /\ entry' = NoEntry
      /\ late' = FALSE /\ phase' = "polling"
  BY DEF TickQuarantine, IInv
<1>2. entry.job \in Job
  BY <1>1 DEF TypeOK, Entry, Foreign
<1>3. TypeOK'
  BY <1>1, <1>2, TickFacts, Cleared, ScheduleAssumption
     DEF TypeOK, Phase, Installation
<1>4. PhaseInv' /\ OutboxInv' /\ OfferInv'
  BY <1>1, TickFacts, Cleared DEF PhaseInv, OutboxInv, OfferInv, IInv
<1>5. OutcomeKept'
  BY <1>1, TickFacts, ServerKept DEF IInv, OutcomeKept
<1>6. /\ QueuedInv' /\ LaunchedOnce' /\ TrueSuccess' /\ OwnReports'
      /\ OneStory'
  BY <1>1, TickFacts, ServerKept
<1> QED
  BY <1>3, <1>4, <1>5, <1>6 DEF IInv

LEMMA TickPollInv == ASSUME IInv, TickPoll PROVE IInv'
<1>1. /\ Tick /\ TypeOK /\ entry.job = 0 /\ phase' = "polling"
      /\ UNCHANGED <<entry, late, quarantined>>
  BY DEF TickPoll, IInv, fileVars
<1>2. TypeOK'
  BY <1>1, TickFacts, ScheduleAssumption DEF TypeOK, Phase, Installation
<1>3. PhaseInv' /\ OutboxInv' /\ OfferInv' /\ OutcomeKept'
  BY <1>1, TickFacts, ServerKept
     DEF PhaseInv, OutboxInv, OfferInv, OutcomeKept, IInv
<1>4. /\ QueuedInv' /\ LaunchedOnce' /\ TrueSuccess' /\ OwnReports'
      /\ OneStory'
  BY <1>1, TickFacts, ServerKept
<1> QED
  BY <1>2, <1>3, <1>4 DEF IInv

(* A step that keeps the job of the outbox and what the world knows, and   *)
(* at most fills in a result that is not success.                          *)
LEMMA OutboxKept ==
  ASSUME IInv, entry.job \in Job, entry'.job = entry.job,
         entry'.result \in {entry.result, "failed", "interrupted", "timeout"},
         entry'.result # entry.result => entry.result = "none",
         UNCHANGED <<launches, run, claim, told, quarantined>>
  PROVE  OutboxInv' /\ OutcomeKept'
<1>1. \A j \in Job : ToldOf(j)' = ToldOf(j) /\ Told(j)' = Told(j)
  BY ServerKept
<1>2. ToldOf(entry.job) \subseteq {entry.result} /\ claim[entry.job] # "queued"
  BY ScheduleAssumption DEF IInv, OutboxInv
<1>3. entry'.result # entry.result => ToldOf(entry.job) = {}
  BY <1>2 DEF ToldOf, Result
<1>4. entry'.result = "succeeded" => run[entry.job] = "ok"
  BY ScheduleAssumption DEF IInv, OutboxInv
<1>5. OutboxInv'
  BY <1>1, <1>2, <1>3, <1>4 DEF OutboxInv
<1>6. OutcomeKept'
  BY <1>1 DEF OutcomeKept, IInv
<1> QED
  BY <1>5, <1>6

(* A tick that goes on with the entry it found.                            *)
LEMMA TickGoesOn ==
  ASSUME IInv, Tick, entry.job # 0, ~Foreign, UNCHANGED <<late, quarantined>>,
         phase' \in {"waiting", "reporting"},
         phase' = "waiting" => entry.result = "none",
         \/ UNCHANGED entry
         \/ /\ phase' = "reporting" /\ entry.result = "none"
            /\ \E r \in {"failed", "interrupted"} :
                 entry' = [entry EXCEPT !.result = r]
  PROVE  IInv'
<1>1. TypeOK /\ entry.job \in Job /\ Owner[entry.job] = binding
  BY DEF IInv, TypeOK, Entry, Foreign
<1>2. /\ entry' \in Entry /\ entry'.job = entry.job
      /\ entry'.result \in {entry.result, "failed", "interrupted"}
      /\ entry'.result # entry.result => entry.result = "none"
      /\ phase' = "waiting" => entry'.result = "none"
  <2>1. CASE UNCHANGED entry
    BY <1>1, <2>1 DEF TypeOK
  <2>2. CASE phase' = "reporting" /\ entry.result = "none"
             /\ \E r \in {"failed", "interrupted"} :
                  entry' = [entry EXCEPT !.result = r]
    <3>1. PICK r \in {"failed", "interrupted"} :
            entry' = [entry EXCEPT !.result = r]
      BY <2>2
    <3>2. r \in Result
      BY DEF Result
    <3> QED
      BY <1>1, <2>2, <3>1, <3>2, Recorded
  <2> QED
    BY <2>1, <2>2
<1>3. TypeOK'
  BY <1>1, <1>2, TickFacts, ScheduleAssumption DEF TypeOK, Phase, Installation
<1>4. PhaseInv' /\ OfferInv'
  BY <1>1, <1>2, TickFacts DEF PhaseInv, OfferInv, IInv
<1>5. OutboxInv' /\ OutcomeKept'
  BY <1>1, <1>2, TickFacts, OutboxKept
<1>6. /\ QueuedInv' /\ LaunchedOnce' /\ TrueSuccess' /\ OwnReports'
      /\ OneStory'
  BY TickFacts, ServerKept
<1> QED
  BY <1>3, <1>4, <1>5, <1>6 DEF IInv

LEMMA TicksInv == ASSUME IInv, Ticks PROVE IInv'
<1>1. CASE TickReport
  BY <1>1, TickGoesOn DEF TickReport, fileVars
<1>2. CASE TickInterrupted
  BY <1>2, TickGoesOn DEF TickInterrupted
<1>3. CASE TickResume
  BY <1>3, TickGoesOn DEF TickResume
<1> QED
  BY <1>1, <1>2, <1>3, TickQuarantineInv, TickPollInv DEF Ticks

(* Steps of execute() that end it or go on without touching the file.      *)
LEMMA MoveInv ==
  ASSUME IInv, UNCHANGED <<binding, active, entry, quarantined, launches, run,
                           claim, told>>,
         service' \in {"down", "up", "stopping"}, late' \in BOOLEAN,
         \/ phase' = "idle" /\ cred' = 0 /\ offered' = 0
         \/ UNCHANGED <<phase, cred, offered>>
         \/ /\ UNCHANGED <<cred, offered>>
            /\ {phase, phase'} \subseteq {"waiting", "asking"}
  PROVE  IInv'
<1>1. TypeOK'
  BY ScheduleAssumption DEF IInv, TypeOK, Phase
<1>2. PhaseInv' /\ OfferInv'
  BY ServerKept DEF IInv, TypeOK, PhaseInv, OfferInv
<1>3. OutboxInv' /\ OutcomeKept'
  BY ServerKept DEF IInv, TypeOK, Entry, OutboxInv, OutcomeKept
<1>4. /\ QueuedInv' /\ LaunchedOnce' /\ TrueSuccess' /\ OwnReports'
      /\ OneStory'
  BY ServerKept
<1> QED
  BY <1>1, <1>2, <1>3, <1>4 DEF IInv

(* A result is saved: "succeeded" only of a run that ended well.           *)
LEMMA RecordInv ==
  ASSUME IInv, NEW r \in Result, entry.result = "none",
         phase \in {"admitted", "launching", "waiting", "asking"},
         r = "succeeded" => run[entry.job] = "ok",
         phase' = "reporting", entry' = [entry EXCEPT !.result = r],
         UNCHANGED <<binding, active, service, cred, offered, late,
                     quarantined, launches, run, claim, told>>
  PROVE  IInv'
<1>1. TypeOK /\ entry.job \in Job /\ Owner[entry.job] = cred
  BY DEF IInv, PhaseInv
<1>2. entry' \in Entry /\ entry'.job = entry.job /\ entry'.result = r
  BY <1>1, Recorded
<1>3. TypeOK'
  BY <1>1, <1>2 DEF TypeOK, Phase
<1>4. PhaseInv' /\ OfferInv'
  BY <1>1, <1>2 DEF PhaseInv, OfferInv, IInv
<1>5. OutboxInv'
  <2>1. ToldOf(entry.job) = {} /\ claim[entry.job] # "queued"
    BY <1>1, ScheduleAssumption DEF IInv, OutboxInv, ToldOf, Result
  <2> QED
    BY <1>1, <1>2, <2>1, ServerKept DEF OutboxInv
<1>6. OutcomeKept'
  BY <1>2, ServerKept DEF OutcomeKept, IInv
<1>7. /\ QueuedInv' /\ LaunchedOnce' /\ TrueSuccess' /\ OwnReports'
      /\ OneStory'
  BY ServerKept
<1> QED
  BY <1>3, <1>4, <1>5, <1>6, <1>7 DEF IInv

LEMMA RecordingInv ==
  ASSUME IInv, LaunchFailed \/ AnswerThrown \/ AnswerEnd
  PROVE  IInv'
<1>1. entry.result = "none"
  BY DEF IInv, PhaseInv, LaunchFailed, AnswerThrown, AnswerEnd
<1>2. UNCHANGED <<binding, active, service, late, quarantined, launches, run,
                  claim, told>>
  BY DEF LaunchFailed, AnswerThrown, AnswerEnd, Execute, bindingVars
<1>3. CASE \E r \in {"failed", "succeeded"} :
             RecordResult(r) /\ (r = "succeeded" => run[entry.job] = "ok")
  <2>1. PICK r \in {"failed", "succeeded"} :
          RecordResult(r) /\ (r = "succeeded" => run[entry.job] = "ok")
    BY <1>3
  <2>2. r \in Result
    BY DEF Result
  <2>3. phase \in {"admitted", "launching", "waiting", "asking"}
    BY DEF LaunchFailed, AnswerThrown, AnswerEnd
  <2> QED
    BY <1>1, <1>2, <2>1, <2>2, <2>3, RecordInv DEF RecordResult, Continue
<1>4. CASE Return /\ UNCHANGED entry
  BY <1>2, <1>4, MoveInv DEF Return, IInv, TypeOK
<1> QED
  BY <1>3, <1>4 DEF LaunchFailed, AnswerThrown, AnswerEnd

LEMMA LaunchAcceptedInv == ASSUME IInv, LaunchAccepted PROVE IInv'
<1>1. /\ phase = "launching" /\ entry.result = "none" /\ TypeOK
      /\ entry.job \in Job /\ Owner[entry.job] = cred
      /\ UNCHANGED <<binding, active, service, late, quarantined, launches,
                     run, claim, told>>
  BY DEF IInv, PhaseInv, LaunchAccepted, Execute, bindingVars
<1>2. CASE entry.job \in SystemEvent
  <2>1. RecordResult("succeeded") /\ run[entry.job] = "ok"
    BY <1>1, <1>2 DEF LaunchAccepted, IInv, PhaseInv
  <2> QED
    BY <1>1, <2>1, RecordInv DEF RecordResult, Continue, Result
<1>3. CASE entry.job \notin SystemEvent
  <2>1. /\ phase' = "waiting" /\ UNCHANGED <<cred, offered>>
        /\ entry' = [entry EXCEPT !.launched = TRUE]
    BY <1>3 DEF LaunchAccepted, Continue
  <2>2. /\ entry' \in Entry /\ entry'.job = entry.job
        /\ entry'.result = entry.result
    BY <1>1, <2>1 DEF TypeOK, Entry
  <2>3. TypeOK'
    BY <1>1, <2>1, <2>2 DEF TypeOK, Phase
  <2>4. PhaseInv' /\ OfferInv'
    BY <1>1, <2>1, <2>2 DEF PhaseInv, OfferInv, IInv
  <2>5. OutboxInv' /\ OutcomeKept'
    BY <1>1, <2>2, OutboxKept
  <2>6. /\ QueuedInv' /\ LaunchedOnce' /\ TrueSuccess' /\ OwnReports'
        /\ OneStory'
    BY <1>1, ServerKept
  <2> QED
    BY <2>3, <2>4, <2>5, <2>6 DEF IInv
<1> QED
  BY <1>2, <1>3

(* The entry of a job the runner has never seen replaces no other.         *)
LEMMA PollAnswerInv == ASSUME IInv, PollAnswer PROVE IInv'
<1>1. /\ phase = "polling" /\ offered # 0 /\ TypeOK /\ entry.job = 0
      /\ phase' = "admitted" /\ offered' = 0 /\ late' = FALSE
      /\ entry' = [NoEntry EXCEPT !.job = offered]
      /\ UNCHANGED <<binding, active, service, cred, quarantined, launches,
                     run, claim, told>>
  BY DEF IInv, PhaseInv, PollAnswer, Execute, bindingVars
<1>2. /\ offered \in Job /\ Owner[offered] = cred /\ launches[offered] = 0
      /\ claim[offered] # "queued" /\ ToldOf(offered) = {}
  BY <1>1 DEF IInv, OfferInv, TypeOK
<1>3. entry' \in Entry /\ entry'.job = offered /\ entry'.result = "none"
  BY <1>1, <1>2 DEF NoEntry, Entry
<1>4. TypeOK'
  BY <1>1, <1>3 DEF TypeOK, Phase
<1>5. PhaseInv' /\ OfferInv'
  BY <1>1, <1>2, <1>3 DEF PhaseInv, OfferInv, IInv
<1>6. OutboxInv'
  BY <1>1, <1>2, <1>3, ServerKept DEF OutboxInv
<1>7. OutcomeKept'
  BY <1>1, ServerKept, ScheduleAssumption DEF IInv, OutcomeKept
<1>8. /\ QueuedInv' /\ LaunchedOnce' /\ TrueSuccess' /\ OwnReports'
      /\ OneStory'
  BY <1>1, ServerKept
<1> QED
  BY <1>4, <1>5, <1>6, <1>7, <1>8 DEF IInv

LEMMA LaunchInv == ASSUME IInv, Launch PROVE IInv'
<1>1. /\ phase = "admitted" /\ phase' = "launching" /\ TypeOK
      /\ entry.job \in Job /\ Owner[entry.job] = cred
      /\ entry.result = "none" /\ launches[entry.job] = 0
      /\ claim[entry.job] # "queued" /\ ToldOf(entry.job) = {}
      /\ UNCHANGED <<binding, active, service, cred, offered, entry, late,
                     quarantined, claim, told>>
  BY ScheduleAssumption
     DEF IInv, PhaseInv, OutboxInv, ToldOf, Result, Launch, Execute, Continue,
         bindingVars
<1>2. /\ launches' = [launches EXCEPT ![entry.job] = 1]
      /\ run' = [run EXCEPT ![entry.job] =
                   IF entry.job \in SystemEvent THEN "ok" ELSE "running"]
  BY <1>1 DEF Launch, TypeOK
<1>3. /\ launches' \in [Job -> Nat]
      /\ run' \in [Job -> {"none", "running", "ok", "error"}]
      /\ launches'[entry.job] = 1
      /\ entry.job \in SystemEvent => run'[entry.job] = "ok"
      /\ \A j \in Job \ {entry.job} :
           launches'[j] = launches[j] /\ run'[j] = run[j]
  BY <1>1, <1>2 DEF TypeOK
<1>4. TypeOK'
  BY <1>1, <1>3 DEF TypeOK, Phase
<1>5. PhaseInv'
  BY <1>1, <1>3 DEF PhaseInv, IInv
<1>6. offered' = 0
  BY <1>1 DEF IInv, OfferInv
<1>7. \A j \in Job : ToldOf(j)' = ToldOf(j) /\ Told(j)' = Told(j)
  BY <1>1 DEF ToldOf, Told
<1>8. OutboxInv' /\ OfferInv' /\ QueuedInv' /\ LaunchedOnce' /\ OutcomeKept'
  BY <1>1, <1>3, <1>6, <1>7
     DEF OutboxInv, OfferInv, QueuedInv, LaunchedOnce, OutcomeKept, IInv
<1>9. TrueSuccess'
  <2> SUFFICES ASSUME NEW i \in Installation, NEW j \in Job,
                      <<i, j, "succeeded">> \in told
               PROVE  run'[j] = "ok"
    BY <1>1 DEF TrueSuccess
  <2>1. "succeeded" \in ToldOf(j)
    BY DEF ToldOf, Result
  <2>2. j # entry.job
    BY <1>1, <2>1
  <2> QED
    BY <1>3, <2>2 DEF IInv, TrueSuccess
<1>10. OwnReports' /\ OneStory'
  BY <1>1 DEF OwnReports, OneStory, IInv
<1> QED
  BY <1>4, <1>5, <1>8, <1>9, <1>10 DEF IInv

(* A run that ends, or is aborted, was not a success before.               *)
LEMMA RunInv ==
  ASSUME IInv, run' \in [Job -> {"none", "running", "ok", "error"}],
         \A j \in Job : run[j] = "ok" => run'[j] = "ok",
         UNCHANGED <<binding, active, service, phase, cred, offered, entry,
                     late, quarantined, launches, claim, told>>
  PROVE  IInv'
<1>1. TypeOK'
  BY DEF IInv, TypeOK
<1>2. \A j \in Job : ToldOf(j)' = ToldOf(j) /\ Told(j)' = Told(j)
  BY DEF ToldOf, Told
<1>3. PhaseInv'
  BY DEF IInv, PhaseInv
<1>4. OutboxInv'
  BY <1>2 DEF IInv, TypeOK, Entry, OutboxInv
<1>5. OfferInv' /\ QueuedInv' /\ LaunchedOnce' /\ OutcomeKept'
  BY <1>2 DEF IInv, TypeOK, OfferInv, QueuedInv, LaunchedOnce, OutcomeKept
<1>6. TrueSuccess' /\ OwnReports' /\ OneStory'
  BY DEF IInv, TrueSuccess, OwnReports, OneStory
<1> QED
  BY <1>1, <1>3, <1>4, <1>5, <1>6 DEF IInv

LEMMA WaitTimeoutInv == ASSUME IInv, WaitTimeout PROVE IInv'
<1>1. /\ phase = "waiting" /\ phase' = "reporting" /\ TypeOK
      /\ entry.job \in Job /\ Owner[entry.job] = cred /\ entry.result = "none"
      /\ entry' = [entry EXCEPT !.result = "timeout"]
      /\ UNCHANGED <<binding, active, service, cred, offered, late,
                     quarantined, launches, claim, told>>
  BY DEF IInv, PhaseInv, WaitTimeout, RecordResult, Execute, Continue,
         bindingVars
<1>2. /\ run' \in [Job -> {"none", "running", "ok", "error"}]
      /\ \A j \in Job : run[j] = "ok" => run'[j] = "ok"
  BY <1>1 DEF WaitTimeout, TypeOK
<1>3. entry' \in Entry /\ entry'.job = entry.job /\ entry'.result = "timeout"
  BY <1>1, Recorded DEF Result
<1>4. TypeOK'
  BY <1>1, <1>2, <1>3 DEF TypeOK, Phase
<1>5. PhaseInv'
  BY <1>1, <1>3 DEF PhaseInv, IInv
<1>6. \A j \in Job : ToldOf(j)' = ToldOf(j) /\ Told(j)' = Told(j)
  BY <1>1 DEF ToldOf, Told
<1>7. OutboxInv'
  <2>1. ToldOf(entry.job) = {} /\ claim[entry.job] # "queued"
    BY <1>1, ScheduleAssumption DEF IInv, OutboxInv, ToldOf, Result
  <2> QED
    BY <1>1, <1>3, <1>6, <2>1 DEF OutboxInv
<1>8. OfferInv' /\ QueuedInv' /\ LaunchedOnce' /\ OutcomeKept'
  BY <1>1, <1>3, <1>6
     DEF IInv, TypeOK, OfferInv, QueuedInv, LaunchedOnce, OutcomeKept
<1>9. TrueSuccess' /\ OwnReports' /\ OneStory'
  BY <1>1, <1>2 DEF IInv, TrueSuccess, OwnReports, OneStory
<1> QED
  BY <1>4, <1>5, <1>7, <1>8, <1>9 DEF IInv

LEMMA SettleInv == ASSUME IInv, Settle PROVE IInv'
<1>1. /\ phase = "reporting" /\ phase' = "idle" /\ TypeOK
      /\ entry.job \in Job /\ Owner[entry.job] = cred
      /\ <<cred, entry.job, entry.result>> \in told
      /\ entry' = NoEntry /\ late' = FALSE /\ cred' = 0 /\ offered' = 0
      /\ UNCHANGED <<binding, active, service, quarantined, launches, run,
                     claim, told>>
  BY DEF IInv, PhaseInv, Settle, Execute, Return, bindingVars
<1>2. Told(entry.job)
  BY <1>1 DEF Told, TypeOK
<1>3. TypeOK'
  <2>1. entry' \in Entry /\ cred' \in 0..MaxBinding
    BY <1>1, Cleared, ScheduleAssumption
  <2> QED
    BY <1>1, <2>1 DEF TypeOK, Phase
<1>4. PhaseInv' /\ OutboxInv' /\ OfferInv'
  BY <1>1, Cleared DEF PhaseInv, OutboxInv, OfferInv, IInv
<1>5. OutcomeKept'
  BY <1>1, <1>2, ServerKept DEF OutcomeKept, IInv
<1>6. /\ QueuedInv' /\ LaunchedOnce' /\ TrueSuccess' /\ OwnReports'
      /\ OneStory'
  BY <1>1, ServerKept
<1> QED
  BY <1>3, <1>4, <1>5, <1>6 DEF IInv

LEMMA MovesInv ==
  ASSUME IInv,
         \/ PollNothing \/ WaitAgain \/ WaitStopped \/ AnswerRetry
         \/ ResultLost \/ ReportFailed
         \/ Start \/ Stop \/ Stopped \/ Crash \/ Deadline
  PROVE  IInv'
<1>1. TypeOK
  BY DEF IInv
<1>2. CASE PollNothing \/ WaitStopped \/ ResultLost \/ ReportFailed
  BY <1>1, <1>2, MoveInv
     DEF PollNothing, WaitStopped, ResultLost, ReportFailed, Execute, Return,
         bindingVars, TypeOK
<1>3. CASE WaitAgain \/ AnswerRetry
  BY <1>1, <1>3, MoveInv
     DEF WaitAgain, AnswerRetry, Execute, Continue, bindingVars, TypeOK
<1>4. CASE Start \/ Stop \/ Stopped \/ Crash \/ Deadline
  BY <1>1, <1>4, MoveInv
     DEF Start, Stop, Stopped, Crash, Deadline, bindingVars, execVars,
         fileVars, TypeOK
<1> QED
  BY <1>2, <1>3, <1>4

(* The server.                                                             *)
LEMMA ServerClaimInv ==
  ASSUME IInv, NEW j \in Job, ServerClaim(j)
  PROVE  IInv'
<1>1. /\ phase = "polling" /\ offered = 0 /\ Owner[j] = cred /\ TypeOK
      /\ claim[j] = "queued" /\ claim' = [claim EXCEPT ![j] = "claimed"]
      /\ offered' = j /\ entry.job = 0
      /\ UNCHANGED <<binding, active, service, phase, cred, entry, late,
                     quarantined, launches, run, told>>
  BY DEF IInv, PhaseInv, ServerClaim, bindingVars, fileVars
<1>2. launches[j] = 0 /\ ToldOf(j) = {}
  BY <1>1 DEF IInv, QueuedInv
<1>3. /\ claim'[j] = "claimed"
      /\ \A k \in Job : claim'[k] = "queued" => claim[k] = "queued"
  BY <1>1 DEF TypeOK
<1>4. TypeOK'
  BY <1>1 DEF TypeOK
<1>5. \A k \in Job : ToldOf(k)' = ToldOf(k) /\ Told(k)' = Told(k)
  BY <1>1 DEF ToldOf, Told
<1>6. PhaseInv' /\ OutboxInv'
  BY <1>1 DEF IInv, PhaseInv, OutboxInv
<1>7. OfferInv' /\ QueuedInv'
  BY <1>1, <1>2, <1>3, <1>5 DEF IInv, OfferInv, QueuedInv
<1>8. LaunchedOnce' /\ OutcomeKept' /\ TrueSuccess' /\ OwnReports' /\ OneStory'
  BY <1>1, <1>5
     DEF IInv, LaunchedOnce, OutcomeKept, TrueSuccess, OwnReports, OneStory
<1> QED
  BY <1>4, <1>6, <1>7, <1>8 DEF IInv

LEMMA ServerExpireInv ==
  ASSUME IInv, NEW j \in Job, ServerExpire(j)
  PROVE  IInv'
<1>1. /\ claim' = [claim EXCEPT ![j] = "expired"] /\ TypeOK
      /\ UNCHANGED <<binding, active, service, phase, cred, offered, entry,
                     late, quarantined, launches, run, told>>
  BY DEF IInv, ServerExpire, bindingVars, fileVars, execVars
<1>2. /\ claim' \in [Job -> {"queued", "claimed", "reported", "expired"}]
      /\ \A k \in Job : claim'[k] = "queued" => claim[k] = "queued"
  BY <1>1 DEF TypeOK
<1>3. TypeOK'
  BY <1>1, <1>2 DEF TypeOK
<1>4. \A k \in Job : ToldOf(k)' = ToldOf(k) /\ Told(k)' = Told(k)
  BY <1>1 DEF ToldOf, Told
<1>5. PhaseInv'
  BY <1>1 DEF IInv, PhaseInv
<1>6. OutboxInv' /\ OfferInv' /\ QueuedInv'
  BY <1>1, <1>2, <1>4
     DEF IInv, TypeOK, Entry, OutboxInv, OfferInv, QueuedInv
<1>7. LaunchedOnce' /\ OutcomeKept' /\ TrueSuccess' /\ OwnReports' /\ OneStory'
  BY <1>1, <1>4
     DEF IInv, LaunchedOnce, OutcomeKept, TrueSuccess, OwnReports, OneStory
<1> QED
  BY <1>3, <1>5, <1>6, <1>7 DEF IInv

(* The server hears of the outbox's job only from the account it belongs   *)
(* to, and only what the outbox says.                                      *)
LEMMA ServerResultInv == ASSUME IInv, ServerResult PROVE IInv'
<1>1. /\ phase = "reporting" /\ TypeOK /\ entry.result \in Result
      /\ entry.job \in Job /\ Owner[entry.job] = cred /\ cred \in Installation
      /\ told' = told \cup {<<cred, entry.job, entry.result>>}
      /\ UNCHANGED <<binding, active, service, phase, cred, offered, entry,
                     late, quarantined, launches, run>>
  BY DEF IInv, PhaseInv, TypeOK, Entry, ServerResult, bindingVars, fileVars,
         execVars
<1>2. /\ claim' \in [Job -> {"queued", "claimed", "reported", "expired"}]
      /\ \A k \in Job : claim'[k] = "queued" => claim[k] = "queued"
      /\ \A k \in Job : claim[k] # "queued" => claim'[k] # "queued"
  BY <1>1 DEF TypeOK, ServerResult
<1>3. /\ entry.job # 0 /\ claim[entry.job] # "queued"
      /\ ToldOf(entry.job) \subseteq {entry.result}
      /\ entry.result = "succeeded" => run[entry.job] = "ok"
  BY <1>1, ScheduleAssumption DEF IInv, OutboxInv
<1>4. offered = 0
  BY <1>1 DEF IInv, OfferInv
<1>5. TypeOK'
  BY <1>1, <1>2 DEF TypeOK
<1>6. /\ \A k \in Job : k = entry.job => ToldOf(k)' \subseteq {entry.result}
      /\ \A k \in Job \ {entry.job} : ToldOf(k)' = ToldOf(k)
      /\ \A k \in Job : Told(k) => Told(k)'
  BY <1>1, <1>3 DEF ToldOf, Told
<1>7. PhaseInv'
  BY <1>1 DEF IInv, PhaseInv
<1>8. OutboxInv' /\ OfferInv' /\ QueuedInv'
  BY <1>1, <1>2, <1>3, <1>4, <1>6 DEF IInv, OutboxInv, OfferInv, QueuedInv
<1>9. LaunchedOnce' /\ OutcomeKept'
  BY <1>1, <1>6 DEF IInv, LaunchedOnce, OutcomeKept
<1>10. TrueSuccess' /\ OwnReports'
  BY <1>1, <1>3 DEF IInv, TrueSuccess, OwnReports
<1>11. OneStory'
  <2> SUFFICES ASSUME NEW i \in Installation, NEW j \in Job, NEW r \in Result,
                      NEW s \in Result, <<i, j, r>> \in told',
                      <<i, j, s>> \in told'
               PROVE  r = s
    BY DEF OneStory
  <2>1. CASE j = entry.job
    <3>1. r \in ToldOf(j)' /\ s \in ToldOf(j)'
      BY DEF ToldOf
    <3> QED
      BY <1>6, <2>1, <3>1
  <2>2. CASE j # entry.job
    BY <1>1, <2>2 DEF IInv, OneStory
  <2> QED
    BY <2>1, <2>2
<1> QED
  BY <1>5, <1>7, <1>8, <1>9, <1>10, <1>11 DEF IInv

(* Runs end and credentials change under a runner in any phase.            *)
LEMMA RunEndsInv ==
  ASSUME IInv, NEW j \in Job, NEW how \in {"ok", "error"}, RunEnds(j, how)
  PROVE  IInv'
<1>1. TypeOK
  BY DEF IInv
<1>2. /\ run' \in [Job -> {"none", "running", "ok", "error"}]
      /\ \A k \in Job : run[k] = "ok" => run'[k] = "ok"
  BY <1>1 DEF RunEnds, TypeOK
<1> QED
  BY <1>2, RunInv DEF RunEnds, bindingVars, execVars, fileVars

LEMMA BindingInv == ASSUME IInv, Rebind \/ Suspend PROVE IInv'
<1>1. TypeOK /\ PhaseInv
      /\ UNCHANGED <<service, phase, cred, offered, entry, late, quarantined,
                     launches, run, claim, told>>
  BY DEF IInv, Rebind, Suspend, execVars, fileVars
<1>2. /\ binding' \in 0..MaxBinding /\ active' \in BOOLEAN
      /\ active' => binding' \in Installation
  <2>1. CASE Rebind
    BY <1>1, <2>1, ScheduleAssumption DEF Rebind, TypeOK, Installation
  <2>2. CASE Suspend
    <3>1. binding' = binding /\ binding \in Installation
      BY <1>1, <2>2, ScheduleAssumption DEF Suspend, TypeOK, Installation
    <3>2. active' = ~active
      BY <2>2 DEF Suspend
    <3> QED
      BY <1>1, <3>1, <3>2 DEF TypeOK
  <2> QED
    BY <2>1, <2>2
<1>3. TypeOK' /\ PhaseInv'
  BY <1>1, <1>2 DEF TypeOK, PhaseInv
<1>4. OutboxInv' /\ OfferInv' /\ OutcomeKept'
  BY <1>1, ServerKept DEF IInv, TypeOK, Entry, OutboxInv, OfferInv, OutcomeKept
<1>5. /\ QueuedInv' /\ LaunchedOnce' /\ TrueSuccess' /\ OwnReports'
      /\ OneStory'
  BY <1>1, ServerKept
<1> QED
  BY <1>3, <1>4, <1>5 DEF IInv

LEMMA NextInv == ASSUME IInv, Next PROVE IInv'
<1>1. CASE Ticks
  BY <1>1, TicksInv
<1>2. CASE \/ PollAnswer \/ Launch \/ LaunchFailed \/ LaunchAccepted
           \/ WaitTimeout \/ AnswerEnd \/ AnswerThrown \/ Settle
  BY <1>2, PollAnswerInv, LaunchInv, RecordingInv, LaunchAcceptedInv,
     WaitTimeoutInv, SettleInv
<1>3. CASE \/ PollNothing \/ WaitAgain \/ WaitStopped \/ AnswerRetry
           \/ ResultLost \/ ReportFailed
           \/ Start \/ Stop \/ Stopped \/ Crash \/ Deadline
  BY <1>3, MovesInv
<1>4. CASE ServerResult \/ Rebind \/ Suspend
  BY <1>4, ServerResultInv, BindingInv
<1>5. ASSUME NEW j \in Job, ServerClaim(j) \/ ServerExpire(j)
      PROVE  IInv'
  BY <1>5, ServerClaimInv, ServerExpireInv
<1>6. ASSUME NEW j \in Job, NEW how \in {"ok", "error"}, RunEnds(j, how)
      PROVE  IInv'
  BY <1>6, RunEndsInv
<1> QED
  BY <1>1, <1>2, <1>3, <1>4, <1>5, <1>6 DEF Next

LEMMA StutterInv == ASSUME IInv, UNCHANGED vars PROVE IInv'
<1>1. /\ TypeOK
      /\ UNCHANGED <<binding, active, service, phase, cred, offered, entry,
                     late, quarantined, launches, run, claim, told>>
  BY DEF IInv, vars, bindingVars, execVars, fileVars
<1> QED
  BY <1>1, MoveInv DEF TypeOK

(* The inductive invariant holds in every reachable state.                 *)
THEOREM Invariance == Spec => []IInv
<1>1. IInv /\ [Next]_vars => IInv'
  BY NextInv, StutterInv
<1> QED
  BY <1>1, InitInv, PTL DEF Spec

(* Every variable keeps to its type.                                       *)
THEOREM TypeCorrect == Spec => []TypeOK
<1>1. IInv => TypeOK
  BY DEF IInv
<1> QED
  BY <1>1, Invariance, PTL

(* No job is ever launched twice, whatever crashes, stops, answers lost,   *)
(* failed saves and changes of binding fall between launch and save.       *)
THEOREM NeverReplayed == Spec => []LaunchedOnce
<1>1. IInv => LaunchedOnce
  BY DEF IInv
<1> QED
  BY <1>1, Invariance, PTL

(* A launched job stays in the outbox until the server was told its result *)
(* or its binding is gone.                                                 *)
THEOREM NeverForgotten == Spec => []OutcomeKept
<1>1. IInv => OutcomeKept
  BY DEF IInv
<1> QED
  BY <1>1, Invariance, PTL

(* No task is launched while the result of another is owed: both would     *)
(* have to be the one job in the outbox.                                   *)
THEOREM OneAtATime == Spec => []OneOutstanding
<1>1. IInv => OneOutstanding
  <2> SUFFICES ASSUME IInv, NEW j \in Job, NEW k \in Job,
                      launches[j] > 0 /\ ~Told(j) /\ j \notin quarantined,
                      launches[k] > 0 /\ ~Told(k) /\ k \notin quarantined
               PROVE  j = k
    BY DEF OneOutstanding
  <2>1. entry.job = j /\ entry.job = k
    BY DEF IInv, OutcomeKept
  <2> QED
    BY <2>1
<1> QED
  BY <1>1, Invariance, PTL

(* The server is told of a success only when the run ended well.           *)
THEOREM HonestSuccess == Spec => []TrueSuccess
<1>1. IInv => TrueSuccess
  BY DEF IInv
<1> QED
  BY <1>1, Invariance, PTL

(* A result is told to the account of the job and to no other.             *)
THEOREM ReportsSeparate == Spec => []OwnReports
<1>1. IInv => OwnReports
  BY DEF IInv
<1> QED
  BY <1>1, Invariance, PTL

(* The result told never changes from one report to the next.              *)
THEOREM ReportsAgree == Spec => []OneStory
<1>1. IInv => OneStory
  BY DEF IInv
<1> QED
  BY <1>1, Invariance, PTL
=============================================================================
