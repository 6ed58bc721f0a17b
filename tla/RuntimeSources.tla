--------------------------- MODULE RuntimeSources ---------------------------
(***************************************************************************)
(* What reaches the spool and the server of a profile beside the OpenClaw  *)
(* hooks.  A profile has one runtime: OpenClaw, whose scheduled jobs the   *)
(* collector service reports, or Codex or Claude Code, whose hooks stage   *)
(* their events in the inbox.  Nothing of one runs in the other.           *)
(***************************************************************************)
EXTENDS CronDelivery, HookInbox

VARIABLE runtime

sourceVars == <<runtime, cronVars, inboxVars>>

SourcesInit == runtime \in {"openclaw", "command"} /\ CronInit /\ InboxInit

Cron(step) == runtime = "openclaw" /\ step /\ UNCHANGED <<runtime, inboxVars>>
Inbox(step) == runtime = "command" /\ step /\ UNCHANGED <<runtime, cronVars>>

SourcesNext == Cron(CronNext) \/ Inbox(InboxNext)

SourcesSpec == SourcesInit /\ [][SourcesNext]_sourceVars

(* Timers fire and awaits end; of the requests sent again and again one is *)
(* received, of the receipts collected again and again some are taken (or  *)
(* the query finds none), and a service that is down is started.           *)
CronFairness ==
  /\ WF_sourceVars(Cron(Start \/ TimerFires \/ Stopped))
  /\ WF_sourceVars(Cron(Flight))
  /\ SF_sourceVars(Cron(Posted))
  /\ SF_sourceVars(Cron(Collect /\ (Baseline \/ NothingFresh \/ Enqueued)))

(* Processes go on, and hooks follow one another; of the uploads tried     *)
(* again and again one is acknowledged.                                    *)
InboxFairness ==
  /\ \A e \in Event : WF_sourceVars(Inbox(Written(e) \/ Renamed(e) \/ Spawn(e)))
  /\ \A w \in Worker : WF_sourceVars(Inbox(Drains(w)))
  /\ WF_sourceVars(Inbox(LaterHook))
  /\ SF_sourceVars(Inbox(\E w \in Worker : Upload(w, Own(w), {})))

SourcesFairSpec == SourcesSpec /\ CronFairness /\ InboxFairness
=============================================================================
