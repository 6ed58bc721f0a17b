# Verification of the Sidewisp collector

This directory holds TLA+ models of the Sidewisp plugin (the collector that
runs inside an agent runtime and reports its health, tasks and scheduled runs
to the Sidewisp server), TLC configurations that check them on small
instances, and TLAPS proofs of their safety properties for every value of their
constants. Paths below are relative to the repository.

## The system

The plugin runs in the gateway process of OpenClaw. JavaScript runs to
completion between awaits, so the hazards sit at the awaits: what was read
before one may be stale after it, a stop or a crash may fall into it.
Other processes share its files: helpers that write credentials, a command
hook inbox, an update manager, another gateway that opens the same spool.

| component | state | operations | hard because |
|---|---|---|---|
| event spool, `src/delivery/spool.js` | SQLite tables events, dead_letters, cursors, two coalescing slots; quarantine archive; lock file and guard | enqueue, pending, acknowledge, deadLetter, quarantine, open, close | several commits per operation, crash between any two, rebinding |
| uploader, `src/delivery/uploader.js` | one flight, back-off, healthyInstallation | sendOnce, drain | the binding may change in flight, answers are lost or name older events |
| upload pump, `src/delivery/upload-pump.js` | stopped, pending, timer, flight | request, drain, stop | lost wakes |
| heartbeat, `src/core/heartbeat-supervisor.js` | timer, flight, state, failures, healthy, requested | tick, request, stop, ready | flights that outlive deadline, supervisor and service |
| schedule runner, `src/schedules/runner.js` | a one-entry outbox file | poll, launch, wait, settle | crash between launch and save; old binding's work; reports repeated |
| collector service, `src/adapters/openclaw/plugin.js` | spool, uploader, pump, supervisor, runner | start, stop, recover, status | failed starts, stop during start, awaits in stop |
| credential and device authorization, `src/auth/` | installation.json, the pending authorization, the completion and the notice's receipts | load, poll, begin, reuse, revoke, deliver | two processes poll, deletion races acknowledgement, a crash anywhere |
| task lifecycle, `src/adapters/openclaw/hooks.js` | records of tasks and runs, the current task, the observed message, pending endings, the cursor | processDetailed, commit, rollback, restore, flush | an event accepted but refused by the spool; late and contradictory evidence; restart |
| work reconciliation, `src/adapters/openclaw/work-reconciliation.js` | one flight, a revision | reconcile | the work changes while it is compared |
| scheduled jobs of the host, `src/delivery/cron.js`, `src/cron/` | cursor of receipts, dirty flag, timers, watcher | collect, post, refresh | a change noticed between two awaits; a replaced binding; empty batches |
| diagnostics and usage, `src/delivery/*.js` | coalescing slots of the spool | collect, upload | one flight at a time; the binding may change |
| managed update, `src/update/`, `scripts/openclaw-update-helper.mjs` | state file, journal, kernel lock, baseline | schedule, tick, converge, recover | manager, gateway and worker restart each other; two files per step |
| endpoint transition, `src/auth/endpoint-transition.js` | receipt, the state directory and its archive, the configuration | activate, rollback | crash between renames; the lock is in the directory that moves |
| command hook inbox, `src/adapters/command-hook/`, `scripts/runtime-hook*.mjs` | one file per event | stage, import, drain | concurrent hooks and workers over one lock, partial failure |

Hooks call the lifecycle, which calls the spool and requests the pump; the
reconciliation compares the lifecycle's active work with the host's sessions; the
pump calls the uploader; the heartbeat adopts credentials, quarantines the
previous binding's rows and enqueues a health snapshot; the authorization
watch requests a heartbeat; the service creates all of them and stops them in
a fixed order. Outside the gateway a manager starts update workers, and a
transition script moves the profile to another endpoint: both stop the gateway
and write the same directory under one kernel lock. `PROJECT.json` lists every component, those not modelled with
the reason, and the hazards of the code with the lines where they bite.

What makes each correct: no event is lost, crosses to another account or waits
for ever (spool, uploader, pump); a job is launched at most once and its one
outcome reaches its own account (runner); readiness is fresh and checks never
end (heartbeat); the service is there whole or not at all, and a stop is final
(service); one writer, whatever crashes (lock); a task has one ending and
is not forgotten before it (lifecycle); a working credential is not replaced and
an approved agent connects (authorization); a receipt of a scheduled job is told
once and for its own installation, and the last inventory is (cron); a staged hook
is imported whole and in the end delivered (inbox); an interrupted update goes on, its
installs are bounded, the source of a transition is never lost, and work of the
host is never cut (update, transition).

## Modules

| module | models | state and actions |
|---|---|---|
| `EventCustody` | what delivery promises: abstract specification | `queued`, `received`, `kept`, `lost`; Commit, Receive, Dispose, Damage |
| `Spool` | `spool.js`: queue, dead letters, archive, set-aside file, order of `pending` | state functions used by Delivery |
| `Delivery` | uploader, pump, service, heartbeat's quarantine, server, crashes | one action per synchronous section, one `Crash...` action per cut |
| `DeliveryProofs` | theorems about Delivery | |
| `ScheduleRunner` | `runner.js`, its outbox file, server and runtime around it | `phase` is the await `execute()` is in |
| `ScheduleProofs` | theorems about ScheduleRunner | |
| `Heartbeat` | supervisor and `emitHeartbeat`, over several service starts | state per supervisor; `flight` is the await |
| `CollectorService` | `start()`, its teardown after a failure and its retry, `stop()`, `sidewisp.recover` | `starting`, `stopping` are the awaits; `held` the closure's variables, `alive` what runs |
| `ServiceHeartbeat` | the composition of the two | a step of the service opens, starts, stops or closes for the heartbeat (`Follows`) |
| `ServiceProofs` | theorems about ServiceHeartbeat | |
| `WriterLock` | `acquireWriterLock`, `releaseWriterLock`, processes, pids, boots | `pc` per pid, the guard, the file and its inode |
| `WriterLockProofs` | theorems about WriterLock | |
| `TaskLifecycle` | `hooks.js`, its agent events and hooks, `work-reconciliation.js`, the cursor and the stop and start of `plugin.js` | `life` is the maps of the lifecycle, `story` and `saved` what the spool has committed; one action per hook, event, timer and reconciliation step |
| `LifecycleProofs` | theorems about TaskLifecycle | |
| `DeviceAuthorization` | `begin`, `continueInvitation`, `reuseExisting`, `poll`, the credential file, the notice | `proc` is the await each of the two processes is in |
| `AuthorizationProofs` | theorems about DeviceAuthorization | |
| `CronDelivery` | `delivery/cron.js`, `cron/delivery-receipts.js`, the watcher of `cron/openclaw.js` | `phase` is the await of the flight; `cursor` the source's cursor in the spool |
| `HookInbox` | `stageRuntimeHook`, `importHookInbox`, the hook script and its drain worker | `hook` and `worker` are the awaits of each process |
| `RuntimeSources` | the two by the runtime of the profile | `runtime` |
| `SourcesProofs` | theorems about RuntimeSources | |
| `GatewayHost` | the machine: gateway, installed plugin, unit, the directory that is renamed as a whole, the lock in it | variables and commands shared by the two modules below |
| `ManagedUpdate` | `managed-updater.mjs`, `scheduler.js`, `openclaw-update-helper.mjs`, `current-release.js`, `cold-activate-openclaw.mjs`, collector recovery | `worker` is the step the worker is at; a write of a file or a command is a step |
| `EndpointTransition` | `activateEndpointTransition`, its host object, `installUpdateManager` as far as it refuses | `act` is the step; a file or a command is a step |
| `HostUpkeep` | the composition of the two over one host | properties of both |
| `HostProofs` | theorems about HostUpkeep | |
| `MC...` | instances for TLC | constants only |

Delivery extends Spool and instantiates EventCustody (`Custody`). ManagedUpdate
and EndpointTransition extend GatewayHost, and HostUpkeep composes them.
ServiceHeartbeat composes the service with the supervisors it creates, one per
start: a flight of an earlier one may go on while the service fails, retries or
starts again. RuntimeSources only puts side by side what a profile of either
runtime has. The
others stand alone: the runner shares only the credential with Delivery, the
supervisor only the quarantine (an action of Delivery), and the lock comes
before the spool is there; that Delivery has one process is what `OneWriter`
of WriterLock establishes. TaskLifecycle takes of the spool that a batch and the
cursor in it commit together or are refused (`spool`), which is what
`enqueueSourceBatch` of Spool does; the uploading of what was committed is
Delivery's.

A definition that no action uses and that stands before the one it resembles
(for example `FlightForgotten` before `FlightOver`) is a plausible defect of
it. Replacing the one by the other must violate the property named for it in
`PROJECT.json`; this shows that the property depends on that code.

A type invariant is checked in every run, as a conjunct of one of its invariants
(Whole, OneWriter, OneEnding, ToldOnce, SourceSafe, ReceiptsExact, EventKept); of
Delivery, ScheduleRunner and HostUpkeep it is proved alone (TypeCorrect), of the others
with the invariant it is a conjunct of.

### Abstractions

Delivery:

- Payloads are an owner, a type (health or not) and a size. Every caller
  leaves `retentionMs` at 0, so an acknowledged row is gone at once.
- Installation 0 is `sw_ins_unconfigured`. Installations are numbered in the
  order of their approval and none comes back.
- `credentialProvider.current` resolves from memory, so `performSend` up to
  its fetch is one action; the crash points inside it are actions of their
  own. `drain({maxAttempts: 1})` sleeps its back-off in the same flight, as in
  the code.
- The server may take part of a batch and its answer may name any event it
  has received from that account. It takes nothing after the client gave up;
  a late reception would only be one more that is not acknowledged.
- The outcomes of `performSend` are grouped by what follows from them: 401,
  403, other statuses and unreadable answers do nothing to the spool.
- Whatever but an unsupported schema makes `initialize` throw, the database is renamed
  and an empty one is made, once. Only the main file is renamed (spool.js:134). When the
  database was closed before, its log is in it; otherwise the log stays behind, SQLite
  drops it beside the new file, and what was only there is `lost`: a choice of
  `StartCorrupt`, and the one exception of NoLoss (`Damage` in EventCustody).

ScheduleRunner:

- `failed` stands for `execution_failed` and `runtime_unsupported`. An entry
  found after its ten minutes is a timeout without a wait.
- `Suspend` covers the activation gate and a credential that is not active.
- The server gives an installation one job at a time, and a claim may expire
  (docs/SCHEDULES.md). The outbox is replaced by rename.

CollectorService:

- A part is numbered by the start that created it. The deliveries are created
  and stopped together and stand for one part, the final upload and the notifier's
  stop for one await. What cannot fail by itself is not failed.
- A failure is transient, a refusal of authorization, or another
  (`core/startup-recovery.js`); the last is recovered by `sidewisp.recover`, the first
  by the retry as well. The delay of the retry is a clock.
- `Overlap` FALSE: sidewisp.recover does not meet a stop that is under way. With
  `Overlap` TRUE, Whole fails, see the deviations below.

Heartbeat:

- A supervisor is created per service start (plugin.js:399), so state is a
  function of the supervisor. stop() waits one second for a flight; a flight
  may therefore still be in an await when the next supervisor runs. "Never
  overlap" (heartbeat-supervisor.js:1) is checked for one supervisor.
- `timer` tells a tick scheduled at once from one scheduled after a delay.
- BeatOfTheLiving is about a supervisor that was stopped and a spool that is closed. A
  flight that is only past its deadline is not aborted and may still enqueue a heartbeat.

WriterLock:

- A process number stands for boot id and start ticks, and for the token. A
  process has one acquisition at a time. `Linux` says whether identities can
  be read; without them a record has none, like that of an older release.
- The older release's writer is taken from what staleOwner says of its
  records; it may end in good order or crash.
- A failed write or unlink is an action; a torn write is a file with nothing
  readable in it.

TaskLifecycle:

- One session. A lifecycle event is its run, its kind and, for an ending, what
  `openClawAgentEventInput` makes of it (`Evidence`): component, outcome and
  status. Previews, telemetry counters and clocks are left out; a timer that is
  set may fire at any time, and what has expired is removed at any time (`Prune`).
- The hooks of a message are not concurrent with each other, an agent event is
  processed some time after it was observed (`wire`).
- A run that the host started before it dispatched its message, while the task
  before it is current, is bound to both tasks. CurrentCloses is about tasks that
  share no run: such a detached task may stay open. So may an overlapped task
  whose last run is no longer the session's last.
- A detached task whose ending is refused becomes the session's current one by the
  rollback (hooks.js:899-901), and the rollback of a refused dispatch then attaches it
  again (`restorePrevious`, line 434); the comment at lines 524-527 wants no new unbound
  runs attached to a detached task. RefusalHarmless says what does hold: a refusal leaves
  the same tasks running and detaches none.
- An autonomous run restored from the cursor whose ending is refused is forgotten
  (hooks.js:874-876); OpenKept is therefore about messages.
- The comment at hooks.js:602 wants a failure to win over a buffered good final.
  A settled failure that is refused while such a final is buffered is rolled back
  by restoring the final (hooks.js:881-889), whose timer then reports success.
  The exploration met it; no property of the runs is about it.
- Left out: questions beyond the fact that one was asked, the backpressure of the
  hook queue, cancelActiveRuns, the expiry of retired messages, the caps of 64 and
  1000 on bindings.

CronDelivery:

- Rows of the host's `task_runs` are numbered in the order of the query and, with
  `InOrder` TRUE, written in it. A row that is committed behind the cursor is passed
  over (with `InOrder` FALSE, ReceiptsExact fails); what the host does is not in this
  repository.
- The inventory is a version, the part of it that cannot be read included; the server
  keeps the last. Clocks are left out, and rows that end in the future.
- A post is received or not; its answer changes only the status.
- A collection that throws, from the query to the spool, is CollectThrows. A host
  database that cannot be opened is reported as "unsupported" and the flight goes on
  (delivery-receipts.js:12-14, 33); for what is modelled that is a collection without rows.
- `Blocked` is the named exception of InventoryReported and ReceiptsTold, see the
  deviations below.

HookInbox:

- Events are valid, names are digests, so the order of the import is any order. The
  worker of a later hook may have imported an event of its own.
- The lock is WriterLock's, on a host that tells processes of one pid apart: the lock of
  a crashed worker is no longer held once its record is complete. A worker that dies
  between creating the file and writing the record (spool.js:53-68) leaves one that no
  later worker may remove, and the inbox is never drained again: the exception
  `LockedOut` of Delivered. Where start times cannot be read (WriterLock with `Linux`
  FALSE), a pid in use again has the same effect; that is left to WriterLock.
- A batch that a full spool refuses ends in `rejected/` for ever (bridge.js:124-129):
  the exception `refused` of EventKept and Delivered.
- An uploaded event is acknowledged, or a dead letter (rejected by the server, or the
  first of too large a batch), or stays. `Enroll` binds another installation; a worker
  keeps the credential it has loaded, so a worker of either installation archives the
  rows of the other (spool.js:161), also an earlier worker those of the new binding.
  Dead letters and the archive are `kept`, which Delivered counts as an outcome.

DeviceAuthorization:

- The proof in the pending file is the request. What a request issues is an
  installation of the same number; a request may also be bound to the installation
  there is (reuse).
- `Overlap` FALSE: a request is begun only while no process polls an earlier one,
  and no poll starts during a begin. With `Overlap` TRUE, TLC finds HealthyKept,
  CompletionTrue and Connects violated: a poll that outlives the next request
  writes the older credential over the newer (device-authorization.js:162,
  181-191, and 137-145 on the other side). ToldOnce holds with it as well.
- A read of the credential and the signed inspection of what was read are two steps
  wherever the code awaits between them (ExistingRead and Inspected, Lapsed and
  IssuedLooked).

Host (GatewayHost, ManagedUpdate, EndpointTransition, HostUpkeep):

- The gateway is external: a command succeeds, fails or, for a restart, is deferred
  over work (test/cold-activation.test.js:15). A gateway that is down is started
  again by its service manager or a boot, the manager's unit likewise.
- `write()` of the helper is two durable writes and two steps. A restart and a
  reload may leave the new plugin serving, asking for a cold start, or not
  registered at all.
- One release is offered. The download, the clock, re-enrolment under a running
  manager and ids beside the binding are left out. A worker ends "deferred" (120
  rounds) only while it waits for something; an update that has changed nothing yet
  and a gateway whose plugin never answers wait together.
- `Late` FALSE: a worker that was launched opens the lock before the directory is
  renamed. With `Late` TRUE, InstallsBounded and WorkSurvives fail: the lock is in
  the directory that moves (endpoint-transition.js:100), so the worker and the
  activation hold two.
- `host.stop` is two commands, and either may fail or be the last (`StopHost`, `Dies`).
  `host.start` upgrades the manager and starts the gateway; that the second fails after
  the first has succeeded is left out, since a gateway that is down may be started at
  any time. A reload keeps the work there is, so WorkSurvives is about stops and restarts.
- Named exceptions, each met by TLC: `LeaseLost` (the gateway crashes between the
  suspension and `gateway stop --force`, that of the way back included, and is back
  at work), `Shadowed` (the
  worker dies between journal and state file while the latter tells of an earlier
  failure: every check then ends with UPDATE_RECOVERY_REVIEW_REQUIRED), `Presumed`
  (a gateway that came back by itself is noted as activated, and the plugin then
  asks for a cold start).
- Also seen, without a property: host-lease.json is written outside the try
  (endpoint-transition.js:91), so its failure leaves the host suspended; a kill
  between host.stop and the first receipt leaves gateway and manager stopped
  without one; a journal that is completed while its state file is not keeps the
  attempt at "verifying", and the collector recovery is then never due.

## Runs

| run | checks | instance |
|---|---|---|
| `delivery` | NoLoss, NoCrossBinding, WakeArmed, CustodySpec, Drains, HealthGetsThrough | 3 events, 2 of them fit the spool, 3 bindings, 1 row a request; 292,000 states |
| `oversized` | OversizedAlone, **violated** | 2 rows a request, 1 fits |
| `schedule` | LaunchedOnce, OutcomeKept, TrueSuccess, OwnReports, OneStory, OutboxDrains | 3 jobs, 2 installations; 743,000 states |
| `schedule_rebind` | LaunchedByOwner, **violated** | as above |
| `service` | Whole, StopIsFinal, Supervised, ReadyIsFresh, BeatOfTheLiving, RequestHeard, ComesBack, Recovers | 1 stop, 3 failed starts, 2 supervisors; 53,000 states |
| `service_retries` | RetriesBounded, **violated** | 1 supervisor, three failures |
| `writer_lock` | OneWriter, UnknownOwnerKept, WriterReturns | 3 pids, 5 processes, 2 boots; 124,000 states |
| `lifecycle` | OneEnding, OpenKept, RefusalHarmless, CurrentCloses | 2 messages, 3 runs, 2 records, eight scenarios with at most one fault; 405,000 states |
| `connection` | ToldOnce, HealthyKept, CompletionTrue, Connects | 2 requests and an earlier installation, 1 fault; 509,000 states |
| `host` | InstallsBounded, SourceSafe, WorkSurvives, Resumes | 1 release, 1 transition, work once, 1 fault; 361,000 states |
| `host_rollback` | FailureRestores, **violated** | an older manager, 1 fault |
| `channels` | ReceiptsExact, InventoryReported, ReceiptsTold, EventKept, Delivered | 3 rows, 2 a query, 2 installations, 4 events of the host; 2 hooks and later ones, 3 passes, 2 installations, 1 fault or enrollment; 254,000 states |

The four violated runs state what a document, a comment or a test of the
repository says and the code does not do; `PROJECT.json` quotes both under "findings".

- *oversized*: the size compared is that of the batch, the event dropped is
  the first one, whatever its own size. Since sanitizing bounds an event to a
  few kilobytes, a full batch can exceed the limit but no event can.
- *schedule_rebind*: a job polled for the old binding is launched under the
  new one when the binding changes while the poll is out. Its report is never
  sent: at the next tick the entry is quarantined (OwnReports holds).
- *service_retries*: docs/PARTIAL_START_RECOVERY.md:7 promises "at most three
  consecutive attempts" after a transient failure. heartbeat-supervisor.js:25 calls the
  third failure "failed" and schedules the next attempt all the same;
  test/heartbeat-supervisor.test.js:7 wants a recovery after the fourth. Recovers states
  what the code and the test say, RetriesBounded what the document says.
- *host_rollback*: README.md:195 promises that a failed activation restores the
  source. The rollback starts the source with the script's `host.start`, which
  upgrades the manager first; when the installed manager is older than the package,
  the upgrade tests the kernel lock that the activation itself holds, fails, and the
  profile is left stopped with "rollback_required". (A second way: the directory
  `failed-target-sidewisp` of an earlier rollback is still there.)

Deviations met while modelling, which the passing runs exclude or except by name:

- *Receipts that block the inventory* (`cron/delivery-receipts.js:30`). README.md:21
  promises the inventory of the host's scheduled jobs "through a filesystem watcher and
  30-second fallback". When none of the new rows has a confirmed receipt, the batch for
  the spool is empty, spool.js:224 throws "events must be non-empty", and the error
  leaves the flight before the inventory is read; the cursor stays, so the next round
  meets the same rows. A job that fails or delivers nothing stops the inventory until a
  confirmed row follows within the same hundred. The spool of
  test/native-cron-delivery-receipts.test.js accepts empty batches. In CronDelivery this
  is `Blocked`; without the exception InventoryReported fails.
- *The last hook* (`scripts/runtime-hook-drain.mjs:25`). The comment at lines 35-37
  rescans "so a concurrent final hook is not stranded until the next runtime event".
  The worker of a hook that finds the spool locked ends at once, and the owner scans at
  most three times, and no more once a pass imported nothing: a file renamed after the
  last scan, whose worker starts before the owner has closed, waits for the next hook.
  With `Later` FALSE, Delivered fails so without any fault.
- *Recovery during a stop* (`plugin.js:512`). sidewisp.recover refuses a stopping
  service only while failedCollectorStart is false. After a start that failed, while
  stop() is at one of its awaits, it starts the service; stop() goes on over the new
  variables and leaves parts of that start running without an owner, and the next start
  makes a second interval (test/partial-service-start.test.js:23 wants "exactly one
  timer pair"). With `Overlap` TRUE, Whole fails so.

Bounds. Of three bindings the second finds the rows of the first in the queue and leaves
its own to the third; a fourth adds no other relation between an event, a request and
the binding. Three events allow two
of one account and one of the other, and a spool of two rows that refuses the third,
a heartbeat included. With one row a request the order of the queue decides who waits;
`oversized` has two in a request. `MaxClock` 1 tells older rows from newer ones.
Two launches allowed (`MaxLaunches`) and one permitted is what LaunchedOnce is about. Two supervisors are a flight that
outlives its service and the next start; supervisors do not read each other's
state, so a third adds no relation between two of them. Five processes over three pids allow
two reclaimers, a crashed writer, and a pid used again. In TaskLifecycle two
messages give a current and a displaced task, the third run one that belongs to
neither, two records a lifecycle that is full, and one event under way is enough
for it to be processed after a hook, a stop or a crash that came later; the
scenarios divide what the host may do, because their product is too large. Two
requests give one that is over and one that is not; a fault is a process that may
die at any await. One release and one transition are what the code allows at a
time, and one fault at each durable write is the crash that its journal is for.
Three failed starts are a retry that fails again before and after a stop; two
supervisors are enough for it (a conjunct of Whole says that the bound never holds a
start up). Three rows with two a query leave one to the next query, with the first row
not confirmed; `MaxEvents` bounds rows, approvals, changes and crashes together, because
each of them alone is covered and their product is large. For the inbox too, one
disturbance (a failed write, a refused batch, a crash, an enrollment) is one bound. Two hooks are the owner of the
lock and the one that finds it locked; the later ones are one process at a time.
The safety properties
of every run are also proved without these bounds.

`CHECK_DEADLOCK FALSE` is set for service, service_retries and writer_lock, where stops and starts are
bounded and the last one may end, and for lifecycle, connection and host, where
the host, the account and the work it takes up are bounded, so that everything
may be done.

### Fairness

- Delivery: the pump's timer and the five-second interval fire, a fetch ends
  (AbortSignal.timeout), the back-off ends. Drains and HealthGetsThrough also
  suppose (`Settled`) that the service stays up with an active credential and
  that, of the requests sent again and again, one is received and answered
  (strong fairness of one outcome, as a premise and not of the code).
- ScheduleRunner: timers fire, polls and reports end after ten seconds,
  waitForRun after thirty. OutboxDrains supposes in addition that the service
  stays up, that the disk is writable, and that a report and its answer get
  through in the end.
- ServiceHeartbeat: the awaits of start() and stop() end, the retry timer fires, and
  what has failed is recovered by the manager (docs/MANAGED_UPDATES.md:47); the host
  need not start or stop the service. Ticks fire; the awaits of a flight have timeouts
  (15 s, 5 s, 1 s). A flight that hangs for ever is not replaced, as the document says.
- RuntimeSources: timers fire and awaits end, a service that is down is started; of the
  posts and collections repeated one succeeds (strong fairness of one outcome, as a
  premise). Hook processes go on, hooks follow one another, and of the uploads repeated
  one is acknowledged with all its rows (likewise a premise).
- WriterLock: a locked start is tried again, and file operations end.
- TaskLifecycle: events are handled, timers fire, the heartbeat reconciles, a
  stopped collector starts again, a full spool is drained, the host writes its
  session index. Nothing is assumed of final replies, nor that an interrupted run
  ends.
- DeviceAuthorization: every await ends (AbortSignal.timeout), and the heartbeat
  polls again. The helper need not poll, the account need not decide.
- HostUpkeep: processes go on, the manager's minute ticks, its stream offers the
  release again, work ends, a collector that can serve does, and what is down is
  started again. Nothing obliges a transition to begin.

## Proofs

Checked by TLAPS for every value of the constants that satisfies the named
assumptions of the modules (`SpoolAssumption`, `DeliveryAssumption`,
`ScheduleAssumption`, `WriterLockAssumption`, `HeartbeatAssumption`,
`ServiceAssumption`, `InboxAssumption`, `CronAssumption`,
`AuthorizationAssumption`, `HostAssumption`, `UpdateAssumption`,
`TransitionAssumption`, `UpkeepAssumption`, `TaskAssumption`, `NoneAssumption`). They give constants their types, limits
a positive value, and say that what stands for null (None, 0) is none of the values it
is beside; TLC evaluates them in the runs.

No bound of a run is a hypothesis: numbers of events, bindings, jobs, requests, rows,
hooks, pids, stops and faults are any. Some theorems have a hypothesis on a constant
that describes the environment, because the property fails without it (see the
abstractions and deviations above):

| hypothesis | theorems | without it |
|---|---|---|
| `InOrder` | ReceiptsOnce | a row that the host commits behind the cursor is passed over |
| `~Overlap` of DeviceAuthorization | BindingKept, CompletionBound | a poll outlives the next request; Announced is proved without it |
| `~Overlap` of CollectorService | AlwaysWhole, StopsForGood | sidewisp.recover meets a stop that is under way |
| `~Late` | WorkNotCut, InstallsLimited | a worker opens its lock after the directory was moved; SourceKept is proved without it |
| `MaxStops < MaxStarts` | AlwaysWhole | only the model's room for supervisors, one more than stops |

`DeliveryProofs`: TypeCorrect, NothingLost, BindingsSeparate, NoLostWake and
Implementation (`Spec => CustodySpec`). NoLoss and NoCrossBinding are not
inductive. The invariant `IInv` adds what a request in flight holds: events of
the account that signed it, each of them still queued or kept, and that a
request exists only while its flight does. Every action but an enqueue and a
reception is shown to be a "shift" of custody, a step that removes from the
queue only what is kept or was received by its owner; NoLoss and the
refinement both follow from that.

`ScheduleProofs`: TypeCorrect, NeverReplayed, NeverForgotten, OneAtATime,
HonestSuccess, ReportsSeparate and ReportsAgree. `IInv` says, for each await
of `execute()`, what the outbox and the launches may be: an entry that was
admitted in this tick has never been launched; an offered job is queued no
longer, and neither launched nor told of; nor is a job still queued at the
server; what was told of the entry's job is what the entry says. LaunchedOnce needs the chain
from the server's claim to the saved entry, which no single check in the code
shows.

`ServiceProofs`: HeartbeatImplemented shows that a step of the composition is one of
Heartbeat or leaves it alone, so that AlwaysSupervised, ReadyOnlyFresh, NoLateBeat and
RequestsHeard are proved of Heartbeat alone. Its invariant (`HeartInv`) adds that a
supervisor is untouched before it is created, and that a request which arrives in a
flight is remembered. AlwaysWhole and StopsForGood rest on `ServInv`: what runs is what
the service holds but for the part whose stop is awaited (`Owned`), and at each await of
a start or a teardown it is known which parts there are. The lemma `TornDown` says what
one stretch of a teardown does, for the order of stop() and that of a failed start
alike: it gives up what it passes, and it ends the heartbeat before the spool, without
which the heartbeat would see a spool that is closed. The number of starts is bounded by
calls and faults (`Counted`), for which a start must be shown to follow a call of the
host, a failure, or a recovery that is due; likewise that of supervisors (`Roomy`).

`WriterLockProofs`: SingleWriter, UnknownOwnerStays. Between open and release the guard
names the process (`Guarded`), which excludes two writers of this release; a living
writer of an older one is excluded by its file alone, because nobody gets past the
inspection of it (`LegacyHolds`); and a record that is unlinked is the one inspected
(`Inspected`).

`SourcesProofs`: StagedKept, ReceiptsOnce. A staged file has its name only when it is
whole, and a worker is at an unlink only with an event that the spool has (`Complete`,
`InHand`). For the receipts (`CronInv`) the rows behind the baseline of the binding are
told exactly as far as the cursor, and under it; a batch holds every new row up to its
last, which takes a lemma about the rows of the smallest numbers.

`AuthorizationProofs`: Announced from `ToldInv` (what a process was answered still holds
when it acts, for a request never goes back; each second telling is a fault).
BindingKept and CompletionBound from `BoundInv`: what a poll has found in the
credential's file is still there or was replaced by the credential it is itself about to
write, since both processes poll the same request (`Turns`, `Shared`).

`HostProofs`: TypeCorrect; SourceKept from `SourceInv`, which says at each step of the
activation where the directory of the source is and what the receipt tells, the steps of
the updates beside it leaving both alone; WorkNotCut from `LockInv` (an activation and a
worker hold one lock, and while the directory is away nothing runs at all) and `WorkInv`
(the gateway is suspended without work, or down, when a script acts on it);
InstallsLimited from `CountInv`, which ties the installs that were run to those that the
journal has announced and the worker's copy to the journal it was read from.

`LifecycleProofs`: OneEndingHolds, OpenKeptHolds, RefusalHarmlessHolds. OneEnding is far
from inductive: that a task is not told ended twice depends on its record, which a refusal
rolls back and a restart makes anew from the cursor. The invariant therefore relates three
views of a task (`Good`): a record that is not terminal is one whose story is not closed
(`Agreeing`), the cursor lists what is told as open (`SavedOK`), and at most one running
task is attached to the session (`OneAttached`), so that a restart, which restores every
detached task but only one attached one, brings all of them back and
finds room for them (`Fits`). What a handler makes of it is
described once for all operators (`Fine`): when the spool takes what it is told, the
result is good again, also when the world before it was good only but for the step the
handler has half done; when it refuses, story and cursor are as they were and
the records only lose tasks that do not run (`Shrinks`), nor is one detached (`Keeps`).
Each operator from `AttemptPending` and `Close` up to `Dispatched` and `Lifecycle` has a
lemma of this form, so that they compose as the code composes its calls. A message is
not known before its dispatch (`Fresh`), which is why a dispatch cannot reopen a task.
While the collector is down only the cursor speaks (`Known`). `Closing`, a
recursive function over the sets of works that are settled, is shown to exist and to
satisfy its equation by a least counterexample; that it keeps Fine follows in the same way.

Only model-checked: every liveness property, CurrentCloses, InventoryReported,
ReceiptsTold and Delivered among them (TLAPS does not reason about ENABLED, and so not
about fairness), and the four violations.

The inductive invariants were first checked by TLC as invariants of the runs' instances,
ServInv also from every state that satisfies it.

## Plan

Theorems: every safety property of a run is one. Worth adding are abstract
specifications beside EventCustody: a job of the schedule runner (queued, claimed,
launched, told) that ScheduleRunner implements from what `IInv` already says, and a task
(none, open, ended) that TaskLifecycle implements from `Good`.

Models still worth writing: the coalescing slots of the spool (runtime diagnostics,
usage), each filled and acknowledged by one flight at a time, with the binding changing
under it; the questions with their expiry.

## Not modelled

Normalization and text, usage and context collectors, probes, installers,
vendored scripts, the Hermes shim and its update variant, fleet tooling, the
preparation of a host: pure functions over text, read-only scans, or operator
scripts whose steps are commands. `PROJECT.json` gives the reason for each.
