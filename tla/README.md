# NightOwl in TLA+

NightOwl manages Windows machines: a Django server with a web console and a
help desk, and an agent written in C# on every machine. This directory holds
models of the parts of it that are hard to test, the TLC configurations that
check them on small instances, and theorems about them that TLAPS checks for
every size. `PROJECT.json` ties every definition to the lines it translates,
every run to its properties and every hazard to the properties that cover it.

Paths below are relative to `src/`.

## 1. Inventory

### 1.1 Modelled

| Part | State | Operations | What makes it correct |
|---|---|---|---|
| **Server job rows** (`agents/views.py`, `agents/job_control.py`, `agents/stale_job_reconciliation.py`) | `AgentJob.status` and recorded result, `AgentJobResultReceipt`, start authorization | pull, start, result, timeout, cancellations, unlocked console requests | a final status is final and agrees with the receipts; started work is handed out again only if the agent reports it as not begun; an acknowledged result has closed its job |
| **Agent job pipeline** (`NightOwl.Agent.Windows/Jobs/`) | inbox, job store, outcome journal, pending results, archive; three concurrent tasks | dispatch, execute, upload, restart recovery | an operation is carried out at most once; its evidence survives until the server has it; a local final state is final |
| **The two together** (`AgentApiClient.cs`) | requests under way, lost or late | answered, given up, served late | only confirmed work runs; only received evidence is filed away; every job ends |
| **Update rollouts** (`agents/rollout_*.py`, `agents/lifecycle_jobs.py`) | campaign, wave and target states, the update job behind a target | controls of campaigns and waves, dispatch, reconciliation, governance | waves in order; a success is proven and final; the limit holds; one update per endpoint |
| **Agent releases** (`agents/models.py`, `agents/services.py`, `dashboard/views.py`) | release rows, decisions to update, update jobs | import, publish, promote, pause, supersede, revoke, decide, dispatch | what is offered is coherent and signed; no update to a revoked or older release |
| **Self-update** (`NightOwl.Agent.Updater/Program.cs`, `UpdateState.cs`, `Worker.cs`) | update state file, installed files, backup, service, confirmation | every stage of apply, health wait and rollback; recovery of a runner that died | one whole version ends up installed; a mixture can be recovered from; reports are true |
| **Automations** (`agents/automation.py`) | definitions, occurrences, jobs | edit, run now, pause, resume, cancel; scheduler rounds; delivery | one job per slot; no overlap; cancelled work was not sent; what is due is processed |
| **Ticket e-mail outbox** (`tickets/services/email_outbox.py`, `automation_outbox.py`) | outbox rows, senders, an operator's edit | prepare, queue, send, retry, cancel, re-queue | one recent row for an event, unless requests overlap or a sending failed; a message is sent twice only if its row had become doubtful |
| **Tickets and inbound e-mail** (`tickets/services/ticket_workflow.py`, `tickets/views.py`, `inbound_email.py`) | one ticket, mailbox flags, inbound records | technicians' and portal requests, fetch runs | a reply enters once; stamps agree with the status; a closed ticket is reopened only by a stale save |
| **Continuous telemetry** (`TelemetryMinuteAggregator.cs`, `TelemetryWindowQueue.cs`, `ContinuousTelemetryPipeline.cs`, `agents/telemetry_continuous.py`) | windows: open, in the channel, on disk, uploaded, stored, merged | aggregate, persist, upload, store, acknowledge, compact | every minute is counted once; what was deleted is stored |
| **Telemetry configuration** (`TelemetryConfigurationService.cs`, `Worker.cs`) | settings on disk, in memory and in force; journal | apply, roll back, conclude, recover | the settings agree; no accepted configuration is lost |
| **Remote terminals** (`agents/terminal_sessions.py`, `agents/terminal_transport.py`, `RemoteTerminalTransport.cs`) | session row, single-use tickets, relay, consent, process | create, consent, connect, consume, relay, leave, cancel | a ticket works once; no process without the consent its mode needs |
| **Remote installation** (`dashboard/remote_install*.py`, `ad_install_views.py`) | job rows with the global slot, tokens, batches and items | preflight, admit, run, watch, enroll, sweep, retry, interrupt | what is called safe to retry did not run; completed means enrolled; the slot comes free |
| **Enrollment** (`agents/views.py`, `agents/identity.py`, the bootstrap script) | rows, credentials, deployment links, batches, tokens | metadata, enroll, install, complete, heartbeat, reconcile, revoke, rotate | identities are unique; a token is used as often as it may; a completion is proved by a heartbeat |
| **Inventory and heartbeats** (`agents/services.py`, `Worker.cs`, `WindowsInventoryCollector.cs`, `InventoryCadence.cs`, `dashboard/capacity_views.py`) | readings on their way, checkpoints of the groups, columns and dated evidence of the latest snapshot | the worker reads due groups and posts them, a job reads all, heartbeats go out beside both; the server merges what arrives in whatever order | what was once known stays known; dates and checkpoints are those of received readings; pages agree |
| **Alerts and software policies** (`agents/alerting.py`, `change_detection.py`, `software_policy_engine.py`, `run_maintenance_tasks.py`) | inventory, alerts, violations, maintenance runs | the four tasks of a run, console requests, new inventory | one active alert each; after an undisturbed run alerts say what the inventory says |
| **Removal of the agent** (`dashboard/views.py`, `agents/views.py`, `NightOwl.Agent.Uninstaller/Program.cs`, `mark_offline_agents.py`) | orders, their jobs and tokens, lifecycle and status of the endpoint; uninstaller, files on disk | order on the panel, at the tray or as a bare job; pull, start, delete, report; cancel, expire, time out; status sweep; new installation | one removal at a time and none beside an update; only what was ordered is deleted; the record is true; a removed endpoint stays removed |
| **Access inventory** (`access_inventory/`) | imported directory and ACLs, principals, rules | uploads, imports, resolution, the commands that write rules, the review page | whoever loses access is shown as losing it; what was granted is shown |

How they interact. The console, the automations, the policy for releases and the
dispatcher of rollouts create job rows. The agent polls for them, asks for each
job's start, executes it and posts the result until the server acknowledges it.
Rollout governance reads the rows and receipts of its update jobs and moves
targets, waves and campaigns; on the machine such a job starts the runner of
`UpdateTransaction`. A `configure_telemetry` job goes through the same executor
and shares the job store with the worker loop's recovery. Remote installation
makes a deployment token, and the computer enrolls with it. An order to remove the agent
waits as a job row like any other, or is authorized for the tray by a token; the
uninstaller it starts outlives the agent and reports in its place. All server handlers
share the database; most take row locks, some do not, and those are where the
interleavings are. The three agent tasks share the files and one process, which
may stop between any two writes.

### 1.2 Not modelled

| Part | Why |
|---|---|
| What a job executes (`Jobs/AdministrativeActions.cs`, `Jobs/SoftwareInstallation.cs`, ...) | calls of Windows; kept as "carried out, with this outcome" |
| Release trust (`NightOwl.Agent.Shared/ReleaseTrust.cs`) | cryptography; a signature is there or not (`Releases`) |
| Console pages, authorization and settings | queries, layout, decisions of one request |
| Tray, diagnostics, what a collector asks of Windows | user interface and reading of the system; nothing shared with the parts above but files they only read, and the inventory's outcome (which groups and fields were read), which `Inventory` has |
| Templates, static assets, scripts, migrations | layout and data |

## 2. Modules

```
JobTypes            statuses, outcomes, the status each outcome carries
  ServerJobs        the server's job rows
  AgentJobs         the agent's files and tasks         AgentJobsProofs
    JobPipeline     both, over a lossy connection       JobPipelineProofs (and ServerJobs)
      JobContract   what the pipeline promises (INSTANCE, refinement)
Rollout             campaigns, waves, targets, jobs     RolloutProofs
UpdateTransaction, Releases, TicketMail, TicketDesk     UpdateTicketProofs
RemoteInstall, TerminalSession, Automations             WorkProofs
Telemetry, TelemetryConfig                              ComponentsProofs
Removal                                                 RemovalProofs
Enrollment, Inventory, Alerts, AccessReview             EstateProofs
MCServerJobs, MCAgentJobs, MCJobPipeline, MCRollout     TLC instances
MCComponents        nine components that share no state, one at a time
MCEstate            Enrollment, Removal, Inventory, Alerts, AccessReview likewise
```

A definition whose comment begins with `Mutant:` is a plausible bug of the
definition that follows it; no specification uses it. Replacing the one by the
other has to break the property that `PROJECT.json` names with it. Variables
commented as `history` record what happened, so that it can be compared with what
rows and files say.

### 2.1 ServerJobs

One action per handler. Handlers that hold the row lock are one step. Requests
that read a row without its lock and save it later are two: `ReadTo...` puts a
task in `held`, `SaveTask` carries it out whatever the row has become.

| Action | Code |
|---|---|
| `Pull`, `Candidates`, `Batch`, `Deliverable` | `AgentJobsPullView.get`, `delivery_candidates` |
| `Start`, `RefuseStart`, `MayStart` | `AgentJobStartedView.post` |
| `AcceptResult` = `KnownResult` / `LateResult` / `SaveResult`, `ConflictingResult` | `AgentJobsResultView.post` |
| `TimeOut` | `reconcile_stale_agent_job` |
| `CloseWindow`, `CancelQueued` | `scheduler_round`, `control`, `cancel_occurrence` |
| `ReadToMarkFailed`, `ReadToCancel`, `ReadToExpire`, `SaveTask` | `endpoint_job_mark_failed`, `endpoint_uninstall_cancel`, the pull's own list of expired rows |
| `Lapse`, `Bar` | `expires_at` passes; the authorization or capability of a job is withdrawn |

Abstractions. A `sent` job may be offered again once it is 30 s old; time is left
out, so any sent job may be. Reasons for refusing delivery are two, `cancelled`
and `unsupported`. A result may carry any status `_normalize_job_status` knows: the
aliases `pending` and `dispatched` count as `queued` and `sent`, and the server saves
these two as well on a job that is not final, so a result can take a started job back
to where a pull hands it out. The agent of this repository sends neither.
A receipt with a conflict (`disputed`) is no evidence for the timeout. Update, restart and
`configure_telemetry` jobs, which carry states of their own, progress reports, and
completions that a type's validation answers with 400 are left out.

### 2.2 AgentJobs

Every file write and every request is an action of its own, and `Crash` may come
between any two. A task is a record with a program counter. `history` variables
(`runs`, `effect`) record what really happened on the machine, so that what the
files say can be compared with it.

| Actions | Code |
|---|---|
| `DispPull`, `PullAnswered`, `Accept`, `RejectAction`, `DispJournal`, `DispQueue`, `DispEnqueue` | `JobRuntime.Dispatch`, `JobJournal.Accept` |
| `ExecDrop`, `ExecDoubt`, `ExecValidate`, `StartGranted/Failed/Refused`, `ExecBegin`, `Perform`, `ExecPersist`, `ExecFinish`, ... | `JobRuntime.Execute`, `JobExecutor.ExecuteAsync`, `JobExecutionPolicy` |
| `UplScan`, `UplSend`, `ResultAccepted/Failed`, `UplAcknowledge` | `JobRuntime.Upload`, `PendingResultQueue` |
| `DispFault`, `ExecFault`, `UplFault` | a write that throws, and the handler that catches it |
| `Crash`, `Restart`, `RecoverLost`, `RecoverFinal`, `RecoverQueue`, `Recovered` | the service manager, `RecoverInterruptedJobsAsync` |

Abstractions. `timed_out` and a cancellation by shutdown are folded into
`failed`. The test and the write of the upload's own queueing are one step; the
same gap is modelled for the two other tasks. Recovery of pending results is one
step per result. Left out: retention of the archive, pruning and quarantine of
damaged files, the gate at a hundred pending results and external runners. The
recovery that configuring telemetry starts beside the running tasks is in
`TelemetryConfig`, and what an external runner does in `UpdateTransaction`.

### 2.3 JobPipeline and JobContract

A task has at most one request open and does nothing else meanwhile, so serving it
and taking the answer are one step. A request that was given up, by the timeout or
by a crash, stays in `late`: the server may still serve it, and nobody hears the
answer. `JobContract` says in three variables what the creator of a job may rely
on; `KeepsContract` is the refinement.

### 2.4 Rollout

Three parties act at once: operators (`control_rollout_campaign`), the dispatcher
(`dispatch_rollout_campaign`) and governance (`run_governance_round`). Each handler
holds the campaign's row lock from start to end and is one action, with two
exceptions that the code has: the start of a campaign looks for rivals in rows it
does not lock (`CheckRivals`, then `Run`), and a governance round reconciles in one
transaction and judges in the next (`BeginRound`, then one of `SystemPause`,
`StartObservation`, `CompleteWave`, `LeaveAsIs`; or the process stops, `RoundLost`).

| Definition | Code |
|---|---|
| `Approve`, `CheckRivals`, `Run`, `PauseCampaign`, `Abort` | `control_rollout_campaign`, `transition_campaign` |
| `Prepare`, `StartWave`, `PauseWave`, `ResumeWave` | the same, `transition_wave`; `prepare_next_wave` is `Prepare` under further conditions |
| `Occupied`, `Dispatchable`, `Selection`, `Dispatch` | `build_rollout_planning_context`, `evaluate_rollout_target_dispatch_safety`, `build_rollout_dispatch_plan`, `dispatch_rollout_campaign` |
| `Desired`, `Reconciled`, `Reconcile` | `evaluate_rollout_target`, `reconcile_rollout_campaign` |
| `MustStop`, `Healthy`, `CampaignClean`, `Decision` | `evaluate_rollout_governance`, `build_wave_observation_summary` |
| `JobChanges`, `EvidenceArrives` | the agents' results, their receipts, version and health |
| `OtherJob`, `OtherJobEnds` | the other lifecycle writers, under `lock_lifecycle_endpoints` |

Abstractions. `sent` is folded into `queued`, a completion with a nonzero exit code
into `failed`. Some thirty reasons not to dispatch to an endpoint are its
`condition`: fit, barred (not dispatchable, otherwise well), or lost (offline,
stalled, unhealthy or on another version, which governance looks at too). Which
targets a plan takes first is left open. Creating a campaign and freezing its
cohort come before `Init`; previews, hashes, integrity checks of the snapshots and
binding errors are left out. Constants that bound the search: `Fickle` (targets
whose closed job may still be revised), `Troubled` and `Managed` (endpoints whose
condition changes, or that others use).

### 2.5 UpdateTransaction

The runner (`NightOwl.Agent.Updater`) and the service it replaces are two processes
that share the update state file. One step of the runner is what lies between two
persisted stages; either process, or the machine, may die between any two steps.

| Definition | Code |
|---|---|
| `Launch`, `Resume`, `ResumesAt` | `LaunchIndependentRunner`, `LoadOrCreateRunnerState`, `ClassifyRecovery`, `DispatchRecovery` |
| `Fetch`, `FetchThrows`, `BackUp`, `BackedUp`, `Recheck`, `Stop`, `Stopped` | `RunUpdateAsync`, `PrepareReplacement`, `CreateBackup`, `ResumeInterruptedApply` |
| `Replace`, `Replaced`, `WriteVersion`, `Validated`, `StartNew`, `Confirmed` | `ApplyStagedUpdate`, `CopyStagedFiles`, `ValidatePostUpdate`, `WaitForHealthCheck` |
| `BeginRollback` to `RestoredWaitEnds`, `LoseRollback` | `TryBeginRollback`, `ExecuteAutomaticRollbackCore` |
| `HsRead`, `HsAwait`, `HsConfirm`, `HsReport` | `UpdateHealthCheckHandshake`, `ConfirmPendingUpdateAsync`, `WritePendingUpdateResult` |
| `Saved`, `Persist` | `UpdateStateStore.TryTransitionNonTerminal`: a terminal state of the same update is never replaced |

Abstractions. Installed files are one version or `Mixed`. The stages before the
backup, in which only the staging directory changes, are one. Locks that admit one
runner at a time are the single `runner`. A runner that is lost comes back only with
a new launch, since nothing else in the code starts one.

### 2.6 Releases

A request reads a release row (`ReadRelease`) and later saves the whole row it has
read (`Write` with `Publish`, `Promote`, `Revoke`, `Supersede`, `ChangeRollout`):
`agent_release_action` takes no lock. `Cleaned`, `SignaturePolicy` and `Saveable` are
`AgentRelease.clean`, `ensure_release_signature_policy` and `save`. `Decide` and
`Dispatch` are the two halves of `AgentUpdatePolicyView`, between which the release
may change. Package files, percentages and the signatures themselves are left out.

### 2.7 Automations

A transaction that locks a definition and its endpoints is a step; a scheduler round
(`BeginRound`, `Process`, `ProcessFails`, `NoteLost`, `NoteRefused`) is several of them
with the time at which the round began. `Materialized` is `materialize` with its
unique key, `Busy` the overlap test, `Outcome` what becomes of a slot, `Deliver` the
last test before a job is sent. Calendars are "once" and "interval"; weekdays and
time zones say only where the slots lie.

### 2.8 TicketMail and TicketDesk

`TicketMail`: `Look` and `Enqueue` are the two halves of `prepare_ticket_notification`,
between which a second request may look too. `recent` holds the rows of the last twenty
seconds, which pass for each row on its own (`TwentySecondsPass`); `overlapping`, `rushed`
and `failedOnce` record why there may be two of them. A sender takes a row under its lock
(`Take`), speaks to the mail server (`Speak`, whose answer may be lost) and saves the
outcome without it (`SaveOutcome`). `ReadToEdit` and `SaveEdit` are `cancel_email` and
`mark_email_pending`, which lock nothing. A sender that dies leaves its row `sending`.

`TicketDesk`: a request reads the ticket and later saves it; no handler locks the row,
and most save every field they read. `Search`, `Fetch` (which marks the message seen),
`Lookup`, `Process` (one transaction) and `File` are a run of `process_inbound_mailbox`;
runs may overlap and die. `Moved` and `Stamped` are `transition_ticket` and
`Ticket.save`. `Notify` is the call of `prepare_ticket_notification` in the transaction
that saves: without an active template it prepares nothing, and the change stays. Which
templates operators take out of use is a constant (`Withdrawable`), the events that went
without a notice for that reason are recorded (`untold`). Left out: checklists, knowledge articles, reports, the parsing of mail.

### 2.9 Telemetry and TelemetryConfig

`Telemetry`: `OpenWindow` and `CloseWindow` are the aggregator, the channel is bounded
and a window that finds it full is dropped, `Persist` writes and trims the files, `Snapshot`, `PersistWindows`
and `Acknowledge` are an upload whose request or answer may be lost, `FindOldRows` and
`CompactGroup` merge rows on the server. A window's content is a version: a clock that is
set back lets a minute be aggregated again, and the server keeps the first.

`TelemetryConfig`: the job task (`Begin`, `TakeGate`, `ApplyRequested`, `RollBack`,
`Conclude`, `QueueResult`, `DeleteJournal`, `FinishJob`) and the worker loop
(`ReadJournal`, `RecoverJournal`, the same steps, then `RecoverInterrupted`) run side by
side; a semaphore orders what they do to the settings, but the worker reads the journal
before it waits. The process may stop between any two steps.

### 2.10 TerminalSession

Rows (`CreateSession`, `Poll`, `PostConsent`, `IssueOperatorTicket`, `Cancel`) are locked
by each request. The relay lives in one server process and awaits the database in
worker threads: `ConsumeTicket`, `Attach`, `MarkReady` and `Finish` of a connection are
separate steps, and so are the agent's (`UserApproves`, `AgentConnects`, `StartProcess`,
`Disconnect`). The server may restart, which drops the links. Frames, rates and sizes
are left out: a frame that breaks a rule ends the connection, which may end anyway.

### 2.11 RemoteInstall

A row holds the global slot while its process may act. `AskSolo`, `Check`, `Admitted`
and `Start` are the request; `Validate`, `PrepareDeployment`, `Intend`, `Send`,
`WatchScript`, `AwaitEnrollment`, `AwaitHeartbeat` and `FinishInstall` are
`run_remote_install`, in which every write needs the slot; `ClaimBatch` to `FinishBatch`
are `run_batch`. Processes die, or stall and act later (`Stall`, `WakeUp`); `ResolveStall`,
`Reconciled` and `SweepBatch` give up what they left. What the script does on the target
(`ScriptStarts`, `ScriptEnds`, `Enroll`) goes on without the server.

### 2.12 Enrollment

`CreateDeployment`, `BatchIssue`, `AskMetadata`/`GiveMetadata` (read first, marked later),
`EnrollByDeployment`, `EnrollByToken`, `ReportFailure`, `ReportSuccess`, `Heartbeat` and
`Reconcile` (on commit, and lost if the process dies) are the views; `Install`,
`SkipInstall`, `BootstrapDies` the bootstrap script; `Found`, `KeysAgree` and
`IdentityHolds` are `identity.py`. Computers may be clones of one image, renamed or
installed anew, and the answer with a new credential may be lost. Left out: renewing a
row with its credential and no token, the links of remote installations, serial number
and domain as evidence, audit events and rates.

### 2.13 Alerts

A maintenance run is `CheckRunning` (the guard, which tests and then creates), then the
evaluator, the change detector, the expiry and the policies, each reading first and
saving later, beside the console (`ConsoleReads`, `ConsoleSaves`), new inventory and
exceptions. Runs die, fail in one task (`TaskFails`), or grow so old that the next one
starts beside them (`GrowsOld`). There is one condition, one prohibited program and one
change. Left out: muting, comments, `--force`, required software, and that a violation
may be linked to another active alert of its kind instead of a new one
(`software_policy_engine.py` 243-252): the model makes more alerts than the code. Rows that are resolved
and referred to by nobody are used again, which keeps the rows of a long run few.

### 2.14 AccessReview

Uploads (`Collect`, `ReceiveUpload`, the imports, `FinishRun`, `ImportFails`), the
resolution of identities, the four commands that write rules (`ImportRule`, `GrantRule`,
`SyncGroups`, `SeedRules`) and the operators behind the page of a folder. The model
keeps what the page decides by: identities, names, links, levels, inheritance, and the
cut of long lists. Left out: deny entries and the distinction of single rights, members
of nested groups, folders for partners only, exports.

### 2.15 Removal

An order is made on the panel (`OrderOnPanel`), at the tray (`AuthorizeAtTray`) or as a
bare job (`OrderAsJob`); who makes one locks the endpoint, so that checks and creation are
one step. The agent gets it with `Pull` and `StartRunner`, or the tray starts the
uninstaller (`StartAtTray`). From there the uninstaller is a process of its own:
`ConsumeAuthorization`, `StopAgent`, `RemoveBinaries`, `FinishRemoval`, `ReportSuccess` or
`ReportRunnerFailure`, with failure (`RunnerFails`) and death (`RunnerDies`) in between.
Beside it operators and commands cancel, fail or expire rows that they read without a
lock (`ReadToEdit`, `SaveEdit`), close jobs that got old (`TimeOut`) and write the
endpoint's status (`SweepRead`, `SweepSave` are `mark_offline_agents`); other lifecycle
jobs come and go, and the agent may be installed anew (`InstallAnew`, `ConfirmInstall`).
The completion of an installation may arrive late, and the server does not ask for the
lifecycle then: `installing` tells a completion of the installation there is from one of
an installation that was removed since.
An order is kept with its mode, its source and who made it. Left out: the windows of the
tray, diagnostics, and what the uninstaller deletes file by file.

### 2.16 Inventory

| Definition | Code |
|---|---|
| `Due`, `Passes`, `Collect`, `RecordCheckpoint`, `GiveUp`, `SaveState`, `Stop` | `InventoryCadence`, `Worker.SendCollectionAsync`, `RecordInventoryCheckpoint`, `AgentState` in memory and on disk |
| `CollectForJob`, `Beat` | the job `force_inventory`, whose result waits in the queue of the agent; `RunHeartbeatLoopAsync` |
| `Read`, `Missing`, `Yields` | what `WindowsInventoryCollector` returns when the platform, the details of the hardware or the network could not be read |
| `RecordCollection`, `RecordHeartbeat`, `Learned`, `Origin` | the merge into the latest snapshot and the projection of heartbeats in `agents/services.py`; both hold the row's lock |
| `OnPage`, `Chosen`, `InCapacity` | what the page of an endpoint and the one about capacity take from it |

A value stands for the reading it comes from, so that it is its own true date. Of the
fields there are four, each of a kind of its own: `os` (system), `memory` (hardware,
from the platform or the details), `cpu` (hardware, from a detailed reading only, with a
date of its own) and `ip` (network, carried by heartbeats). Time is left out: the cadence
of a group may pass whenever it is not due. Left out also: volumes, software, security,
patches, memory modules and the evidence of identity.

### 2.17 Compositions

`JobPipeline` composes server and agent. `MCComponents` and `MCEstate` put components
side by side that share no variable: `focus` is chosen at the beginning and only that
component moves. The reachable states are those of the components one after the other,
and an invariant or fairness property of one of them holds there if and only if it holds
of the component alone.

## 3. Runs

| Run | Instance | Question |
|---|---|---|
| `server_jobs` | 2 jobs, 2 result ids, 1 unlocked request; batches of 1 | do handlers with and without the lock keep final states and evidence? |
| `agent_jobs` | 3 jobs: a refused action, a refused job, an ordinary one; inbox of 1; 2 crashes, 1 failed write | at most once, evidence kept, every closed job reported, whatever the server answers? |
| `pipeline_crash` | 1 job, 1 crash, 1 failed write, late requests | safety end to end and the refinement of `JobContract` |
| `pipeline_live` | 1 job, 1 crash, fairness | does every job end, is every result acknowledged? |
| `rollout` | 1 campaign, 2 waves, 3 targets, 3 endpoints, limit 1 | rollouts against revised jobs, a troubled endpoint and other lifecycle jobs |
| `components` | see below | updates, mail, desk, remote installation, terminals, telemetry and its configuration, automations, releases: safety and progress |
| `estate` | see below | enrollment, removal, inventory, alerts, access review: safety and progress |
| `cancel_delivered`, `restart_replaces`, `resume_stuck`, `rivals`, `recovery_overtakes` | as small as shows it | the five disagreements of section 6 |

**Bounds.** On the server jobs meet each other only through the batch, in the agent only
through the inbox, the order of the tasks and the queue of results; two or three of them
fill these. `agent_jobs` explores batches of all three jobs as long as nothing fails, and
crashes and failed writes as long as only the ordinary job was handed out (`InScope`),
since a crash concerns a job alone. Two crashes include one during the recovery from
the other. Two result ids allow a duplicate, a conflict and a later result;
nothing tells them apart, so the run treats them as symmetric. In `rollout`
two waves show their order, the first has two targets so that it can be half done, and a
limit of one makes every dispatch compete.

| Component | Instance, and what it lets happen |
|---|---|
| update | 2 versions, 2 updates, 2 deaths: a second death while the first is recovered from; an upgrade after one that failed |
| mail | 2 rows, 2 senders, 2 requests, 1 attempt, 1 death, 1 operator's request: two senders or two notifications of one event |
| desk | 2 requests, 1 message, 2 overlapping runs, 1 death, 3 saves: a save over a save; of the templates the one for resolved tickets may be withdrawn, the only event a property asks about |
| install | 1 computer, 2 batches and a single install of which 2 are accepted, 1 death or stall: slot and token change hands |
| terminal | 1 session, 2 connections, all 3 modes, 1 restart or lost answer: both with one ticket |
| telemetry | 3 minutes, channel of 1, queue of 2, batches of 2, 1 compactor: every limit is reached, a row is merged |
| config | 2 configuration jobs, 1 other, 2 stops: a stop while another is recovered from |
| automation | 1 definition, 1 endpoint, 2 schedulers, 2 instants, 1 retry, 3 operations: overlapping rounds |
| release | 1 release, 2 editors, 3 operations, 1 decision: a stale save |
| enrollment | 2 computers, one outside the domain, possibly clones; 2 deployments, 1 trouble |
| removal | 2 orders, 1 operator, 1 unlocked request, updates as other jobs, 1 incident (a failure, death, lost call, restart, silence, unlocked request or installation): a second order after the first one's job was closed over its uninstaller's head |
| inventory | heartbeats carry the address, 2 wishes (a cadence passes, an inventory is ordered, a heartbeat), 1 setback (a partial reading, a lost or late call, a failed save, a stop): the readings of worker, job and heartbeat overtake each other, one of them incomplete |
| alerts | 2 processes, 5 rows, 1 change of inventory, 1 mishap |
| review | 3 people (two namesakes, one hidden), 2 groups (one Domain Admins), pages of 2, 3 rows, 2 uploads, 3 events |

The state spaces are finite because requests, crashes and faults are counted; each
counter is a variable with its bound among the constants. Deadlock is checked except in
`rollout`, `components`, `estate` and `recovery_overtakes`: there a campaign, or a
component that has used up its requests and faults, has nothing left to do, and that is
its proper end.

**Fairness.**
- `pipeline_live`: the three tasks are endless loops of one process that the service
  manager restarts: weak fairness for each task, for the timeout of a request and for
  restart with recovery. The upload walks over all results in each round and the server
  orders deliveries by age: strong fairness for each job's scan, send and delivery. The
  network may lose any request but not all that a task repeats: strong fairness of being
  served.
- update: a runner that is not killed goes on and all its waits have timeouts (weak);
  a lost runner comes back only with another launch, so `UpdateOpen` excepts it.
- mail, desk: senders and mailbox runs are started again and again by a periodic command
  (weak); neither a sender that died nor a message in the hand of a run that died is
  taken up again, and the properties say so.
- install: a process that is alive goes on (weak); nothing revives one that died.
- terminal: the relay's monitor and the keep-alives end what must end (weak).
- telemetry: the writer is a loop (weak); uploads are repeated by a timer and the
  network does not lose all of them (strong for `Snapshot`, `PersistWindows`,
  `Acknowledge`).
- config: both loops go on (weak), and the semaphore is not withheld from the worker
  for ever (strong for `RecoverJournal`).
- automation: time passes and schedulers run their rounds (weak).
- alerts: cron starts maintenance every five minutes (`DEPLOY.md:96`,
  `DEV_SETUP.md:102`), and a run goes on unless it dies (weak).
- removal: `mark_offline_agents` is started again and again (weak for its read and save).
- inventory: the worker is a loop (weak for reading, recording and saving), and the call it
  waits for is answered or given up (weak for the message it posts).
- enrollment: an installed agent sends heartbeats, and a reconciliation whose process
  did not die runs (weak).

Nothing is assumed of crashes, late requests, operators, users, the outcome of an
operation or the clock of a server; and nothing forces a review.

## 4. Properties

*Server.* `AcknowledgedIsFinal`, `StatusMatchesEvidence`, `JobsGoForward` (`ClosedStaysClosed`
and `StartedIsNotReissued`); `OnlyUnlockedSavesReplaceFinal` says exactly where the code
gives up finality: only the saves of rows read without a lock can replace a final
status. `StartedIsNotReissued` has one exception, a new result that says itself that the
job is queued or sent; with the agent of this repository it never applies
(`PipelineStartsOnce`, proved).

*Agent.* `AtMostOnce`, `EffectIsNeverForgotten`, `CompletedIsTrue`,
`LocalFinalIsForever`, `ClosedIsReported` (as long as nothing fails; with a crash between
closing a refused job and journaling it, it does not hold, and the job then ends by the
server's timeout), `BatchFits` (proved, in no run).

*Pipeline.* `ArchivedOnlyIfReceived`, `EvidenceReachesServer`, `CompletedIsReal`,
`KeepsContract`, `EveryJobCloses`, `EveryResultIsAcknowledged`; `RunOnlyGranted` is proved
and in no run, since `KeepsContract` says as much.

*Rollouts.* `CampaignsMatchWaves` (`CurrentIsActive` and `ClosedCampaigns`),
`WavesInOrder`, `SuccessIsProven`, `WithinLimit`, `OneUpdatePerEndpoint`, `DispatchedOnceAndFinal`.

*Components and estate.* The properties of these two runs are conjunctions of named
parts, each stated in the module of its component:

| Run's property | Parts |
|---|---|
| `UpdatesAreSafe` | `EndsWhole`, `MixedIsRecoverable`, `ReportsAreTrue`; `UpdatesAreWanted`, `OffersAreSound` |
| `TicketsAreSound` | `SentIsDelivered`, `TwiceOnlyInDoubt`, `SendingIsInHand`, `OneNoticeEach`; `RepliesOnce`, `SeenIsRecorded`, `StampsAgree` |
| `OrderedWorkIsGuarded` | `SafeMeansNotRun`, `CompletedIsManaged`, `BatchTellsItems`, `TokensAreSpent`; `TicketsWorkOnce`, `RunsByConsent`; `NoOverlap`, `OncePerSlot`, `CancelledWasNotSent`, `ActiveHasNext` |
| `TelemetryIsKept` | `CountedOnce`, `AcknowledgedIsStored`; `SettingsAgree`, `NoConfigurationIsLost` |
| `ClosedStaysClosed` | `ClosedTicketIsFinal`, `ClosedSessionIsFinal`, `SlotsGoForward`, `ClosedDefinitionIsFinal`, `RevokedIsFinal` |
| `EverythingEnds` | `UpdateEnds`, `MailSettles`, `EveryReplyIsRecorded`, `BatchEnds`, `TerminalStops`, `UploadsDrain`, `JournalEnds`, `DueIsProcessed`, of the component that moves |
| `EnrollmentIsSound` | `IdentityIsUnique`, `AuthorizedOnce`, `CompletionIsProved` |
| `RemovalsAreTrue` | `OneRemoval`, `RemovalExcludesUpdate`, `RemovalIsJustified`, `RecordIsTrue` |
| `EndedRemovalsStay` | `NeverGivenLater`, `OnlyInstallationRevives` |
| `InventoryIsKept` | `EvidenceIsKept`, `DatesAreTrue`, `CheckpointIsReceived`, `OriginIsReported`, `PagesAgree` |
| `AlertsAreTrue` | `OneAlertEach`, `PassIsTrue` |
| `AccessIsReviewed` | `InventoryReachesPage`, `NobodyIsForgotten`, `GrantIsShown`, `OnePrincipalEach`, `RunIsTrue` |
| `EstateProgresses` | alerts catch up with the inventory; a reported installation gets its heartbeat; a removed endpoint looks removed (`StatusSettled`); due groups of the inventory get read (`InventoryPending`) |

Some of them carry an exception, because the code gives something up there; the
exception says exactly what: `doubt`, `rushed` and
`failedOnce` in the mail, `unfetched` and `untold` in the desk, the editor's
`seen` in `RevokedIsFinal`, `outdated` in `UpdatesAreWanted`, `reopened` in
`ClosedDefinitionIsFinal`, `overtaken` in `SettingsAgree`, `passedOver` in
`NoConfigurationIsLost`, `overlapped` and `revived`
in `OneAlertEach`, namesakes in `NobodyIsForgotten`, a late completion
in `OnlyInstallationRevives`.

## 5. What is proved

Every invariant that a passing run checks, every action property and the refinement of
`JobContract` are theorems: they hold for every number of jobs, computers, requests,
crashes, faults, campaigns, versions, rows, connections and people. The proofs assume
what the `ASSUME`s of the modules say of the constants (limits that are natural numbers,
finite sets where the code counts, disjoint sets of names, every result id of the agent
known to the server, and for rollouts the uniqueness constraints of the tables).
`MCComponents` and `MCEstate` assume what the modules they put together assume.

Few of the properties are inductive. What each needed in addition is a definition of
the proof module, named below; where it was not plain, TLC checked it on the instances of
section 3 before it was proved.

**AgentJobsProofs.** At most once needs that a job whose record is not yet running has
not run (`RunsGuarded`) and what each program counter implies for the record (`TaskOK`).
`BatchFits` needs how much room a poll left (`BatchRoom`) and counts finite sets. For
the evidence, `EvidenceInv` says that no result, record or task claims more than
happened, and that a record is closed only on evidence; the central lemma is that
evidence only grows (`EvidenceGrows`). `ClosedIsReported` needs only which task has yet
to journal a job (`Journaling`).

**JobPipelineProofs.** First the server's rows, all that `server_jobs` checks, for an agent
that may report anything. Then the
pipeline: every step of it is, seen from either end, a step of that end's module or none
(`PipelineIsAgent`, `PipelineIsServer`), so the theorems about the ends hold for the
whole. On these rest `PipelineRunsGranted`, the refinement `PipelineKeepsContract` and,
with what receipts say of each other on both ends (`ReceiptsInv`), `PipelineArchives`,
`PipelineKeepsEvidence` and `PipelineCompletedReal`. `PipelineStartsOnce` closes the
exception of `StartedIsNotReissued`: what this agent sends ends a job, so a job whose
start was confirmed is running or closed.

**RolloutProofs.** `AdminInv` has three facts that make `CurrentIsActive` inductive: a
campaign's current wave is its own, a paused wave has a state to go back to, and a
campaign between the check and the commit of its start stays as it was. `OrderInv` adds
`WavesInOrder` and `ClosedCampaigns`; it needs that terminal targets stay as they are
and that a wave is completed only after an observation that found all its targets
saved as successes, which is why results that come between the two transactions of a
round do no harm. `OneUpdatePerEndpoint` rests on the dispatcher counting jobs under
the endpoints' locks (`DispatchedFree`), and not on `RivalsDoNotRun`, which fails.
`WithinLimit` maps the open jobs of a campaign one to one into the endpoints it
occupies (`OpenJobsOccupy`).

**UpdateTicketProofs.** `UpdateInv` ties the runner's place to the persisted stage
(`StageAllows`) and both to the disk (`FilesMatch`, `BackupMatches`). The service and its
deaths need not appear: it changes the stage only where its confirmation is allowed, and
such a stage already implies whole files. `ReleasesInv` says of every row, of every copy
an editor holds and of every decision what was checked when it was written
(`WantedVersion`); a stale copy is sound, too, only old. `MailInv`: a row that nobody put in doubt is in one sender's hand at
most, and its status with the sender's place says whether the mail server can have
accepted it. `NoticeInv`: of two recent rows one was made by an overlapping request or
after a failure (`OneNoticeEach`), because a request goes on only if all recent rows it
finds have failed. `DeskInv`: the stamps agree in every copy somebody holds, for the notices
there are now (`Agrees`), and a run has one message in hand from fetch to filing
(`InHand`).

**WorkProofs.** `RowSound` relates row, process, token and script of one installation,
`BatchSound` a batch with its process, its items and their rows; the slot follows from
them. `TerminalInv` follows the word "used" from the row, where a ticket is spent under
a lock, to the connection, the peers, what the agent was told and the process;
`TerminalCounts` turns it into numbers. `AutomationInv`: every slot between what is still
to come and what has an occurrence was filled on every endpoint (`Ordered`). That a
schedule has a first slot after an instant, and a finite set a least member
(`LeastMember`), is not induction here but the minimal element of a set ordered by
strict inclusion.

**ComponentsProofs.** Telemetry: one invariant for each stretch of the way of a minute,
`AgentInv`, `ServerInv` and `AcceptedInv`. A row knows the minutes it counted and those
it counted twice (`counted`, `twice`), which states `CountedOnce` without a sum over
digests. Configuration: who works on the settings holds the gate (`GateInv`), and between
two writes the journal, the place of the job task (`TaskInv`) and what the worker has
read (`WorkerInv`) decide what may differ (`AgreeInv`). The module ends with the types
and action properties of all nine components.

**RemovalProofs.** `RowsSound` says what order and job have in common whoever closes
which: an order that ended has a job that is over, but not the other way round.
`RunnerTells` says of the place of each uninstaller what was granted to it and what it
has deleted, and `AgentIsGone` that there is no agent from the moment an uninstaller has
stopped it until nobody works on it. So a later order finds no agent that could start a
second uninstaller, unless the job of the first was closed over its head, which is the
exception in `OneRemoval`. A completion on its way belongs to the installation on the computer or to one
that was removed since (`AgentIsGone`), which is the exception in `OnlyInstallationRevives`. All this holds for any number of orders, operators, unlocked
requests and incidents.

**EstateProofs** puts the five components together. Enrollment: since a clone sends another computer's identity, nothing
can be said of who asks. What is inductive is said of the numbers given out: each names
a row that exists (`Numbered`), a link's status, proof and script go together
(`LinkSound`, `ScriptSound`), uses are counted by what was taken (`Issued`, `Spent`), and
no two rows have a credential in common (`Keyed`). Inventory (`InventoryInv`): there
is one message for every reading, sent or received, and each is as a collector makes it
(`MessagesSound`); the worker posts a reading of its own (`PostingSound`); what is dated
was received, and where there is evidence there is a date (`DatedSound`); what a heartbeat
inherits has its origin in one received (`ProvenSound`); and whichever snapshot the
capacity page chooses has the evidence there is of processor and memory (`FullSound`).
Alerts: `CalmAt` says for each step
of a run what it has put right so far, as long as nobody disturbed it; undisturbed means
alone (`Solo`), and that no inventory is audited twice at once is counted. Access: the
page is as good as the last uploads (`CurrentSound`), which are stored once their run
says so (`UploadSound`); what was granted stands in a rule of a principal linked to whom
it was given (`GrantSound`). That no list is cut is arithmetic on finite sets.

**Only model-checked.** Liveness under fairness (`EveryJobCloses`,
`EveryResultIsAcknowledged`, `EverythingEnds`, `EstateProgresses`) and whatever rests on
`ENABLED`: the prover has no rule for them. No proved module declares a RECURSIVE
operator, and no theorem needs induction over data, which no installed prover can use.

**What the proofs found** in the models, where TLC had passed:

- In `Enrollment`, the test of a token was written so that it held for any link that was
  used up or late; the proof of `AuthorizedOnce` could not be completed. The bounds of
  the run had kept it from showing.
- In `Alerts`, `OneAlertEach` excepted revived alerts of violations only. With three
  inventories an acknowledgement saved over an expired alert about a change doubles
  that one, too; the exception now covers it.
- In `TelemetryConfig`, `NoConfigurationIsLost` failed for four faults: the recovery of
  interrupted jobs leaves every running `configure_telemetry` job alone while a journal
  exists, also the journal of another job
  (`NightOwl.Agent.Windows/Jobs/JobExecutionCoordinator.cs:86`). The property excepts
  such jobs (`passedOver`).
- In `TicketDesk`, `ClosedTicketIsFinal` had named the wrong culprit: what reopens a
  ticket is the save of a request or run that had read it in another status.

## 6. Where the code and what is said of it disagree

1. `cancel_delivered`: the answer of `endpoint_uninstall_cancel`
   (`dashboard/views.py:4220`) says that delivered work cannot be cancelled. It reads
   the row without a lock, so a pull may deliver the job between the test and the save.
2. `restart_replaces`: the jobs document (`docs/rc46-04a-jobs.md:97`) says that restart
   recovery queues the exact journaled result and does not replace its evidence.
   Recovery does not read the journal and reports `JOB_INTERRUPTED`; the journaled
   completion follows as a late result, which does not change the status.
3. `resume_stuck`: an automatic pause of a wave that is paused already saves `paused`
   as the state to resume (`agents/rollout_governance.py:193`). From then on resuming
   the wave succeeds and leaves it paused; only aborting the campaign is left.
4. `rivals`: two campaigns with an endpoint in common, started at the same time, both
   run (`agents/rollout_control.py:105`). Updates still do not overlap, see section 5.
5. `recovery_overtakes`: the worker loop runs the recovery of interrupted jobs after
   every recovery of the telemetry journal (`NightOwl.Agent.Windows/Worker.cs:141`),
   also while the job task executes a job, which is then closed and reported as one of
   an earlier process.

Behaviour met while modelling that no document denies, which the models keep and the
exceptions of section 4 name:

- A save of a release row read before its revocation offers the release again
  (`agents/services.py:752`, `dashboard/views.py:4911`); a save of a ticket read before
  it was closed reopens it (`tickets/services/ticket_workflow.py:175`).
- The scheduler may reopen a cancelled definition as paused
  (`agents/automation.py:430`).
- A sender that dies leaves its row `sending` for good; a message that was fetched by a
  run that dies stays marked seen and is not processed.
- A rollback that is confirmed just when its wait times out is reported as
  `rollback_failed`; three exceptions before the backup leave the update active
  without a runner (`NightOwl.Agent.Updater/Program.cs:406`, `424`, `493`).
- The batch process of a remote installation that dies keeps the global slot until the
  sweep finds it.
- The answer to an enrollment that is lost strands the computer: the row exists and a
  new attempt has to prove a credential nobody has. A completed deployment may still
  become failed or expired.
- Closing a job that removes the agent from the panel (`dashboard/views.py:4676`) or by the
  administrative timeout leaves its order active, and every later order is refused
  (`dashboard/views.py:4122`); a mark as failed that races a completion overwrites it.
  An uninstaller whose success was stored but not answered reports a failure under the
  same key, which is a conflict.
- After a scheduled collection (other than after one of a job) heartbeats go on giving
  what they inherit the origin of the last heartbeat, though the collection has read it
  anew (`agents/services.py:1400`).
- A status sweep that a removal overtakes writes online or offline over `uninstalled`
  (`agents/management/commands/mark_offline_agents.py:53`) until the next sweep.
- A result that says `queued` or `sent` takes a started job back to delivery
  (`agents/views.py:1733`); only a client other than this agent would send one.
- A ticket may be resolved and nobody told, when the template of that notice is not active
  (`tickets/services/automation_outbox.py:162`).
- A completion of an installation that arrives after the agent was removed makes the
  endpoint an installed one again (`agents/views.py:621`).
- An agent that is restarted while the uninstaller works reports the job as interrupted.
- The evaluator of conditions resolves every alert of the software policies
  (`agents/alerting.py:308`) and the policies make a new one in the same run; an
  acknowledgement that was read before brings a resolved alert back. A run that takes
  more than half an hour is declared dead while it works, and the next one begins
  beside it; of two that open the same violation one loses its whole evaluation and
  reports success.
- On the review page a namesake who keeps access hides that the other one loses it; a
  group with more members than the limit is cut without being marked as limited.

## 7. What is left

On the proving side liveness, which stays with TLC. On the modelling side the job states
of update, restart and `configure_telemetry` on the server, retention and quarantine of
the agent's files, the composition of `UpdateTransaction` with `JobPipeline` and
`Rollout`, and of `RemoteInstall` with `Enrollment`. What the console only lists, filters
and draws is not modelled.

## 8. Running it

```
tlasany Rollout.tla
tlc -workers 2 -config rollout.cfg MCRollout
tlapm RolloutProofs.tla
```

Each run's module and configuration are listed in `PROJECT.json`. With two workers
`components` (480 000 states) and `estate` (830 000) take about four
minutes each, `pipeline_crash` (three million) and `server_jobs` (1.5 million) about two and a half, `agent_jobs` (955 000), `rollout` (767 000) and `pipeline_live` (108 000) under a minute each, the
others a few seconds. Of the proof modules
`WorkProofs` and `EstateProofs` take about five minutes each, the others one or two.
