---------------------------- MODULE TelemetryConfig ----------------------------
(***************************************************************************)
(* Configuring telemetry by a job: the settings on disk, in memory and in  *)
(* the running pipeline, the journal that survives a stop, and the worker  *)
(* loop that finishes what a journal says was not finished.                *)
(*                                                                         *)
(* The job task and the worker loop run side by side.  A semaphore orders  *)
(* what they do to the settings, but the worker reads the journal before   *)
(* it waits, and then recovers "interrupted" jobs whoever runs.            *)
(***************************************************************************)
EXTENDS Naturals

CONSTANTS
  ConfigJob,        \* configure_telemetry jobs; each asks for settings of its own
  PlainJob,         \* other jobs
  Default,          \* the settings before all jobs
  NoConfigJob,
  MaxConfigFaults   \* bound: stops of the process, pipelines that do not get ready

ConfigAssumption ==
  /\ NoConfigJob \notin ConfigJob \cup PlainJob /\ Default \notin ConfigJob
  /\ ConfigJob \cap PlainJob = {} /\ MaxConfigFaults \in Nat

AnyJob == ConfigJob \cup PlainJob
Settings == ConfigJob \cup {Default}

VARIABLES
  disk,       \* settings in the config file
  live,       \* settings in AgentConfig
  effective,  \* TelemetryRuntime.Effective, NoConfigJob if nothing is ready
  journal,    \* telemetry-configuration.json
  record,     \* local job state
  results,    \* outcomes queued for each job
  gate,       \* who holds TelemetryConfigurationService._gate
  task,       \* the job task: job and progress
  worker,     \* the worker loop: progress and the journal it has read
  overtaken,  \* history: the worker got the gate with a journal that had changed
  passedOver, \* history: running jobs left alone for the journal of another job
  configFaults

files == <<disk, journal, record, results>>
configVars == <<files, live, effective, gate, task, worker, overtaken, passedOver, configFaults>>

NoJournal == [job |-> NoConfigJob, previous |-> Default, rollback |-> FALSE, result |-> "none"]
TaskIdle == [job |-> NoConfigJob, at |-> "idle", outcome |-> "none"]
WorkerIdle == [at |-> "idle", read |-> NoJournal, outcome |-> "none", boot |-> FALSE]

ConfigInit ==
  /\ disk = Default /\ live = Default /\ effective = Default
  /\ journal = NoJournal
  /\ record = [j \in AnyJob |-> "none"] /\ results = [j \in AnyJob |-> {}]
  /\ gate = "free" /\ task = TaskIdle /\ worker = WorkerIdle /\ overtaken = FALSE
  /\ passedOver = {} /\ configFaults = 0

ConfigFault == configFaults < MaxConfigFaults /\ configFaults' = configFaults + 1
NoConfigFault == UNCHANGED configFaults
RecoveryPending == journal # NoJournal
Report(j, outcome) == results' = [results EXCEPT ![j] = @ \cup {outcome}]

----------------------------------------------------------------------------
(* What both do while they hold the gate.  who says for which journal.     *)

\* The journal in the holder's hands: the task wrote it, the worker read it earlier.
Held(who) == IF who = "task" THEN journal ELSE worker.read
Advance(who, at, outcome) ==
  IF who = "task" THEN task' = [task EXCEPT !.at = at, !.outcome = outcome] /\ UNCHANGED worker
  ELSE worker' = [worker EXCEPT !.at = at, !.outcome = outcome] /\ UNCHANGED task
Holds(who, at) == gate = who /\ (IF who = "task" THEN task.at ELSE worker.at) = at

\* The requested settings are saved, applied, and the pipeline is started with them, and
\* gets ready or not.  A journal that asks for its rollback goes there at once.
ApplyRequested(who) ==
  LET held == Held(who) IN
  /\ Holds(who, "apply")
  /\ \/ /\ ~held.rollback
        /\ disk' = held.job /\ live' = held.job /\ effective' = held.job
        /\ Advance(who, "conclude", "completed") /\ NoConfigFault /\ UNCHANGED journal
     \/ /\ ~held.rollback /\ ConfigFault
        /\ disk' = held.job /\ live' = held.job /\ effective' = NoConfigJob
        /\ journal' = [held EXCEPT !.rollback = TRUE] /\ Advance(who, "rollback", "failed")
     \/ /\ held.rollback
        /\ journal' = held /\ Advance(who, "rollback", "failed") /\ NoConfigFault
        /\ UNCHANGED <<disk, live, effective>>
  /\ UNCHANGED <<record, results, gate, overtaken, passedOver>>

\* The previous settings come back; when their pipeline does not get ready either, the
\* journal stays and the gate is released.
RollBack(who) ==
  LET held == Held(who) IN
  /\ Holds(who, "rollback")
  /\ disk' = held.previous /\ live' = held.previous
  /\ \/ effective' = held.previous /\ Advance(who, "conclude", "failed") /\ NoConfigFault /\ UNCHANGED gate
     \/ effective' = NoConfigJob /\ Advance(who, "raise", "none") /\ ConfigFault /\ gate' = "free"
  /\ UNCHANGED <<journal, record, results, overtaken, passedOver>>

\* The result is saved in the journal, then queued, then the journal is deleted.
Conclude(who) ==
  /\ Holds(who, "conclude")
  /\ journal' = [Held(who) EXCEPT !.result = IF who = "task" THEN task.outcome ELSE worker.outcome]
  /\ Advance(who, "queue", IF who = "task" THEN task.outcome ELSE worker.outcome)
  /\ UNCHANGED <<disk, live, effective, record, results, gate, configFaults, overtaken, passedOver>>
QueueResult(who) ==
  /\ Holds(who, "queue")
  /\ IF who = "task" THEN Report(journal.job, task.outcome)
     ELSE Report(worker.read.job, worker.outcome)
  /\ Advance(who, "forget", IF who = "task" THEN task.outcome ELSE worker.outcome)
  /\ UNCHANGED <<disk, live, effective, journal, record, gate, configFaults, overtaken, passedOver>>
DeleteJournal(who) ==
  /\ Holds(who, "forget") /\ journal' = NoJournal /\ gate' = "free"
  /\ Advance(who, IF who = "task" THEN "finish" ELSE "interrupted", IF who = "task" THEN task.outcome ELSE "none")
  /\ UNCHANGED <<disk, live, effective, record, results, configFaults, overtaken, passedOver>>

----------------------------------------------------------------------------
(* The job task.                                                           *)

Begin(j) ==
  /\ task = TaskIdle /\ record[j] = "none" /\ ~worker.boot
  /\ record' = [record EXCEPT ![j] = "running"]
  /\ task' = [job |-> j, at |-> IF j \in ConfigJob THEN "gate" ELSE "run", outcome |-> "none"]
  /\ UNCHANGED <<disk, live, effective, journal, results, gate, worker, configFaults, overtaken, passedOver>>

RunPlainJob ==
  /\ task.at = "run" /\ task' = [task EXCEPT !.at = "finish", !.outcome = "completed"]
  /\ UNCHANGED <<files, live, effective, gate, worker, configFaults, overtaken, passedOver>>

\* ConfigureAsync: no new journal over one that is not finished.
TakeGate ==
  /\ task.at = "gate" /\ gate = "free"
  /\ IF RecoveryPending
     THEN task' = [task EXCEPT !.at = "raise"] /\ UNCHANGED <<journal, gate>>
     ELSE /\ journal' = [NoJournal EXCEPT !.job = task.job, !.previous = live]
          /\ gate' = "task" /\ task' = [task EXCEPT !.at = "apply"]
  /\ UNCHANGED <<disk, live, effective, record, results, worker, configFaults, overtaken, passedOver>>

\* The executor's handler: with a journal left the job is reported as running still, and
\* its record stays so.
Raised ==
  /\ task.at = "raise"
  /\ task' = [task EXCEPT !.at = "finish", !.outcome = IF RecoveryPending THEN "running" ELSE "failed"]
  /\ UNCHANGED <<files, live, effective, gate, worker, configFaults, overtaken, passedOver>>

\* MarkFinal, the result journaled and queued by the job runtime.
FinishJob ==
  /\ task.at = "finish" /\ task' = TaskIdle
  /\ record' = IF task.outcome = "running" THEN record ELSE [record EXCEPT ![task.job] = "final"]
  /\ Report(task.job, task.outcome)
  /\ UNCHANGED <<disk, live, effective, journal, gate, worker, configFaults, overtaken, passedOver>>

----------------------------------------------------------------------------
(* The worker loop.                                                        *)

\* RecoverAsync reads the journal and only then waits for the gate.
ReadJournal ==
  /\ worker.at = "idle" /\ RecoveryPending
  /\ worker' = [worker EXCEPT !.at = "gate", !.read = journal, !.outcome = journal.result]
  /\ UNCHANGED <<files, live, effective, gate, task, configFaults, overtaken, passedOver>>
RecoverJournal ==
  /\ worker.at = "gate" /\ gate = "free" /\ gate' = "worker"
  /\ worker' = [worker EXCEPT !.at = IF worker.read.result = "none" THEN "apply" ELSE "queue"]
  /\ overtaken' = (overtaken \/ worker.read # journal)
  /\ UNCHANGED <<files, live, effective, task, passedOver, configFaults>>

\* A recovery that fails is tried again in the next round; a start goes on without it.
RecoveryRaised ==
  /\ worker.at = "raise"
  /\ worker' = IF worker.boot THEN [worker EXCEPT !.at = "interrupted"] ELSE WorkerIdle
  /\ UNCHANGED <<files, live, effective, gate, task, configFaults, overtaken, passedOver>>

\* RecoverInterruptedJobsAsync: records of queued results become final; a job that is
\* running is closed as interrupted, unless it configures telemetry and has a journal.
Concluded(j) == results[j] \ {"running"} # {}
Lost(j) == record[j] = "running" /\ ~Concluded(j) /\ ~(j \in ConfigJob /\ RecoveryPending)
RecoverInterrupted ==
  /\ worker.at = "interrupted" \/ (worker.at = "idle" /\ worker.boot /\ ~RecoveryPending)
  /\ record' = [j \in AnyJob |-> IF Lost(j) \/ (record[j] = "running" /\ Concluded(j)) THEN "final" ELSE record[j]]
  /\ results' = [j \in AnyJob |-> IF Lost(j) THEN results[j] \cup {"interrupted"} ELSE results[j]]
  /\ passedOver' = passedOver \cup {j \in ConfigJob :
       record[j] = "running" /\ ~Concluded(j) /\ RecoveryPending /\ j \notin {journal.job, task.job}}
  /\ worker' = WorkerIdle
  /\ UNCHANGED <<disk, live, effective, journal, gate, task, configFaults, overtaken>>

Stop ==
  /\ ConfigFault /\ worker.at # "stopped"
  /\ worker' = [WorkerIdle EXCEPT !.at = "stopped", !.boot = TRUE] /\ task' = TaskIdle /\ gate' = "free" /\ effective' = NoConfigJob
  /\ UNCHANGED <<files, live, overtaken, passedOver>>
\* The settings are loaded and the pipeline starts with them.
StartUp ==
  /\ worker.at = "stopped" /\ worker' = [worker EXCEPT !.at = "idle"]
  /\ live' = disk /\ effective' = disk
  /\ UNCHANGED <<files, gate, task, configFaults, overtaken, passedOver>>

HolderStep(who) ==
  ApplyRequested(who) \/ RollBack(who) \/ Conclude(who) \/ QueueResult(who) \/ DeleteJournal(who)
TaskStep == RunPlainJob \/ TakeGate \/ Raised \/ FinishJob \/ HolderStep("task")
WorkerStep == ReadJournal \/ RecoverJournal \/ RecoveryRaised \/ RecoverInterrupted \/ StartUp \/ HolderStep("worker")

ConfigNext == (\E j \in AnyJob : Begin(j)) \/ TaskStep \/ WorkerStep \/ Stop

ConfigFairness == WF_configVars(TaskStep) /\ SF_configVars(RecoverJournal) /\ WF_configVars(WorkerStep)
ConfigSpec == ConfigInit /\ [][ConfigNext]_configVars /\ ConfigFairness

----------------------------------------------------------------------------
(* Properties.                                                             *)

ConfigTypeOK ==
  /\ disk \in Settings /\ live \in Settings /\ effective \in Settings \cup {NoConfigJob}
  /\ journal.job \in ConfigJob \cup {NoConfigJob} /\ journal.previous \in Settings
  /\ record \in [AnyJob -> {"none", "running", "final"}]
  /\ \A j \in AnyJob : results[j] \subseteq {"running", "completed", "failed", "interrupted"}
  /\ gate \in {"free", "task", "worker"}

\* When nobody is at it and nothing is left to finish, file, memory and pipeline agree,
\* unless the worker has finished a journal that somebody else had finished before.
SettingsAgree ==
  ~overtaken /\ gate = "free" /\ ~RecoveryPending /\ worker.at # "stopped"
    => disk = live /\ effective = disk
\* A job that configures telemetry is executed, in the journal, reported, or about to
\* be closed as interrupted: a stop in between does not lose it.
NoConfigurationIsLost ==
  \A j \in ConfigJob : record[j] = "running" =>
    \/ task.job = j \/ journal.job = j \/ results[j] # {} \/ j \in passedOver
    \/ worker.boot \/ worker.at = "interrupted"
ConfigurationIsKept == SettingsAgree /\ NoConfigurationIsLost

\* A journal is finished, in spite of stops and of pipelines that do not get ready.
JournalEnds == []<>~RecoveryPending

\* A durable result is retransmitted, never re-applied.
DurableResultIsFinal ==
  [][\A j \in ConfigJob : results[j] \cap {"completed", "failed"} # {}
       => ~(ApplyRequested("worker") /\ worker.read.job = j)]_configVars
\* Only a job of a previous process is closed as interrupted.
OnlyLostIsInterrupted ==
  [][\A j \in AnyJob : "interrupted" \in results'[j] \ results[j] => task.job # j]_configVars
=============================================================================
