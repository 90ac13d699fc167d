------------------------------ MODULE AgentJobs -----------------------------
(***************************************************************************)
(* The agent's end of the jobs-v2 protocol: the durable files (inbox, job  *)
(* store, outcome journal, pending results, archive of acknowledged ones), *)
(* the three tasks of JobRuntime that work on them, and restart recovery.  *)
(*                                                                         *)
(* Every write of a file is an action of its own, since the process may    *)
(* stop between any two of them.  The answers of the server are left open: *)
(* what is shown here holds whatever the server does.                      *)
(*                                                                         *)
(* Jobs are ordinary ones: those that an external runner or the updater    *)
(* finishes (update, repair, uninstall, restart, configure_telemetry) are  *)
(* not modelled here.                                                      *)
(***************************************************************************)
EXTENDS JobTypes, FiniteSets, Integers

CONSTANTS
  InvalidAction, \* operational actions OperationalActions.Validate refuses
  InvalidJob,    \* other jobs whose type or parameters Prepare refuses
  AgentExpiry,   \* jobs whose expires_at may pass by the agent's clock
  PollLimit,     \* the dispatcher stops polling at this inbox size (24)
  InboxLimit,    \* the inbox admits no more than this (32)
  TakeLimit,     \* jobs taken from one response (5)
  MaxCrashes,    \* bound: how often the process stops
  MaxFaults      \* bound: how many file writes fail

ASSUME AgentAssumption ==
  /\ IsFiniteSet(Job)
  /\ InvalidAction \subseteq Job
  /\ InvalidJob \subseteq Job
  /\ AgentExpiry \subseteq Job
  /\ PollLimit \in Nat /\ InboxLimit \in Nat /\ TakeLimit \in Nat
  /\ MaxCrashes \in Nat /\ MaxFaults \in Nat

VARIABLES
  inbox,         \* jobs in the durable inbox
  jobStore,      \* JobStore: "none", "validated", "running" or a final status
  outcome,       \* journal of exact outcomes: an outcome or "none"
  pending,       \* PendingResultQueue
  archive,       \* ids of acknowledged results
  mode,          \* the process: "up", "down" or "recovering"
  disp,          \* the Dispatch task
  exec,          \* the Execute task, and recovery while that goes on
  upl,           \* the Upload task
  stale,         \* jobs that have expired by the agent's clock
  runs,          \* history: how often the operation was carried out
  effect,        \* history: "none", or how the operation ended
  crashes, faults

files == <<inbox, jobStore, outcome, pending, archive>>
tasks == <<disp, exec, upl>>
history == <<runs, effect>>
bounds == <<crashes, faults>>
agentVars == <<files, mode, tasks, stale, history, bounds>>

-----------------------------------------------------------------------------
(* Results and their identity. *)

Tag == {"job", "recovered"}

AgentResultId == Tag \X Job \X Status

\* ResultIdentity: the status is part of the id.
ResultOf(j, o) == [id |-> <<"job", j, StatusOf[o]>>, job |-> j, outcome |-> o]

\* Recovery enqueues without an id, so the record gets a fresh one.
RecoveredResult(j) ==
  [id |-> <<"recovered", j, "failed">>, job |-> j, outcome |-> "lost_to_restart"]

AgentResult == [id : AgentResultId, job : Job, outcome : FinalOutcome]

PendingFor(j) == {r \in pending : r.job = j}
HasResult(r) == r.id \in archive \/ \E q \in pending : q.id = r.id

\* Enqueue replaces the file of the same id.
Enqueued(r) == {q \in pending : q.id # r.id} \cup {r}

Final(s) == s \in FinalStatus

-----------------------------------------------------------------------------
NoJob == "none"
NoResult == [id |-> <<>>, job |-> NoJob, outcome |-> "none"]

Idle == [pc |-> "idle", job |-> NoJob, out |-> "none"]
DispIdle == [pc |-> "idle", todo |-> {}, job |-> NoJob, out |-> "none"]
UplIdle == [pc |-> "idle", res |-> NoResult]

ExecPc ==
  {"idle", "starting", "granted", "running", "persist", "finish",
   "journal", "queue", "enqueue", "remove", "lost_final", "lost_queue"}

AgentTypeOK ==
  /\ inbox \subseteq Job
  /\ jobStore \in [Job -> FinalStatus \cup {"none", "validated", "running"}]
  /\ outcome \in [Job -> FinalOutcome \cup {"none"}]
  /\ pending \subseteq AgentResult
  /\ archive \subseteq AgentResultId
  /\ mode \in {"up", "down", "recovering"}
  /\ disp \in [pc : {"idle", "pulling", "accepting", "journal", "queue", "enqueue"},
               todo : SUBSET Job, job : Job \cup {NoJob},
               out : FinalOutcome \cup {"none"}]
  /\ exec \in [pc : ExecPc, job : Job \cup {NoJob}, out : FinalOutcome \cup {"none"}]
  /\ upl \in [pc : {"idle", "sending", "acked"}, res : AgentResult \cup {NoResult}]
  /\ stale \subseteq Job
  /\ runs \in [Job -> Nat]
  /\ effect \in [Job -> {"none", "completed", "failed"}]
  /\ crashes \in 0..MaxCrashes
  /\ faults \in 0..MaxFaults

AgentInit ==
  /\ inbox = {} /\ pending = {} /\ archive = {} /\ stale = {}
  /\ jobStore = [j \in Job |-> "none"]
  /\ outcome = [j \in Job |-> "none"]
  /\ mode = "up"
  /\ disp = DispIdle /\ exec = Idle /\ upl = UplIdle
  /\ runs = [j \in Job |-> 0]
  /\ effect = [j \in Job |-> "none"]
  /\ crashes = 0 /\ faults = 0

\* JobJournal.Result: a final outcome is never overwritten.  Ordinary jobs
\* journal final outcomes only.
Journaled(j, o) ==
  [outcome EXCEPT ![j] = IF @ = "none" THEN o ELSE @]

AgentExpire(j) ==
  /\ j \in AgentExpiry \ stale
  /\ stale' = stale \cup {j}
  /\ UNCHANGED <<files, mode, tasks, history, bounds>>

\* What JobExecutionPolicy.Prepare answers for a job it has no final or running
\* record of: the outcome it refuses with, or "none" to let it execute.
Refusal(j) ==
  IF j \in stale THEN "expired"
  ELSE IF j \in InvalidAction \cup InvalidJob THEN "rejected"
  ELSE "none"

-----------------------------------------------------------------------------
(* Dispatch: poll, then store each job of the batch in the inbox. *)

DispPull ==
  /\ mode = "up" /\ disp.pc = "idle"
  /\ Cardinality(inbox) < PollLimit
  /\ disp' = [disp EXCEPT !.pc = "pulling"]
  /\ UNCHANGED <<files, mode, exec, upl, stale, history, bounds>>

\* Of a longer response only the first jobs are taken.
PullAnswered(S) ==
  /\ disp.pc = "pulling"
  /\ \E T \in SUBSET S :
       /\ T = S \/ Cardinality(T) = TakeLimit
       /\ Cardinality(T) <= TakeLimit
       /\ disp' = [disp EXCEPT !.pc = "accepting", !.todo = T]
  /\ UNCHANGED <<files, mode, exec, upl, stale, history, bounds>>

\* Timeout or error: nothing of the batch is kept.
PullFailed ==
  /\ disp.pc = "pulling"
  /\ disp' = DispIdle
  /\ UNCHANGED <<files, mode, exec, upl, stale, history, bounds>>

\* JobJournal.Accept.  A full inbox throws, which drops the rest of the batch.
Accept(j) ==
  /\ disp.pc = "accepting" /\ j \in disp.todo \ InvalidAction
  /\ \/ /\ j \in inbox \/ outcome[j] # "none"
        /\ disp' = [disp EXCEPT !.todo = @ \ {j}]
        /\ UNCHANGED inbox
     \/ /\ j \notin inbox /\ outcome[j] = "none"
        /\ Cardinality(inbox) < InboxLimit
        /\ inbox' = inbox \cup {j}
        /\ disp' = [disp EXCEPT !.todo = @ \ {j}]
     \/ /\ j \notin inbox /\ outcome[j] = "none"
        /\ Cardinality(inbox) >= InboxLimit
        /\ disp' = DispIdle
        /\ UNCHANGED inbox
  /\ UNCHANGED <<jobStore, outcome, pending, archive, mode, exec, upl, stale,
                 history, bounds>>

\* Mutant: a rejected action is closed and not reported.
RejectActionSilently(j) ==
  /\ disp.pc = "accepting" /\ j \in disp.todo \cap InvalidAction
  /\ disp' = [disp EXCEPT !.todo = @ \ {j}]
  /\ jobStore' = [jobStore EXCEPT ![j] = IF Final(@) THEN @ ELSE StatusOf[Refusal(j)]]
  /\ UNCHANGED <<inbox, outcome, pending, archive, mode, exec, upl, stale,
                 history, bounds>>

\* An operational action that does not validate never enters the inbox.  Prepare
\* marks it final in the store; its result is journaled by the caller after that.
RejectAction(j) ==
  /\ disp.pc = "accepting" /\ j \in disp.todo \cap InvalidAction
  /\ \/ /\ Final(jobStore[j])
        /\ disp' = [pc |-> "journal", todo |-> disp.todo \ {j}, job |-> j,
                    out |-> "duplicate"]
        /\ UNCHANGED jobStore
     \/ /\ ~Final(jobStore[j])
        /\ disp' = [pc |-> "journal", todo |-> disp.todo \ {j}, job |-> j,
                    out |-> Refusal(j)]
        /\ jobStore' = [jobStore EXCEPT ![j] = StatusOf[Refusal(j)]]
  /\ UNCHANGED <<inbox, outcome, pending, archive, mode, exec, upl, stale,
                 history, bounds>>

DispJournal ==
  /\ disp.pc = "journal"
  /\ outcome' = Journaled(disp.job, disp.out)
  /\ disp' = [disp EXCEPT !.pc = "queue"]
  /\ UNCHANGED <<inbox, jobStore, pending, archive, mode, exec, upl, stale,
                 history, bounds>>

\* Queue looks for the result first and enqueues it afterwards, without a lock
\* over the two.
DispQueue ==
  /\ disp.pc = "queue"
  /\ disp' = [disp EXCEPT !.pc = IF HasResult(ResultOf(disp.job, disp.out))
                                 THEN "accepting" ELSE "enqueue"]
  /\ UNCHANGED <<files, mode, exec, upl, stale, history, bounds>>

DispEnqueue ==
  /\ disp.pc = "enqueue"
  /\ pending' = Enqueued(ResultOf(disp.job, disp.out))
  /\ disp' = [disp EXCEPT !.pc = "accepting"]
  /\ UNCHANGED <<inbox, jobStore, outcome, archive, mode, exec, upl, stale,
                 history, bounds>>

DispDone ==
  /\ disp.pc = "accepting" /\ disp.todo = {}
  /\ disp' = DispIdle
  /\ UNCHANGED <<files, mode, exec, upl, stale, history, bounds>>

-----------------------------------------------------------------------------
(* Execute: one job at a time from the inbox. *)

ExecAt(pc) == exec.pc = pc
ExecGo(pc) == exec' = [exec EXCEPT !.pc = pc]
ExecWith(pc, o) == exec' = [pc |-> pc, job |-> exec.job, out |-> o]
Pick(j) == mode = "up" /\ ExecAt("idle") /\ j \in inbox

\* A locally final operation is never executed again.
ExecDrop(j) ==
  /\ Pick(j) /\ Final(jobStore[j])
  /\ inbox' = inbox \ {j}
  /\ UNCHANGED <<jobStore, outcome, pending, archive, mode, tasks, stale,
                 history, bounds>>

\* Mutant: a job of unknown outcome is tried again.
ExecDoubtRetries(j) ==
  /\ Pick(j) /\ jobStore[j] = "running"
  /\ exec' = [pc |-> "starting", job |-> j, out |-> "none"]
  /\ UNCHANGED <<files, mode, disp, upl, stale, history, bounds>>

\* A running record nobody owns: the outcome is in doubt and is not retried.
ExecDoubt(j) ==
  /\ Pick(j) /\ jobStore[j] = "running"
  /\ exec' = [pc |-> "persist", job |-> j, out |-> "unconfirmed"]
  /\ UNCHANGED <<files, mode, disp, upl, stale, history, bounds>>

\* Mutant: a record that is final is prepared again.
ExecValidateAny(j) ==
  /\ Pick(j)
  /\ \/ /\ Refusal(j) = "none"
        /\ jobStore' = [jobStore EXCEPT ![j] = "validated"]
        /\ exec' = [pc |-> "starting", job |-> j, out |-> "none"]
     \/ /\ Refusal(j) # "none"
        /\ jobStore' = [jobStore EXCEPT ![j] = StatusOf[Refusal(j)]]
        /\ exec' = [pc |-> "journal", job |-> j, out |-> Refusal(j)]
  /\ UNCHANGED <<inbox, outcome, pending, archive, mode, disp, upl, stale,
                 history, bounds>>

ExecValidate(j) ==
  /\ Pick(j) /\ jobStore[j] \in {"none", "validated"}
  /\ \/ /\ Refusal(j) = "none"
        /\ jobStore' = [jobStore EXCEPT ![j] = "validated"]
        /\ exec' = [pc |-> "starting", job |-> j, out |-> "none"]
     \/ /\ Refusal(j) # "none"
        /\ jobStore' = [jobStore EXCEPT ![j] = StatusOf[Refusal(j)]]
        /\ exec' = [pc |-> "journal", job |-> j, out |-> Refusal(j)]
  /\ UNCHANGED <<inbox, outcome, pending, archive, mode, disp, upl, stale,
                 history, bounds>>

StartGranted ==
  /\ ExecAt("starting") /\ ExecGo("granted")
  /\ UNCHANGED <<files, mode, disp, upl, stale, history, bounds>>

\* No answer authorizes nothing: the job stays in the inbox.
StartFailed ==
  /\ ExecAt("starting") /\ exec' = Idle
  /\ UNCHANGED <<files, mode, disp, upl, stale, history, bounds>>

StartRefused ==
  /\ ExecAt("starting")
  /\ ExecWith("persist", "revoked")
  /\ UNCHANGED <<files, mode, disp, upl, stale, history, bounds>>

\* JobExecutor.ExecuteAsync prepares the job a second time.
ExecBegin ==
  /\ ExecAt("granted")
  /\ LET j == exec.job IN
     \/ /\ Final(jobStore[j])
        /\ ExecWith("journal", "duplicate")
        /\ UNCHANGED jobStore
     \/ /\ ~Final(jobStore[j]) /\ Refusal(j) = "none"
        /\ jobStore' = [jobStore EXCEPT ![j] = "running"]
        /\ ExecGo("running")
     \/ /\ ~Final(jobStore[j]) /\ Refusal(j) # "none"
        /\ jobStore' = [jobStore EXCEPT ![j] = StatusOf[Refusal(j)]]
        /\ ExecWith("persist", Refusal(j))
  /\ UNCHANGED <<inbox, outcome, pending, archive, mode, disp, upl, stale,
                 history, bounds>>

\* Mutant: how the operation ended is not looked at.
PerformHopefully(o) ==
  /\ ExecAt("running")
  /\ runs' = [runs EXCEPT ![exec.job] = @ + 1]
  /\ effect' = [effect EXCEPT ![exec.job] = o]
  /\ ExecWith("persist", "completed")
  /\ UNCHANGED <<files, mode, disp, upl, stale, bounds>>

\* The operation itself, which ends well or not.
Perform(o) ==
  /\ ExecAt("running")
  /\ runs' = [runs EXCEPT ![exec.job] = @ + 1]
  /\ effect' = [effect EXCEPT ![exec.job] = o]
  /\ ExecWith("persist", o)
  /\ UNCHANGED <<files, mode, disp, upl, stale, bounds>>

\* Mutant: the store is closed first, the journal written after that.
ExecPersistLater ==
  /\ ExecAt("persist") /\ ExecGo("finish")
  /\ UNCHANGED <<files, mode, disp, upl, stale, history, bounds>>

\* JobExecutionPolicy.MarkFinal: the journal first, then the store.
ExecPersist ==
  /\ ExecAt("persist")
  /\ outcome' = Journaled(exec.job, exec.out)
  /\ ExecGo("finish")
  /\ UNCHANGED <<inbox, jobStore, pending, archive, mode, disp, upl, stale,
                 history, bounds>>

\* PersistOutcome is followed by Queue, ExecuteAsync by the journal once more.
ExecFinish ==
  /\ ExecAt("finish")
  /\ jobStore' = [jobStore EXCEPT ![exec.job] = StatusOf[exec.out]]
  /\ ExecGo(IF exec.out \in {"revoked", "unconfirmed"} THEN "queue" ELSE "journal")
  /\ UNCHANGED <<inbox, outcome, pending, archive, mode, disp, upl, stale,
                 history, bounds>>

ExecJournal ==
  /\ ExecAt("journal")
  /\ outcome' = Journaled(exec.job, exec.out)
  /\ ExecGo("queue")
  /\ UNCHANGED <<inbox, jobStore, pending, archive, mode, disp, upl, stale,
                 history, bounds>>

ExecQueue ==
  /\ ExecAt("queue")
  /\ ExecGo(IF HasResult(ResultOf(exec.job, exec.out)) THEN "remove" ELSE "enqueue")
  /\ UNCHANGED <<files, mode, disp, upl, stale, history, bounds>>

ExecEnqueue ==
  /\ ExecAt("enqueue")
  /\ pending' = Enqueued(ResultOf(exec.job, exec.out))
  /\ ExecGo("remove")
  /\ UNCHANGED <<inbox, jobStore, outcome, archive, mode, disp, upl, stale,
                 history, bounds>>

ExecRemove ==
  /\ ExecAt("remove")
  /\ inbox' = inbox \ {exec.job}
  /\ exec' = Idle
  /\ UNCHANGED <<jobStore, outcome, pending, archive, mode, disp, upl, stale,
                 history, bounds>>

-----------------------------------------------------------------------------
(* Upload: queue what the journal holds, send what is pending. *)

Settled(j) == ResultOf(j, outcome[j]).id \in archive

UplScan(j) ==
  /\ mode = "up" /\ upl.pc = "idle" /\ outcome[j] # "none"
  /\ \/ /\ Settled(j)
        /\ outcome' = [outcome EXCEPT ![j] = "none"]
        /\ UNCHANGED pending
     \/ /\ ~HasResult(ResultOf(j, outcome[j]))
        /\ pending' = Enqueued(ResultOf(j, outcome[j]))
        /\ UNCHANGED outcome
  /\ UNCHANGED <<inbox, jobStore, archive, mode, tasks, stale, history, bounds>>

\* RecoverFinalResult closes the local record before the result is sent.
UplSend(r) ==
  /\ mode = "up" /\ upl.pc = "idle" /\ r \in pending
  /\ jobStore' = [jobStore EXCEPT ![r.job] =
                 IF @ \in {"validated", "running"} THEN StatusOf[r.outcome] ELSE @]
  /\ upl' = [pc |-> "sending", res |-> r]
  /\ UNCHANGED <<inbox, outcome, pending, archive, mode, disp, exec, stale,
                 history, bounds>>

\* MarkSent moves the record to the archive, Acknowledged deletes the outcome.
ResultAccepted ==
  /\ upl.pc = "sending"
  /\ pending' = {q \in pending : q.id # upl.res.id}
  /\ archive' = archive \cup {upl.res.id}
  /\ upl' = [upl EXCEPT !.pc = "acked"]
  /\ UNCHANGED <<inbox, jobStore, outcome, mode, disp, exec, stale, history, bounds>>

ResultFailed ==
  /\ upl.pc = "sending"
  /\ upl' = UplIdle
  /\ UNCHANGED <<files, mode, disp, exec, stale, history, bounds>>

UplAcknowledge ==
  /\ upl.pc = "acked"
  /\ outcome' = [outcome EXCEPT ![upl.res.job] = "none"]
  /\ upl' = UplIdle
  /\ UNCHANGED <<inbox, jobStore, pending, archive, mode, disp, exec, stale,
                 history, bounds>>

-----------------------------------------------------------------------------
(* A file write that throws. *)

Fault == faults < MaxFaults /\ faults' = faults + 1

\* Any exception of Dispatch drops the rest of the batch.
DispFault ==
  /\ Fault
  /\ disp.pc \in {"accepting", "journal", "queue", "enqueue"}
  /\ disp' = DispIdle
  /\ UNCHANGED <<files, mode, exec, upl, stale, history, crashes>>

\* The executor turns a failure to record the start, or a completion, into a
\* failed result; every other exception leaves the job for the next turn.
ExecFault ==
  /\ Fault
  /\ \/ /\ ExecAt("granted")
        /\ ExecWith("journal", "failed")
     \/ /\ exec.pc \in {"persist", "finish"} /\ exec.out = "completed"
        /\ ExecWith("persist", "failed")
     \/ /\ exec.pc \in {"persist", "finish"} /\ exec.out # "completed"
        /\ exec' = Idle
     \/ /\ exec.pc \in {"journal", "queue", "enqueue", "remove"}
        /\ exec' = Idle
  /\ UNCHANGED <<files, mode, disp, upl, stale, history, crashes>>

\* A failed Acknowledged is handled by MarkAttemptFailed, which saves the record
\* it has just archived as pending again.
UplFault ==
  /\ Fault
  /\ upl.pc = "acked"
  /\ pending' = Enqueued(upl.res)
  /\ upl' = UplIdle
  /\ UNCHANGED <<inbox, jobStore, outcome, archive, mode, disp, exec, stale,
                 history, crashes>>

-----------------------------------------------------------------------------
(* The process stops and starts. *)

Crash ==
  /\ mode # "down" /\ crashes < MaxCrashes
  /\ crashes' = crashes + 1
  /\ mode' = "down"
  /\ disp' = DispIdle /\ exec' = Idle /\ upl' = UplIdle
  /\ UNCHANGED <<files, stale, history, faults>>

\* RecoverInterruptedJobsAsync begins with the pending results: each closes the
\* record of its job unless that is final.  No task runs yet, and repeating it
\* changes nothing, so it is one step.
Restart ==
  /\ mode = "down"
  /\ mode' = "recovering"
  /\ \E close \in [{r.job : r \in pending} -> pending] :
       /\ \A j \in DOMAIN close : close[j].job = j
       /\ jobStore' = [j \in Job |->
            IF j \in DOMAIN close /\ ~Final(jobStore[j])
            THEN StatusOf[close[j].outcome] ELSE jobStore[j]]
  /\ UNCHANGED <<inbox, outcome, pending, archive, tasks, stale, history, bounds>>

\* Then each record still running gets a failed / JOB_INTERRUPTED result.
RecoverLost(j) ==
  /\ mode = "recovering" /\ ExecAt("idle")
  /\ jobStore[j] = "running"
  /\ outcome' = Journaled(j, "lost_to_restart")
  /\ exec' = [pc |-> "lost_final", job |-> j, out |-> "lost_to_restart"]
  /\ UNCHANGED <<inbox, jobStore, pending, archive, mode, disp, upl, stale,
                 history, bounds>>

RecoverFinal ==
  /\ ExecAt("lost_final")
  /\ jobStore' = [jobStore EXCEPT ![exec.job] = "failed"]
  /\ ExecGo("lost_queue")
  /\ UNCHANGED <<inbox, outcome, pending, archive, mode, disp, upl, stale,
                 history, bounds>>

RecoverQueue ==
  /\ ExecAt("lost_queue")
  /\ pending' = Enqueued(RecoveredResult(exec.job))
  /\ exec' = Idle
  /\ UNCHANGED <<inbox, jobStore, outcome, archive, mode, disp, upl, stale,
                 history, bounds>>

Recovered ==
  /\ mode = "recovering" /\ ExecAt("idle")
  /\ \A j \in Job : jobStore[j] # "running"
  /\ mode' = "up"
  /\ UNCHANGED <<files, tasks, stale, history, bounds>>

-----------------------------------------------------------------------------
\* What the agent does on its own, crashes and faults apart.
AgentWork ==
  \/ DispPull \/ DispJournal \/ DispQueue \/ DispEnqueue \/ DispDone
  \/ \E j \in Job : Accept(j) \/ RejectAction(j)
  \/ \E j \in Job : ExecDrop(j) \/ ExecDoubt(j) \/ ExecValidate(j)
  \/ \E o \in {"completed", "failed"} : Perform(o)
  \/ ExecBegin \/ ExecPersist \/ ExecFinish \/ ExecJournal \/ ExecQueue
  \/ ExecEnqueue \/ ExecRemove
  \/ \E j \in Job : UplScan(j)
  \/ \E r \in pending : UplSend(r)
  \/ UplAcknowledge
  \/ Restart \/ RecoverFinal \/ RecoverQueue \/ Recovered
  \/ \E j \in Job : RecoverLost(j)

AgentMishap == Crash \/ DispFault \/ ExecFault \/ UplFault

NoAnswer == PullFailed \/ StartFailed \/ ResultFailed

Answered ==
  \/ \E S \in SUBSET Job : PullAnswered(S)
  \/ StartGranted \/ StartRefused
  \/ ResultAccepted

AgentNext ==
  AgentWork \/ AgentMishap \/ NoAnswer \/ Answered \/ \E j \in Job : AgentExpire(j)

AgentSpec == AgentInit /\ [][AgentNext]_agentVars

-----------------------------------------------------------------------------
(* Properties that hold whatever the server answers. *)

\* No redelivery, retry, failed write or restart makes the agent carry out the
\* operation of a job twice.
AtMostOnce == \A j \in Job : runs[j] <= 1

Evidence(j) ==
  \/ outcome[j] # "none"
  \/ PendingFor(j) # {}
  \/ \E id \in archive : id[2] = j

\* An operation that was carried out leaves evidence on disk until the server
\* has acknowledged a result: an outcome, a pending result, or the running
\* record that recovery turns into one.
EffectIsNeverForgotten ==
  \A j \in Job : runs[j] > 0 => jobStore[j] = "running" \/ Evidence(j)

\* A job the agent has closed for itself and no longer works on is reported: there
\* is evidence of it on disk, or a result the server has acknowledged.  A refusal is
\* closed before it is journaled, so this is so as long as nothing fails in between.
ClosedIsReported ==
  \A j \in Job :
    crashes + faults = 0 /\ mode = "up" /\ Final(jobStore[j]) /\ j # exec.job /\ j # disp.job => Evidence(j)

\* The poll limit leaves room for a whole batch: as long as it does so by the
\* numbers, no batch ever meets a full inbox and loses its remaining jobs.
BatchFits ==
  PollLimit + TakeLimit <= InboxLimit + 1 =>
    (disp.pc = "accepting" => Cardinality(inbox \cup disp.todo) <= InboxLimit)

\* The local record never claims more than happened: a job is completed in the
\* store only if its operation ran and ended well.
CompletedIsTrue == \A j \in Job : jobStore[j] = "completed" => effect[j] = "completed"

\* A final record stays final, so that Accept, Prepare and Execute can rely on it.
LocalFinalIsForever ==
  [][\A j \in Job : Final(jobStore[j]) => Final(jobStore'[j])]_agentVars
=============================================================================
