-------------------------- MODULE AgentJobsProofs --------------------------
(*****************************************************************************)
(* Proofs about AgentJobs: its types; that no job is carried out twice      *)
(* whatever the server answers; and that what the agent's files say is      *)
(* true and is not lost: a final record stays final, a job is called        *)
(* completed only if its operation ended well, and an operation that was    *)
(* carried out leaves evidence until a result is acknowledged; for any      *)
(* number of jobs, crashes and failed writes.                               *)
(*****************************************************************************)
EXTENDS TLAPS, AgentJobs, FiniteSetTheorems

\* A task past its idle state works on a job and, once it has one, on a final
\* outcome; an upload works on a result.
TaskOK ==
  /\ disp.pc \in {"journal", "queue", "enqueue"} =>
       disp.job \in Job /\ disp.out \in FinalOutcome
  /\ exec.pc # "idle" => exec.job \in Job
  /\ exec.pc \notin {"idle", "starting", "granted", "running"} =>
       exec.out \in FinalOutcome
  /\ upl.pc # "idle" => upl.res \in AgentResult

\* Why no operation runs twice: the jobStore has left "none" and "validated" before
\* the operation runs and never returns there, and the Execute task reaches the
\* operation only from those two.
RunsGuarded ==
  \A j \in Job :
    /\ runs[j] <= 1
    /\ jobStore[j] \in {"none", "validated"} => runs[j] = 0
    /\ exec.pc \in {"starting", "granted", "running"} /\ exec.job = j => runs[j] = 0
    /\ exec.pc = "running" /\ exec.job = j => jobStore[j] \notin {"none", "validated"}

AgentInv == AgentTypeOK /\ TaskOK /\ RunsGuarded

\* A final outcome has a final status on the wire, and it can be put in the jobStore.
LEMMA FinalOutcomeStatus ==
  \A o \in FinalOutcome : StatusOf[o] \in FinalStatus
BY DEF FinalOutcome, Outcome, StatusOf, FinalStatus

\* The result built for a job is one the pending queue may hold.
LEMMA ResultTyped ==
  ASSUME NEW j \in Job, NEW o \in FinalOutcome
  PROVE  /\ ResultOf(j, o) \in AgentResult
         /\ RecoveredResult(j) \in AgentResult
<1>1. StatusOf[o] \in Status
  BY FinalOutcomeStatus DEF Status
<1>2. "failed" \in Status /\ "lost_to_restart" \in FinalOutcome
  BY DEF Status, FinalStatus, FinalOutcome, Outcome
<1> QED
  BY <1>1, <1>2 DEF ResultOf, RecoveredResult, AgentResult, AgentResultId, Tag

\* What Prepare refuses with is a final outcome.
LEMMA RefusalTyped ==
  \A j \in Job : Refusal(j) \in FinalOutcome \cup {"none"}
BY DEF Refusal, FinalOutcome, Outcome

\* Prepare does refuse an action that does not validate.
LEMMA RejectionTyped ==
  \A j \in InvalidAction \cup InvalidJob : Refusal(j) \in FinalOutcome
BY DEF Refusal, FinalOutcome, Outcome

\* A final record is past the states from which an operation may start.
LEMMA FinalIsLater == FinalStatus \cap {"none", "validated", "running"} = {}
BY DEF FinalStatus

LEMMA AgentInitInv == AgentInit => AgentInv
<1> SUFFICES ASSUME AgentInit PROVE AgentInv
  OBVIOUS
<1> USE AgentAssumption DEF AgentInit
<1>1. AgentTypeOK
  BY DEF AgentTypeOK, DispIdle, Idle, UplIdle, ExecPc, NoJob, NoResult
<1>2. TaskOK
  BY DEF TaskOK, DispIdle, Idle, UplIdle
<1>3. RunsGuarded
  BY DEF RunsGuarded, Idle
<1> QED
  BY <1>1, <1>2, <1>3 DEF AgentInv

\* Every step keeps the invariant: first what the agent's own work does, one
\* group of actions at a time.
LEMMA DispatchInv ==
  ASSUME AgentInv,
         \/ DispPull \/ DispJournal \/ DispQueue \/ DispEnqueue \/ DispDone
         \/ DispFault \/ PullFailed
         \/ \E j \in Job : Accept(j) \/ RejectAction(j)
         \/ \E S \in SUBSET Job : PullAnswered(S)
  PROVE  AgentInv'
<1> USE FinalOutcomeStatus, RefusalTyped, AgentAssumption
    DEF AgentInv, AgentTypeOK, TaskOK, RunsGuarded, files, tasks, history, bounds, DispIdle
<1>1. CASE DispPull
  BY <1>1 DEF DispPull
<1>2. CASE DispJournal
  BY <1>2 DEF DispJournal, Journaled
<1>3. CASE DispQueue
  BY <1>3 DEF DispQueue
<1>4. CASE DispEnqueue
  BY <1>4, ResultTyped DEF DispEnqueue, Enqueued
<1>5. CASE DispDone
  BY <1>5 DEF DispDone
<1>6. CASE DispFault
  BY <1>6 DEF DispFault, Fault
<1>7. CASE PullFailed
  BY <1>7 DEF PullFailed
<1>8. ASSUME NEW j \in Job, Accept(j) PROVE AgentInv'
  BY <1>8 DEF Accept
<1>9. ASSUME NEW j \in Job, RejectAction(j) PROVE AgentInv'
  <2>1. j \in InvalidAction /\ Refusal(j) \in FinalOutcome /\ "duplicate" \in FinalOutcome
    BY <1>9, RejectionTyped DEF RejectAction, FinalOutcome, Outcome
  <2>2. StatusOf[Refusal(j)] \in FinalStatus
    BY <2>1
  <2> HIDE FinalOutcomeStatus
  <2>3. AgentTypeOK'
    BY <1>9, <2>1, <2>2 DEF RejectAction
  <2>4. TaskOK'
    BY <1>9, <2>1 DEF RejectAction
  <2>5. RunsGuarded'
    BY <1>9, <2>2, FinalIsLater DEF RejectAction
  <2> QED
    BY <2>3, <2>4, <2>5
<1>10. ASSUME NEW S \in SUBSET Job, PullAnswered(S) PROVE AgentInv'
  BY <1>10 DEF PullAnswered
<1> QED
  BY <1>1, <1>2, <1>3, <1>4, <1>5, <1>6, <1>7, <1>8, <1>9, <1>10

\* The Execute task.
LEMMA ExecuteInv ==
  ASSUME AgentInv,
         \/ StartGranted \/ StartRefused \/ StartFailed
         \/ ExecBegin \/ ExecPersist \/ ExecFinish \/ ExecJournal \/ ExecQueue
         \/ ExecEnqueue \/ ExecRemove \/ ExecFault
         \/ \E o \in {"completed", "failed"} : Perform(o)
         \/ \E j \in Job : ExecDrop(j) \/ ExecDoubt(j) \/ ExecValidate(j)
  PROVE  AgentInv'
<1>0. {"completed", "failed", "revoked", "unconfirmed", "duplicate"} \subseteq FinalOutcome
  BY DEF FinalOutcome, Outcome
<1> USE <1>0, AgentAssumption
    DEF AgentInv, AgentTypeOK, TaskOK, RunsGuarded, files, tasks, history, bounds, Idle,
        ExecPc, ExecAt, ExecGo, ExecWith
<1>1. CASE StartGranted
  BY <1>1 DEF StartGranted
<1>2. CASE StartRefused
  BY <1>2 DEF StartRefused
<1>3. CASE StartFailed
  BY <1>3 DEF StartFailed
<1>4. CASE ExecBegin
  <2>1. CASE Final(jobStore[exec.job])
    BY <1>4, <2>1 DEF ExecBegin
  <2>2. CASE ~Final(jobStore[exec.job]) /\ Refusal(exec.job) = "none"
    BY <1>4, <2>2 DEF ExecBegin
  <2>3. CASE ~Final(jobStore[exec.job]) /\ Refusal(exec.job) # "none"
    <3>1. StatusOf[Refusal(exec.job)] \in FinalStatus /\ Refusal(exec.job) \in FinalOutcome
      BY <1>4, <2>3, RefusalTyped, FinalOutcomeStatus DEF ExecBegin
    <3> QED
      BY <1>4, <2>3, <3>1, FinalIsLater DEF ExecBegin
  <2> QED
    BY <2>1, <2>2, <2>3
<1>5. CASE ExecPersist
  BY <1>5 DEF ExecPersist, Journaled
<1>6. CASE ExecFinish
  <2>1. StatusOf[exec.out] \in FinalStatus
    BY <1>6, FinalOutcomeStatus DEF ExecFinish
  <2> QED
    BY <1>6, <2>1, FinalIsLater DEF ExecFinish
<1>7. CASE ExecJournal
  BY <1>7 DEF ExecJournal, Journaled
<1>8. CASE ExecQueue
  BY <1>8 DEF ExecQueue
<1>9. CASE ExecEnqueue
  BY <1>9, ResultTyped DEF ExecEnqueue, Enqueued
<1>10. CASE ExecRemove
  <2>1. exec' = [pc |-> "idle", job |-> NoJob, out |-> "none"]
    BY <1>10 DEF ExecRemove
  <2> QED
    BY <1>10, <2>1 DEF ExecRemove
<1>11. CASE ExecFault
  <2>1. /\ faults' \in 0..MaxFaults
        /\ UNCHANGED <<inbox, jobStore, outcome, pending, archive, mode, disp, upl, stale,
                       runs, effect, crashes>>
    BY <1>11 DEF ExecFault, Fault
  <2>2. CASE ExecWith("journal", "failed") /\ exec.pc # "idle"
    BY <2>1, <2>2
  <2>3. CASE ExecWith("persist", "failed") /\ exec.pc # "idle"
    BY <2>1, <2>3
  <2>4. CASE exec' = Idle
    BY <2>1, <2>4
  <2> QED
    BY <1>11, <2>2, <2>3, <2>4 DEF ExecFault
<1>12. ASSUME NEW o \in {"completed", "failed"}, Perform(o) PROVE AgentInv'
  <2>1. runs[exec.job] = 0 /\ exec.job \in Job /\ o \in FinalOutcome
    BY <1>12 DEF Perform
  <2>2. /\ runs' \in [Job -> Nat]
        /\ runs'[exec.job] = 1
        /\ \A j \in Job : j # exec.job => runs'[j] = runs[j]
    BY <1>12, <2>1 DEF Perform
  <2>3. effect' \in [Job -> {"none", "completed", "failed"}]
    BY <1>12 DEF Perform
  <2>4. exec' = [pc |-> "persist", job |-> exec.job, out |-> o]
    BY <1>12 DEF Perform
  <2>5. UNCHANGED <<inbox, jobStore, outcome, pending, archive, mode, disp, upl, stale,
                    crashes, faults>>
    BY <1>12 DEF Perform
  <2>6. jobStore[exec.job] \notin {"none", "validated"}
    BY <1>12, <2>1 DEF Perform
  <2>7. AgentTypeOK' /\ TaskOK'
    BY <2>1, <2>2, <2>3, <2>4, <2>5
  <2>8. RunsGuarded'
    BY <2>1, <2>2, <2>4, <2>5, <2>6
  <2> QED
    BY <2>7, <2>8
<1>13. ASSUME NEW j \in Job, ExecDrop(j) PROVE AgentInv'
  BY <1>13 DEF ExecDrop, Pick
<1>14. ASSUME NEW j \in Job, ExecDoubt(j) PROVE AgentInv'
  BY <1>14 DEF ExecDoubt, Pick
<1>15. ASSUME NEW j \in Job, ExecValidate(j) PROVE AgentInv'
  <2>1. CASE Refusal(j) = "none"
    BY <1>15, <2>1 DEF ExecValidate, Pick
  <2>2. CASE Refusal(j) # "none"
    <3>1. StatusOf[Refusal(j)] \in FinalStatus /\ Refusal(j) \in FinalOutcome
      BY <2>2, RefusalTyped, FinalOutcomeStatus
    <3> QED
      BY <1>15, <2>2, <3>1, FinalIsLater DEF ExecValidate, Pick
  <2> QED
    BY <2>1, <2>2
<1> QED
  BY <1>1, <1>2, <1>3, <1>4, <1>5, <1>6, <1>7, <1>8, <1>9, <1>10, <1>11, <1>12,
     <1>13, <1>14, <1>15

\* The Upload task.
LEMMA UploadInv ==
  ASSUME AgentInv,
         \/ ResultAccepted \/ ResultFailed \/ UplAcknowledge \/ UplFault
         \/ \E j \in Job : UplScan(j)
         \/ \E r \in pending : UplSend(r)
  PROVE  AgentInv'
<1> USE AgentAssumption
    DEF AgentInv, AgentTypeOK, TaskOK, RunsGuarded, files, tasks, history, bounds, UplIdle
<1>1. CASE ResultAccepted
  BY <1>1 DEF ResultAccepted, AgentResult
<1>2. CASE ResultFailed
  BY <1>2 DEF ResultFailed
<1>3. CASE UplAcknowledge
  BY <1>3 DEF UplAcknowledge
<1>4. CASE UplFault
  BY <1>4 DEF UplFault, Fault, Enqueued
<1>5. ASSUME NEW j \in Job, UplScan(j) PROVE AgentInv'
  BY <1>5, ResultTyped DEF UplScan, Enqueued
<1>6. ASSUME NEW r \in pending, UplSend(r) PROVE AgentInv'
  <2>1. StatusOf[r.outcome] \in FinalStatus
    BY FinalOutcomeStatus DEF AgentResult
  <2> QED
    BY <1>6, <2>1, FinalIsLater DEF UplSend
<1> QED
  BY <1>1, <1>2, <1>3, <1>4, <1>5, <1>6

\* Crash, restart and recovery, and the clock.
LEMMA RecoveryInv ==
  ASSUME AgentInv,
         \/ Crash \/ Restart \/ RecoverFinal \/ RecoverQueue \/ Recovered
         \/ \E j \in Job : RecoverLost(j) \/ AgentExpire(j)
  PROVE  AgentInv'
<1>0. "lost_to_restart" \in FinalOutcome /\ "failed" \in FinalStatus
  BY DEF FinalOutcome, Outcome, FinalStatus
<1> USE <1>0, AgentAssumption
    DEF AgentInv, AgentTypeOK, TaskOK, RunsGuarded, files, tasks, history, bounds,
        DispIdle, Idle, UplIdle, ExecPc, ExecAt, ExecGo, ExecWith
<1>1. CASE Crash
  BY <1>1 DEF Crash, NoResult, NoJob
<1>2. CASE Restart
  <2>1. PICK close \in [{r.job : r \in pending} -> pending] :
          jobStore' = [j \in Job |->
            IF j \in DOMAIN close /\ ~Final(jobStore[j])
            THEN StatusOf[close[j].outcome] ELSE jobStore[j]]
    BY <1>2 DEF Restart
  <2>2. \A j \in DOMAIN close : StatusOf[close[j].outcome] \in FinalStatus
    BY FinalOutcomeStatus DEF AgentResult
  <2>3. /\ jobStore' \in [Job -> FinalStatus \cup {"none", "validated", "running"}]
        /\ \A j \in Job : jobStore'[j] = jobStore[j] \/ jobStore'[j] \in FinalStatus
    BY <2>1, <2>2
  <2>4. UNCHANGED <<inbox, outcome, pending, archive, disp, exec, upl, stale, runs,
                    effect, crashes, faults>> /\ mode' = "recovering"
    BY <1>2 DEF Restart
  <2> QED
    BY <2>3, <2>4, FinalIsLater
<1>3. CASE RecoverFinal
  BY <1>3, FinalIsLater DEF RecoverFinal
<1>4. CASE RecoverQueue
  BY <1>4, ResultTyped DEF RecoverQueue, Enqueued
<1>5. CASE Recovered
  BY <1>5 DEF Recovered
<1>6. ASSUME NEW j \in Job, RecoverLost(j) PROVE AgentInv'
  BY <1>6 DEF RecoverLost, Journaled
<1>7. ASSUME NEW j \in Job, AgentExpire(j) PROVE AgentInv'
  BY <1>7 DEF AgentExpire
<1> QED
  BY <1>1, <1>2, <1>3, <1>4, <1>5, <1>6, <1>7

\* All steps together.
LEMMA AgentStepInv == AgentInv /\ [AgentNext]_agentVars => AgentInv'
<1> SUFFICES ASSUME AgentInv, [AgentNext]_agentVars PROVE AgentInv'
  OBVIOUS
<1>1. CASE UNCHANGED agentVars
  BY <1>1 DEF agentVars, files, tasks, history, bounds, AgentInv, AgentTypeOK, TaskOK,
              RunsGuarded
<1>2. CASE AgentNext
  BY <1>2, DispatchInv, ExecuteInv, UploadInv, RecoveryInv
  DEF AgentNext, AgentWork, AgentMishap, NoAnswer, Answered
<1> QED
  BY <1>1, <1>2

\* The inductive invariant holds in every reachable state, whatever the server answers.
THEOREM AgentInvariant == AgentSpec => []AgentInv
BY AgentInitInv, AgentStepInv, PTL DEF AgentSpec

\* The types of the agent's state (the five files, three tasks and the history).
THEOREM AgentTypes == AgentSpec => []AgentTypeOK
<1>1. AgentInv => AgentTypeOK
  BY DEF AgentInv
<1> QED
  BY <1>1, AgentInvariant, PTL

\* Whatever the server answers and however often the process stops, the agent
\* carries out no operation twice (JobRuntime.Execute, JobExecutor.ExecuteAsync).
THEOREM AgentAtMostOnce == AgentSpec => []AtMostOnce
<1>1. AgentInv => AtMostOnce
  BY DEF AgentInv, RunsGuarded, AtMostOnce
<1> QED
  BY <1>1, AgentInvariant, PTL
-----------------------------------------------------------------------------
(* The limits of the inbox.  The code polls below 24 jobs, takes 5 at a time *)
(* and holds 32: by those numbers a batch that was polled always fits.       *)

LimitsFit == PollLimit + TakeLimit <= InboxLimit + 1

\* From the poll to the last job of the batch there is room for all of it.
BatchRoom ==
  /\ disp.pc = "pulling" => Cardinality(inbox) < PollLimit
  /\ disp.pc \in {"accepting", "journal", "queue", "enqueue"} =>
       Cardinality(inbox \cup disp.todo) <= InboxLimit

\* Whatever takes jobs out of the inbox, and out of the batch, leaves the room.
LEMMA RoomRemains ==
  ASSUME AgentTypeOK, BatchRoom, inbox' \subseteq inbox,
         \/ disp' = disp
         \/ disp' = DispIdle
         \/ /\ disp.pc # "idle" /\ disp.pc # "pulling"
            /\ disp'.todo \subseteq disp.todo
            /\ disp'.pc # "pulling"
  PROVE  BatchRoom'
<1>1. inbox \subseteq Job /\ disp.todo \subseteq Job
  BY DEF AgentTypeOK
<1>2. IsFiniteSet(inbox) /\ IsFiniteSet(inbox \cup disp.todo)
  BY <1>1, AgentAssumption, FS_Subset
<1>3. /\ Cardinality(inbox) \in Nat /\ Cardinality(inbox') \in Nat
      /\ Cardinality(inbox') <= Cardinality(inbox)
  BY <1>2, FS_Subset, FS_CardinalityType
<1>4. ASSUME disp'.todo \subseteq disp.todo
      PROVE  /\ Cardinality(inbox' \cup disp'.todo) <= Cardinality(inbox \cup disp.todo)
             /\ Cardinality(inbox' \cup disp'.todo) \in Nat
             /\ Cardinality(inbox \cup disp.todo) \in Nat
  <2>1. inbox' \cup disp'.todo \in SUBSET (inbox \cup disp.todo)
    BY <1>4
  <2> QED
    BY <2>1, <1>2, FS_Subset, FS_CardinalityType
<1>5. CASE disp' = disp
  BY <1>3, <1>4, <1>5, AgentAssumption DEF BatchRoom
<1>6. CASE disp' = DispIdle
  BY <1>6 DEF BatchRoom, DispIdle
<1>7. CASE /\ disp.pc # "idle" /\ disp.pc # "pulling"
           /\ disp'.todo \subseteq disp.todo
           /\ disp'.pc # "pulling"
  <2>1. disp.pc \in {"accepting", "journal", "queue", "enqueue"}
    BY <1>7 DEF AgentTypeOK
  <2> QED
    BY <2>1, <1>4, <1>7, AgentAssumption DEF BatchRoom
<1> QED
  BY <1>5, <1>6, <1>7

\* The three steps that need the numbers: the poll, the answer, a job accepted.
LEMMA RoomIsMade ==
  ASSUME AgentTypeOK, BatchRoom, LimitsFit,
         \/ DispPull
         \/ \E S \in SUBSET Job : PullAnswered(S)
         \/ \E j \in Job : Accept(j)
  PROVE  BatchRoom'
<1>1. CASE DispPull
  BY <1>1 DEF DispPull, BatchRoom, AgentTypeOK, files
<1>2. ASSUME NEW S \in SUBSET Job, PullAnswered(S) PROVE BatchRoom'
  <2>1. PICK T \in SUBSET S : /\ Cardinality(T) <= TakeLimit
                              /\ disp' = [disp EXCEPT !.pc = "accepting", !.todo = T]
    BY <1>2 DEF PullAnswered
  <2>2. /\ disp'.todo = T /\ disp'.pc = "accepting" /\ inbox' = inbox
        /\ disp.pc = "pulling"
    BY <1>2, <2>1 DEF PullAnswered, AgentTypeOK, files
  <2>3. IsFiniteSet(inbox) /\ IsFiniteSet(T) /\ T \subseteq Job
    BY AgentAssumption, FS_Subset DEF AgentTypeOK
  <2>4. /\ Cardinality(inbox \cup T) =
             Cardinality(inbox) + Cardinality(T) - Cardinality(inbox \cap T)
        /\ IsFiniteSet(inbox \cap T)
    BY <2>3, FS_Union, FS_Subset
  <2>5. /\ Cardinality(inbox) \in Nat /\ Cardinality(T) \in Nat
        /\ Cardinality(inbox \cap T) \in Nat
    BY <2>3, <2>4, FS_CardinalityType
  <2>6. Cardinality(inbox \cup T) <= InboxLimit
    BY <2>1, <2>2, <2>4, <2>5, AgentAssumption DEF BatchRoom, LimitsFit
  <2> QED
    BY <2>2, <2>6 DEF BatchRoom
<1>3. ASSUME NEW j \in Job, Accept(j) PROVE BatchRoom'
  <2>1. CASE inbox' = inbox
    <3>1. disp' = DispIdle \/ (disp'.pc = disp.pc /\ disp'.todo \subseteq disp.todo)
      BY <1>3 DEF Accept, AgentTypeOK
    <3> QED
      BY <1>3, <2>1, <3>1, RoomRemains DEF Accept
  <2>2. CASE inbox' # inbox
    <3>1. /\ inbox' = inbox \cup {j} /\ j \in disp.todo
          /\ disp' = [disp EXCEPT !.todo = @ \ {j}]
      BY <1>3, <2>2 DEF Accept
    <3>2. disp'.todo = disp.todo \ {j} /\ disp'.pc = disp.pc
      BY <3>1 DEF AgentTypeOK
    <3>3. inbox' \cup disp'.todo = inbox \cup disp.todo
      BY <3>1, <3>2
    <3> QED
      BY <1>3, <3>2, <3>3 DEF BatchRoom, Accept
  <2> QED
    BY <2>1, <2>2
<1> QED
  BY <1>1, <1>2, <1>3

LEMMA RoomStep ==
  ASSUME AgentTypeOK, BatchRoom, LimitsFit, [AgentNext]_agentVars
  PROVE  BatchRoom'
<1> USE DEF files, tasks, AgentTypeOK
<1>1. CASE UNCHANGED agentVars
  BY <1>1, RoomRemains DEF agentVars
<1>2. CASE \/ DispPull
           \/ \E S \in SUBSET Job : PullAnswered(S)
           \/ \E j \in Job : Accept(j)
  BY <1>2, RoomIsMade
<1>3. CASE DispJournal \/ DispQueue \/ DispEnqueue
  <2>1. /\ inbox' = inbox /\ disp'.todo = disp.todo
        /\ disp.pc # "idle" /\ disp.pc # "pulling" /\ disp'.pc # "pulling"
    BY <1>3 DEF DispJournal, DispQueue, DispEnqueue
  <2> QED
    BY <2>1, RoomRemains
<1>4. ASSUME NEW j \in Job, RejectAction(j) PROVE BatchRoom'
  <2>1. /\ inbox' = inbox /\ disp'.todo \subseteq disp.todo
        /\ disp.pc = "accepting" /\ disp'.pc = "journal"
    BY <1>4 DEF RejectAction
  <2> QED
    BY <2>1, RoomRemains
<1>5. CASE DispDone \/ DispFault \/ PullFailed \/ Crash
  BY <1>5, RoomRemains DEF DispDone, DispFault, PullFailed, Crash
<1>6. CASE \/ StartGranted \/ StartRefused \/ StartFailed
           \/ ExecBegin \/ ExecPersist \/ ExecFinish \/ ExecJournal \/ ExecQueue
           \/ ExecEnqueue \/ ExecRemove \/ ExecFault
           \/ \E o \in {"completed", "failed"} : Perform(o)
           \/ \E j \in Job : ExecDrop(j) \/ ExecDoubt(j) \/ ExecValidate(j)
  <2>1. inbox' \subseteq inbox /\ disp' = disp
    BY <1>6 DEF StartGranted, StartRefused, StartFailed, ExecBegin, ExecPersist,
         ExecFinish, ExecJournal, ExecQueue, ExecEnqueue, ExecRemove, ExecFault, Perform,
         ExecDrop, ExecDoubt, ExecValidate
  <2> QED
    BY <2>1, RoomRemains
<1>7. CASE \/ ResultAccepted \/ ResultFailed \/ UplAcknowledge \/ UplFault
           \/ Restart \/ RecoverFinal \/ RecoverQueue \/ Recovered
           \/ \E j \in Job : UplScan(j) \/ RecoverLost(j) \/ AgentExpire(j)
           \/ \E r \in pending : UplSend(r)
  <2>1. inbox' = inbox /\ disp' = disp
    BY <1>7 DEF ResultAccepted, ResultFailed, UplAcknowledge, UplFault, Restart,
         RecoverFinal, RecoverQueue, Recovered, UplScan, RecoverLost, AgentExpire, UplSend
  <2> QED
    BY <2>1, RoomRemains
<1> QED
  BY <1>1, <1>2, <1>3, <1>4, <1>5, <1>6, <1>7
  DEF AgentNext, AgentWork, AgentMishap, NoAnswer, Answered

\* No batch meets a full inbox (JobRuntime.Dispatch, JobJournal.Accept): the check
\* at the poll is enough, although jobs are stored one by one afterwards.
THEOREM AgentBatchFits == AgentSpec => []BatchFits
<1>1. CASE LimitsFit
  <2>1. AgentInit => BatchRoom
    BY DEF AgentInit, BatchRoom, DispIdle
  <2>2. AgentTypeOK /\ BatchRoom /\ [AgentNext]_agentVars => BatchRoom'
    BY <1>1, RoomStep
  <2>3. BatchRoom => BatchFits
    BY DEF BatchRoom, BatchFits
  <2> QED
    BY <2>1, <2>2, <2>3, AgentTypes, PTL DEF AgentSpec
<1>2. CASE ~LimitsFit
  <2>1. BatchFits
    BY <1>2 DEF BatchFits, LimitsFit
  <2> QED
    BY <2>1, PTL
<1> QED
  BY <1>1, <1>2

-----------------------------------------------------------------------------
(* Evidence.                                                                *)

\* An outcome of a job that claims no more than happened.
Genuine(j, o) == o = "completed" => effect[j] = "completed"
GenuineResult(r) == r.id[2] = r.job /\ Genuine(r.job, r.outcome)

\* The jobs of which there is evidence on disk.
Evidenced == {j \in Job : Evidence(j)}

\* Every result is about the job its id names, and one that is acknowledged is filed.
ResultsGenuine ==
  /\ \A r \in pending : GenuineResult(r)
  /\ upl.pc # "idle" => GenuineResult(upl.res)
  /\ upl.pc = "acked" => upl.res.id \in archive

\* Nor do the journal, the tasks and the records claim more than happened.
ClaimsGenuine ==
  /\ \A j \in Job : Genuine(j, outcome[j]) /\ Genuine(j, jobStore[j])
  /\ exec.pc \notin {"idle", "starting", "granted", "running"} => Genuine(exec.job, exec.out)
  /\ disp.pc \in {"journal", "queue", "enqueue"} => disp.out # "completed"

\* The operation of a job was carried out or is being carried out.
Carried(j) == runs[j] > 0 \/ (exec.pc = "running" /\ exec.job = j)

\* No operation ends before it runs, or runs although it does not validate; and a record
\* is closed only when there is evidence, unless the operation did not run.
EffectsKept ==
  /\ \A j \in Job : runs[j] = 0 => effect[j] = "none"
  /\ \A j \in InvalidAction : runs[j] = 0
  /\ exec.pc = "running" => exec.job \notin InvalidAction
  /\ exec.pc \in {"finish", "lost_final"} => exec.job \in Evidenced
  /\ \A j \in Job : Carried(j) => jobStore[j] = "running" \/ j \in Evidenced

EvidenceInv == ResultsGenuine /\ ClaimsGenuine /\ EffectsKept

\* What a step may do: evidence grows, effects happen once, final records stay final.
EvidenceGrows == Evidenced \subseteq Evidenced'
FinalStays == \A j \in Job : Final(jobStore[j]) => Final(jobStore'[j])

\* Only "completed" is called completed on the wire.
LEMMA CompletedStatus ==
  /\ \A o \in FinalOutcome : StatusOf[o] = "completed" <=> o = "completed"
  /\ \A o \in {"duplicate", "expired", "rejected", "failed", "unconfirmed", "revoked", "lost_to_restart"} :
       o \in FinalOutcome
  /\ \A j \in Job : Refusal(j) # "completed"
BY DEF FinalOutcome, Outcome, StatusOf, Refusal

LEMMA ResultsOf ==
  ASSUME NEW j \in Job, NEW o
  PROVE  /\ ResultOf(j, o).id[2] = j /\ ResultOf(j, o).job = j /\ ResultOf(j, o).outcome = o
         /\ RecoveredResult(j).id[2] = j /\ RecoveredResult(j).job = j
         /\ RecoveredResult(j).outcome = "lost_to_restart"
BY DEF ResultOf, RecoveredResult

LEMMA EvidenceInit == AgentInit => EvidenceInv
<1> SUFFICES ASSUME AgentInit PROVE EvidenceInv
  OBVIOUS
<1> USE AgentAssumption DEF AgentInit, Idle, UplIdle, DispIdle
<1>1. ResultsGenuine
  BY DEF ResultsGenuine
<1>2. ClaimsGenuine
  BY DEF ClaimsGenuine, Genuine
<1>3. EffectsKept
  BY DEF EffectsKept, Carried
<1> QED
  BY <1>1, <1>2, <1>3 DEF EvidenceInv

-----------------------------------------------------------------------------
\* Evidence is moved and replaced, and nothing removes the last of it.
LEMMA EvidenceRemains ==
  ASSUME AgentTypeOK, ResultsGenuine, archive \subseteq archive',
         \A j \in Job : outcome[j] # "none" => outcome'[j] # "none" \/ \E id \in archive' : id[2] = j,
         \A r \in pending : (\E q \in pending' : q.job = r.job) \/ r.id \in archive'
  PROVE  EvidenceGrows
<1> SUFFICES ASSUME NEW j \in Job, Evidence(j) PROVE Evidence(j)'
  BY DEF EvidenceGrows, Evidenced
<1>1. CASE outcome[j] # "none"
  BY <1>1 DEF Evidence
<1>2. ASSUME NEW r \in pending, r.job = j PROVE Evidence(j)'
  BY <1>2 DEF Evidence, PendingFor, ResultsGenuine, GenuineResult
<1>3. CASE \E id \in archive : id[2] = j
  BY <1>3 DEF Evidence
<1> QED
  BY <1>1, <1>2, <1>3 DEF Evidence, PendingFor

\* Enqueueing a genuine result replaces at most one of the same job.
LEMMA EnqueuedGenuine ==
  ASSUME AgentTypeOK, ResultsGenuine, NEW r, GenuineResult(r), r.job \in Job,
         UNCHANGED effect,
         pending' = Enqueued(r)
  PROVE  /\ \A p \in pending : \E q \in pending' : q.job = p.job
         /\ \A q \in pending' : GenuineResult(q)'
         /\ r.job \in Evidenced'
<1>1. \A p \in pending : p.id = r.id => p.job = r.job
  BY DEF ResultsGenuine, GenuineResult
<1>2. r \in pending' /\ \A p \in pending : p.id = r.id \/ p \in pending'
  BY DEF Enqueued
<1>3. \A q \in pending' : GenuineResult(q)'
  BY DEF Enqueued, ResultsGenuine, GenuineResult, Genuine
<1>4. r.job \in Evidenced'
  BY <1>2 DEF Evidenced, Evidence, PendingFor
<1> QED
  BY <1>1, <1>2, <1>3, <1>4

\* Journaling keeps an outcome that is there.
LEMMA JournaledKeeps ==
  ASSUME AgentTypeOK, NEW j \in Job, NEW o \in FinalOutcome, Genuine(j, o), ClaimsGenuine,
         UNCHANGED effect,
         outcome' = Journaled(j, o)
  PROVE  /\ outcome'[j] # "none"
         /\ \A i \in Job : (outcome[i] # "none" => outcome'[i] # "none") /\ Genuine(i, outcome'[i])
<1>1. o # "none"
  BY DEF FinalOutcome, Outcome
<1>2. \A i \in Job : outcome'[i] = IF i = j /\ outcome[j] = "none" THEN o ELSE outcome[i]
  BY DEF Journaled, AgentTypeOK
<1> QED
  BY <1>1, <1>2 DEF ClaimsGenuine, Genuine

\* Steps that carry out nothing keep the effects if they leave running records alone or
\* close them on evidence.
LEMMA EffectsRemain ==
  ASSUME AgentTypeOK, EffectsKept, EvidenceGrows, UNCHANGED <<runs, effect>>,
         \A j \in Job : Carried(j) /\ jobStore[j] = "running" => jobStore'[j] = "running" \/ j \in Evidenced',
         exec'.pc = "running" => /\ exec'.job \notin InvalidAction
                                 /\ exec' = exec \/ jobStore'[exec'.job] = "running",
         exec'.pc \in {"finish", "lost_final"} => exec'.job \in Evidenced'
  PROVE  EffectsKept'
BY DEF EffectsKept, EvidenceGrows, AgentTypeOK, Carried

\* The Dispatch task.
LEMMA DispatchEvidence ==
  ASSUME AgentInv, EvidenceInv,
         \/ DispPull \/ DispJournal \/ DispQueue \/ DispEnqueue \/ DispDone
         \/ DispFault \/ PullFailed
         \/ \E j \in Job : Accept(j) \/ RejectAction(j)
         \/ \E S \in SUBSET Job : PullAnswered(S)
  PROVE  EvidenceInv' /\ FinalStays /\ EvidenceGrows
<1>0. AgentTypeOK /\ TaskOK /\ RunsGuarded /\ ResultsGenuine /\ ClaimsGenuine /\ EffectsKept
  BY DEF AgentInv, EvidenceInv
<1> USE DEF files, tasks, history, bounds
<1>1. CASE \/ DispPull \/ DispQueue \/ DispDone \/ DispFault \/ PullFailed
           \/ \E j \in Job : Accept(j)
           \/ \E S \in SUBSET Job : PullAnswered(S)
  <2>1. /\ UNCHANGED <<jobStore, outcome, pending, archive, exec, upl, runs, effect>>
        /\ disp'.pc \in {"journal", "queue", "enqueue"} =>
             disp.pc \in {"journal", "queue", "enqueue"} /\ disp'.out = disp.out
    <3>1. CASE DispPull \/ DispQueue \/ DispDone
      BY <1>0, <3>1 DEF DispPull, DispQueue, DispDone, DispIdle, AgentTypeOK
    <3>2. CASE DispFault \/ PullFailed
      BY <3>2 DEF DispFault, PullFailed, DispIdle
    <3>3. ASSUME NEW j \in Job, Accept(j) PROVE <2>1!:
      BY <1>0, <3>3 DEF Accept, DispIdle, AgentTypeOK
    <3>4. ASSUME NEW S \in SUBSET Job, PullAnswered(S) PROVE <2>1!:
      BY <1>0, <3>4 DEF PullAnswered, AgentTypeOK
    <3> QED
      BY <1>1, <3>1, <3>2, <3>3, <3>4
  <2>2. EvidenceGrows
    BY <1>0, <2>1, EvidenceRemains
  <2>3. ResultsGenuine' /\ ClaimsGenuine' /\ FinalStays
    BY <1>0, <2>1 DEF ResultsGenuine, ClaimsGenuine, GenuineResult, Genuine, FinalStays, Final
  <2>4. EffectsKept'
    BY <1>0, <2>1, <2>2, EffectsRemain DEF EffectsKept, EvidenceGrows
  <2> QED
    BY <2>3, <2>4, <2>2 DEF EvidenceInv
<1>2. CASE DispJournal
  <2>1. disp.job \in Job /\ disp.out \in FinalOutcome /\ Genuine(disp.job, disp.out)
    BY <1>0, <1>2 DEF DispJournal, TaskOK, ClaimsGenuine, Genuine
  <2>2. /\ UNCHANGED <<jobStore, pending, archive, exec, upl, runs, effect>>
        /\ outcome' = Journaled(disp.job, disp.out) /\ disp'.out = disp.out /\ disp.pc = "journal"
    BY <1>0, <1>2 DEF DispJournal, AgentTypeOK
  <2>3. \A j \in Job : (outcome[j] # "none" => outcome'[j] # "none") /\ Genuine(j, outcome'[j])
    BY <1>0, <2>1, <2>2, JournaledKeeps
  <2>4. EvidenceGrows
    BY <1>0, <2>2, <2>3, EvidenceRemains
  <2>5. ResultsGenuine' /\ ClaimsGenuine' /\ FinalStays
    BY <1>0, <2>2, <2>3 DEF ResultsGenuine, ClaimsGenuine, GenuineResult, Genuine,
                            FinalStays, Final
  <2>6. EffectsKept'
    BY <1>0, <2>2, <2>4, EffectsRemain DEF EffectsKept, EvidenceGrows
  <2> QED
    BY <2>5, <2>6, <2>4 DEF EvidenceInv
<1>3. CASE DispEnqueue
  <2> DEFINE r == ResultOf(disp.job, disp.out)
  <2>1. disp.job \in Job /\ disp.out # "completed"
    BY <1>0, <1>3 DEF DispEnqueue, TaskOK, ClaimsGenuine
  <2>2. /\ UNCHANGED <<jobStore, outcome, archive, exec, upl, runs, effect>>
        /\ pending' = Enqueued(r) /\ disp'.pc = "accepting"
    BY <1>0, <1>3 DEF DispEnqueue, AgentTypeOK
  <2>3. GenuineResult(r) /\ r.job \in Job
    BY <2>1, ResultsOf DEF GenuineResult, Genuine
  <2> HIDE DEF r
  <2>4. /\ \A p \in pending : \E q \in pending' : q.job = p.job
        /\ \A q \in pending' : GenuineResult(q)'
    BY <1>0, <2>2, <2>3, EnqueuedGenuine
  <2>5. EvidenceGrows
    BY <1>0, <2>2, <2>4, EvidenceRemains
  <2>6. ResultsGenuine' /\ ClaimsGenuine' /\ FinalStays
    BY <1>0, <2>2, <2>4 DEF ResultsGenuine, ClaimsGenuine, GenuineResult, Genuine,
                            FinalStays, Final
  <2>7. EffectsKept'
    BY <1>0, <2>2, <2>5, EffectsRemain DEF EffectsKept, EvidenceGrows
  <2> QED
    BY <2>6, <2>7, <2>5 DEF EvidenceInv
<1>4. ASSUME NEW j \in Job, RejectAction(j) PROVE EvidenceInv' /\ FinalStays /\ EvidenceGrows
  <2>1. /\ UNCHANGED <<outcome, pending, archive, exec, upl, runs, effect>>
        /\ j \in InvalidAction /\ disp'.out \in {"duplicate", Refusal(j)}
        /\ jobStore' = jobStore \/ (~Final(jobStore[j]) /\ jobStore' = [jobStore EXCEPT ![j] = StatusOf[Refusal(j)]])
    BY <1>4 DEF RejectAction
  <2>2. Refusal(j) \in FinalOutcome /\ Refusal(j) # "completed"
    BY <2>1, RejectionTyped, CompletedStatus
  <2>3. StatusOf[Refusal(j)] \in FinalStatus \ {"completed"}
    BY <2>2, CompletedStatus, FinalOutcomeStatus
  <2>4. EvidenceGrows
    BY <1>0, <2>1, EvidenceRemains
  <2>5. ResultsGenuine' /\ FinalStays
    BY <1>0, <2>1, <2>3 DEF ResultsGenuine, GenuineResult, Genuine, FinalStays, Final,
                            AgentTypeOK
  <2>6. ClaimsGenuine'
    BY <1>0, <2>1, <2>2, <2>3 DEF ClaimsGenuine, Genuine, AgentTypeOK
  <2>7. EffectsKept'
    BY <1>0, <2>1, <2>4, EffectsRemain DEF EffectsKept, EvidenceGrows, AgentTypeOK, Carried
  <2> QED
    BY <2>5, <2>6, <2>7, <2>4 DEF EvidenceInv
<1> QED
  BY <1>1, <1>2, <1>3, <1>4

\* The Execute task.
LEMMA ExecuteEvidence ==
  ASSUME AgentInv, EvidenceInv,
         \/ StartGranted \/ StartRefused \/ StartFailed
         \/ ExecBegin \/ ExecPersist \/ ExecFinish \/ ExecJournal \/ ExecQueue
         \/ ExecEnqueue \/ ExecRemove \/ ExecFault
         \/ \E o \in {"completed", "failed"} : Perform(o)
         \/ \E j \in Job : ExecDrop(j) \/ ExecDoubt(j) \/ ExecValidate(j)
  PROVE  EvidenceInv' /\ FinalStays /\ EvidenceGrows
<1>0. AgentTypeOK /\ TaskOK /\ RunsGuarded /\ ResultsGenuine /\ ClaimsGenuine /\ EffectsKept
  BY DEF AgentInv, EvidenceInv
<1> USE DEF files, tasks, history, bounds
<1> DEFINE early == {"idle", "starting", "granted", "running"}
<1>1. CASE \/ StartGranted \/ StartFailed \/ StartRefused \/ ExecQueue \/ ExecFault \/ ExecRemove
           \/ \E j \in Job : ExecDoubt(j) \/ ExecDrop(j)
  <2>1. /\ UNCHANGED <<jobStore, outcome, pending, archive, disp, upl, runs, effect>>
        /\ exec'.pc \notin early => Genuine(exec'.job, exec'.out)
        /\ exec'.pc \in {"running", "finish", "lost_final"} => exec' = exec
    <3>1. CASE StartGranted \/ StartFailed \/ StartRefused \/ ExecQueue \/ ExecRemove
      BY <1>0, <3>1 DEF StartGranted, StartFailed, StartRefused, ExecQueue, ExecRemove,
                        ExecAt, ExecGo,
                        ExecWith, Idle, Genuine, ClaimsGenuine, AgentTypeOK
    <3>2. CASE ExecFault
      BY <1>0, <3>2 DEF ExecFault, Fault, ExecAt, ExecWith, Idle, Genuine
    <3>3. ASSUME NEW j \in Job, ExecDoubt(j) \/ ExecDrop(j) PROVE <2>1!:
      BY <1>0, <3>3 DEF ExecDoubt, ExecDrop, Pick, ExecAt, Genuine
    <3> QED
      BY <1>1, <3>1, <3>2, <3>3
  <2>2. EvidenceGrows
    BY <1>0, <2>1, EvidenceRemains
  <2>3. ResultsGenuine' /\ ClaimsGenuine' /\ FinalStays
    BY <1>0, <2>1 DEF ResultsGenuine, ClaimsGenuine, GenuineResult, Genuine, FinalStays, Final
  <2>4. EffectsKept'
    BY <1>0, <2>1, <2>2, EffectsRemain DEF EffectsKept, EvidenceGrows
  <2> QED
    BY <2>3, <2>4, <2>2 DEF EvidenceInv
<1>2. CASE ExecPersist \/ ExecJournal
  <2>1. exec.job \in Job /\ exec.out \in FinalOutcome /\ Genuine(exec.job, exec.out)
    BY <1>0, <1>2 DEF ExecPersist, ExecJournal, ExecAt, TaskOK, ClaimsGenuine
  <2>2. /\ UNCHANGED <<jobStore, pending, archive, disp, upl, runs, effect>>
        /\ outcome' = Journaled(exec.job, exec.out)
        /\ exec'.job = exec.job /\ exec'.out = exec.out /\ exec'.pc \in {"finish", "queue"}
    BY <1>0, <1>2 DEF ExecPersist, ExecJournal, ExecGo, AgentTypeOK
  <2>3. /\ outcome'[exec.job] # "none"
        /\ \A j \in Job : (outcome[j] # "none" => outcome'[j] # "none") /\ Genuine(j, outcome'[j])
    BY <1>0, <2>1, <2>2, JournaledKeeps
  <2>4. EvidenceGrows /\ exec.job \in Evidenced'
    <3>1. EvidenceGrows
      BY <1>0, <2>2, <2>3, EvidenceRemains
    <3> QED
      BY <3>1, <2>1, <2>3 DEF Evidenced, Evidence
  <2>5. ResultsGenuine' /\ ClaimsGenuine' /\ FinalStays
    BY <1>0, <2>1, <2>2, <2>3 DEF ResultsGenuine, ClaimsGenuine, GenuineResult, Genuine,
                                  FinalStays, Final
  <2>6. EffectsKept'
    BY <1>0, <2>2, <2>4, EffectsRemain
  <2> QED
    BY <2>5, <2>6, <2>4 DEF EvidenceInv
<1>3. CASE ExecFinish
  <2>1. exec.job \in Job /\ exec.out \in FinalOutcome /\ Genuine(exec.job, exec.out)
    BY <1>0, <1>3 DEF ExecFinish, ExecAt, TaskOK, ClaimsGenuine
  <2>2. /\ UNCHANGED <<outcome, pending, archive, disp, upl, runs, effect>>
        /\ jobStore' = [jobStore EXCEPT ![exec.job] = StatusOf[exec.out]]
        /\ exec'.job = exec.job /\ exec'.out = exec.out /\ exec'.pc \in {"journal", "queue"}
    BY <1>0, <1>3 DEF ExecFinish, ExecGo, AgentTypeOK
  <2>3. StatusOf[exec.out] \in FinalStatus /\ Genuine(exec.job, StatusOf[exec.out])
    BY <2>1, FinalOutcomeStatus, CompletedStatus DEF Genuine
  <2>4. EvidenceGrows /\ exec.job \in Evidenced
    BY <1>0, <1>3, <2>2, EvidenceRemains DEF EffectsKept, ExecFinish, ExecAt
  <2>5. ResultsGenuine' /\ FinalStays
    BY <1>0, <2>2, <2>3 DEF ResultsGenuine, GenuineResult, Genuine, FinalStays, Final,
                            AgentTypeOK
  <2>6. ClaimsGenuine'
    BY <1>0, <2>1, <2>2, <2>3 DEF ClaimsGenuine, Genuine, AgentTypeOK
  <2>7. EffectsKept'
    BY <1>0, <2>2, <2>4, EffectsRemain DEF AgentTypeOK, EvidenceGrows
  <2> QED
    BY <2>5, <2>6, <2>7, <2>4 DEF EvidenceInv
<1>4. CASE ExecEnqueue
  <2> DEFINE r == ResultOf(exec.job, exec.out)
  <2>1. exec.job \in Job /\ Genuine(exec.job, exec.out)
    BY <1>0, <1>4 DEF ExecEnqueue, ExecAt, TaskOK, ClaimsGenuine
  <2>2. /\ UNCHANGED <<jobStore, outcome, archive, disp, upl, runs, effect>>
        /\ pending' = Enqueued(r) /\ exec'.pc = "remove" /\ exec'.job = exec.job /\ exec'.out = exec.out
    BY <1>0, <1>4 DEF ExecEnqueue, ExecGo, AgentTypeOK
  <2>3. GenuineResult(r) /\ r.job \in Job
    BY <2>1, ResultsOf DEF GenuineResult
  <2> HIDE DEF r
  <2>4. /\ \A p \in pending : \E q \in pending' : q.job = p.job
        /\ \A q \in pending' : GenuineResult(q)'
    BY <1>0, <2>2, <2>3, EnqueuedGenuine
  <2>5. EvidenceGrows
    BY <1>0, <2>2, <2>4, EvidenceRemains
  <2>6. ResultsGenuine' /\ ClaimsGenuine' /\ FinalStays
    BY <1>0, <2>1, <2>2, <2>4 DEF ResultsGenuine, ClaimsGenuine, GenuineResult, Genuine,
                                  FinalStays, Final
  <2>7. EffectsKept'
    BY <1>0, <2>2, <2>5, EffectsRemain
  <2> QED
    BY <2>6, <2>7, <2>5 DEF EvidenceInv
<1>5. ASSUME NEW o \in {"completed", "failed"}, Perform(o)
        PROVE EvidenceInv' /\ FinalStays /\ EvidenceGrows
  <2>1. exec.job \in Job /\ exec.pc = "running" /\ runs[exec.job] = 0
    BY <1>0, <1>5 DEF Perform, ExecAt, TaskOK, RunsGuarded
  <2>2. exec.job \notin InvalidAction /\ effect[exec.job] = "none"
    BY <1>0, <2>1 DEF EffectsKept
  <2>3. /\ UNCHANGED <<jobStore, outcome, pending, archive, disp, upl>>
        /\ exec' = [pc |-> "persist", job |-> exec.job, out |-> o]
        /\ runs' = [runs EXCEPT ![exec.job] = @ + 1] /\ effect' = [effect EXCEPT ![exec.job] = o]
    BY <1>5 DEF Perform, ExecWith
  <2>4. EvidenceGrows
    BY <1>0, <2>3, EvidenceRemains
  <2>5. \A j \in Job : effect[j] = "completed" => effect'[j] = "completed"
    BY <1>0, <2>2, <2>3 DEF AgentTypeOK
  <2>6. \A r \in AgentResult : GenuineResult(r) => GenuineResult(r)'
    BY <2>5 DEF GenuineResult, Genuine, AgentResult
  <2>7. ResultsGenuine' /\ FinalStays
    BY <1>0, <2>3, <2>6 DEF ResultsGenuine, FinalStays, AgentTypeOK, TaskOK
  <2>8. ClaimsGenuine'
    BY <1>0, <2>1, <2>3, <2>5 DEF ClaimsGenuine, Genuine, AgentTypeOK
  <2>9. EffectsKept'
    <3>1. \A j \in Job : j # exec.job => runs'[j] = runs[j] /\ effect'[j] = effect[j]
      BY <1>0, <2>3 DEF AgentTypeOK
    <3>2. runs'[exec.job] = 1 /\ exec'.pc = "persist"
      BY <1>0, <2>1, <2>3 DEF AgentTypeOK
    <3>3. jobStore[exec.job] = "running" \/ exec.job \in Evidenced
      BY <1>0, <2>1 DEF EffectsKept, Carried
    <3> QED
      BY <1>0, <2>1, <2>2, <2>3, <2>4, <3>1, <3>2, <3>3 DEF EffectsKept, EvidenceGrows,
                                                            Carried
  <2> QED
    BY <2>7, <2>8, <2>9, <2>4 DEF EvidenceInv
<1>6. CASE ExecBegin
  <2>1. PICK s \in FinalStatus \cup {"running"} :
          /\ exec.job \in Job /\ runs[exec.job] = 0
          /\ UNCHANGED <<outcome, pending, archive, disp, upl, runs, effect>>
          /\ jobStore' = [jobStore EXCEPT ![exec.job] = s]
          /\ Final(jobStore[exec.job]) => s = jobStore[exec.job]
          /\ ~Final(jobStore[exec.job]) => s # "completed"
          /\ exec'.job = exec.job /\ exec'.pc \in {"journal", "running", "persist"}
          /\ exec.pc = "granted" /\ (exec'.pc = "running" => exec.job \notin InvalidAction /\ s = "running")
          /\ exec'.pc # "running" => exec'.out # "completed"
    <3>1. exec.job \in Job /\ runs[exec.job] = 0 /\ exec.pc = "granted"
      BY <1>0, <1>6 DEF ExecBegin, ExecAt, TaskOK, RunsGuarded
    <3>2. CASE Final(jobStore[exec.job])
      BY <1>0, <1>6, <3>1, <3>2 DEF ExecBegin, ExecWith, Final, AgentTypeOK
    <3>3. CASE ~Final(jobStore[exec.job]) /\ Refusal(exec.job) = "none"
      BY <1>0, <1>6, <3>1, <3>3 DEF ExecBegin, ExecGo, Refusal, AgentTypeOK
    <3>4. CASE ~Final(jobStore[exec.job]) /\ Refusal(exec.job) # "none"
      <4>1. /\ StatusOf[Refusal(exec.job)] \in FinalStatus \ {"completed"}
            /\ Refusal(exec.job) # "completed"
        BY <3>1, <3>4, RefusalTyped, FinalOutcomeStatus, CompletedStatus
      <4> QED
        BY <1>6, <3>1, <3>4, <4>1 DEF ExecBegin, ExecWith
    <3> QED
      BY <3>2, <3>3, <3>4
  <2>2. EvidenceGrows
    BY <1>0, <2>1, EvidenceRemains
  <2>3. ResultsGenuine' /\ FinalStays
    BY <1>0, <2>1 DEF ResultsGenuine, GenuineResult, Genuine, FinalStays, Final, AgentTypeOK
  <2>4. ClaimsGenuine'
    BY <1>0, <2>1 DEF ClaimsGenuine, Genuine, AgentTypeOK
  <2>5. EffectsKept'
    BY <1>0, <2>1, <2>2, EffectsRemain DEF AgentTypeOK, Carried
  <2> QED
    BY <2>3, <2>4, <2>5, <2>2 DEF EvidenceInv
<1>7. ASSUME NEW j \in Job, ExecValidate(j) PROVE EvidenceInv' /\ FinalStays /\ EvidenceGrows
  <2>1. PICK s \in FinalStatus \cup {"validated"} :
          /\ jobStore[j] \in {"none", "validated"} /\ s # "completed" /\ runs[j] = 0
          /\ UNCHANGED <<outcome, pending, archive, disp, upl, runs, effect>>
          /\ jobStore' = [jobStore EXCEPT ![j] = s]
          /\ exec.pc = "idle" /\ exec'.pc \in {"journal", "starting"} /\ exec'.out # "completed"
    <3>1. CASE Refusal(j) = "none"
      BY <1>0, <1>7, <3>1 DEF ExecValidate, Pick, ExecAt, RunsGuarded
    <3>2. CASE Refusal(j) # "none"
      <4>1. StatusOf[Refusal(j)] \in FinalStatus \ {"completed"} /\ Refusal(j) # "completed"
        BY <3>2, RefusalTyped, FinalOutcomeStatus, CompletedStatus
      <4> QED
        BY <1>0, <1>7, <3>2, <4>1 DEF ExecValidate, Pick, ExecAt, RunsGuarded
    <3> QED
      BY <3>1, <3>2
  <2>2. EvidenceGrows
    BY <1>0, <2>1, EvidenceRemains
  <2>3. ResultsGenuine' /\ FinalStays
    BY <1>0, <2>1, FinalIsLater DEF ResultsGenuine, GenuineResult, Genuine, FinalStays,
                                    Final, AgentTypeOK
  <2>4. ClaimsGenuine'
    BY <1>0, <2>1 DEF ClaimsGenuine, Genuine, AgentTypeOK
  <2>5. EffectsKept'
    BY <1>0, <2>1, <2>2, EffectsRemain DEF AgentTypeOK, Carried
  <2> QED
    BY <2>3, <2>4, <2>5, <2>2 DEF EvidenceInv
<1> QED
  BY <1>1, <1>2, <1>3, <1>4, <1>5, <1>6, <1>7

\* The Upload task.
LEMMA UploadEvidence ==
  ASSUME AgentInv, EvidenceInv,
         \/ ResultAccepted \/ ResultFailed \/ UplAcknowledge \/ UplFault
         \/ \E j \in Job : UplScan(j)
         \/ \E r \in pending : UplSend(r)
  PROVE  EvidenceInv' /\ FinalStays /\ EvidenceGrows
<1>0. AgentTypeOK /\ TaskOK /\ ResultsGenuine /\ ClaimsGenuine /\ EffectsKept
  BY DEF AgentInv, EvidenceInv
<1> USE DEF files, tasks, history, bounds
<1>1. CASE ResultAccepted \/ ResultFailed
  <2>1. /\ UNCHANGED <<jobStore, outcome, disp, exec, runs, effect>> /\ archive \subseteq archive'
        /\ pending' \subseteq pending /\ \A q \in pending : q \in pending' \/ q.id \in archive'
        /\ upl'.pc # "idle" => upl'.res = upl.res /\ upl.pc # "idle"
        /\ upl'.pc = "acked" => upl.res.id \in archive'
    BY <1>0, <1>1 DEF ResultAccepted, ResultFailed, UplIdle, AgentTypeOK
  <2>2. EvidenceGrows
    BY <1>0, <2>1, EvidenceRemains
  <2>3. ResultsGenuine' /\ ClaimsGenuine' /\ FinalStays
    BY <1>0, <2>1 DEF ResultsGenuine, ClaimsGenuine, GenuineResult, Genuine, FinalStays, Final
  <2>4. EffectsKept'
    BY <1>0, <2>1, <2>2, EffectsRemain DEF EffectsKept, EvidenceGrows
  <2> QED
    BY <2>3, <2>4, <2>2 DEF EvidenceInv
<1>2. CASE UplAcknowledge
  <2>1. /\ UNCHANGED <<jobStore, pending, archive, disp, exec, runs, effect>> /\ upl' = UplIdle
        /\ outcome' = [outcome EXCEPT ![upl.res.job] = "none"]
        /\ upl.res.id \in archive /\ upl.res.id[2] = upl.res.job
    BY <1>0, <1>2 DEF UplAcknowledge, ResultsGenuine, GenuineResult
  <2>2. EvidenceGrows
    BY <1>0, <2>1, EvidenceRemains DEF AgentTypeOK
  <2>3. ResultsGenuine' /\ ClaimsGenuine' /\ FinalStays
    BY <1>0, <2>1 DEF ResultsGenuine, ClaimsGenuine, GenuineResult, Genuine, FinalStays,
                      Final, UplIdle,
                      AgentTypeOK
  <2>4. EffectsKept'
    BY <1>0, <2>1, <2>2, EffectsRemain DEF EffectsKept, EvidenceGrows
  <2> QED
    BY <2>3, <2>4, <2>2 DEF EvidenceInv
<1>3. CASE UplFault
  <2>1. /\ UNCHANGED <<jobStore, outcome, archive, disp, exec, runs, effect>> /\ upl' = UplIdle
        /\ pending' = Enqueued(upl.res) /\ GenuineResult(upl.res) /\ upl.res.job \in Job
    BY <1>0, <1>3 DEF UplFault, Fault, ResultsGenuine, TaskOK, AgentResult
  <2>2. /\ \A p \in pending : \E q \in pending' : q.job = p.job
        /\ \A q \in pending' : GenuineResult(q)'
    BY <1>0, <2>1, EnqueuedGenuine
  <2>3. EvidenceGrows
    BY <1>0, <2>1, <2>2, EvidenceRemains
  <2>4. ResultsGenuine' /\ ClaimsGenuine' /\ FinalStays
    BY <1>0, <2>1, <2>2 DEF ResultsGenuine, ClaimsGenuine, GenuineResult, Genuine,
                            FinalStays, Final, UplIdle
  <2>5. EffectsKept'
    BY <1>0, <2>1, <2>3, EffectsRemain DEF EffectsKept, EvidenceGrows
  <2> QED
    BY <2>4, <2>5, <2>3 DEF EvidenceInv
<1>4. ASSUME NEW j \in Job, UplScan(j) PROVE EvidenceInv' /\ FinalStays /\ EvidenceGrows
  <2> DEFINE r == ResultOf(j, outcome[j])
  <2>1. UNCHANGED <<jobStore, archive, disp, exec, upl, runs, effect>>
    BY <1>4 DEF UplScan
  <2>2. GenuineResult(r) /\ r.job = j /\ r.id[2] = j
    BY <1>0, ResultsOf DEF GenuineResult, ClaimsGenuine
  <2>3. /\ \A p \in pending : \E q \in pending' : q.job = p.job
        /\ \A q \in pending' : GenuineResult(q)'
        /\ \A i \in Job : outcome[i] # "none" => outcome'[i] # "none" \/ \E id \in archive' : id[2] = i
        /\ \A i \in Job : outcome'[i] \in {outcome[i], "none"}
    <3>1. CASE Settled(j) /\ outcome' = [outcome EXCEPT ![j] = "none"] /\ UNCHANGED pending
      BY <1>0, <2>1, <2>2, <3>1
      DEF Settled, AgentTypeOK, ResultsGenuine, GenuineResult, Genuine
    <3>2. CASE pending' = Enqueued(r) /\ UNCHANGED outcome
      <4> HIDE DEF r
      <4> QED
        BY <1>0, <2>1, <2>2, <3>2, EnqueuedGenuine
    <3> QED
      BY <1>4, <3>1, <3>2 DEF UplScan
  <2>4. EvidenceGrows
    BY <1>0, <2>1, <2>3, EvidenceRemains
  <2>5. ResultsGenuine' /\ ClaimsGenuine' /\ FinalStays
    BY <1>0, <2>1, <2>3 DEF ResultsGenuine, ClaimsGenuine, GenuineResult, Genuine,
                            FinalStays, Final
  <2>6. EffectsKept'
    BY <1>0, <2>1, <2>4, EffectsRemain DEF EffectsKept, EvidenceGrows
  <2> QED
    BY <2>5, <2>6, <2>4 DEF EvidenceInv
<1>5. ASSUME NEW r \in pending, UplSend(r) PROVE EvidenceInv' /\ FinalStays /\ EvidenceGrows
  <2>1. r \in AgentResult /\ GenuineResult(r) /\ StatusOf[r.outcome] \in FinalStatus
        /\ Genuine(r.job, StatusOf[r.outcome])
    BY <1>0, FinalOutcomeStatus, CompletedStatus
    DEF AgentTypeOK, ResultsGenuine, GenuineResult, Genuine, AgentResult
  <2>2. /\ UNCHANGED <<outcome, pending, archive, disp, exec, runs, effect>>
        /\ upl' = [pc |-> "sending", res |-> r]
        /\ \A j \in Job : jobStore'[j] = jobStore[j] \/
              (jobStore[j] \in {"validated", "running"} /\ j = r.job /\ jobStore'[j] = StatusOf[r.outcome])
    BY <1>0, <1>5 DEF UplSend, AgentTypeOK
  <2>3. EvidenceGrows /\ r.job \in Evidenced
    <3>1. r.job \in Evidenced
      BY <2>1 DEF Evidenced, Evidence, PendingFor, AgentResult
    <3> QED
      BY <1>0, <2>2, <3>1, EvidenceRemains
  <2>4. ResultsGenuine' /\ FinalStays
    BY <1>0, <2>1, <2>2, FinalIsLater DEF ResultsGenuine, GenuineResult, Genuine, FinalStays,
                                          Final
  <2>5. ClaimsGenuine'
    BY <1>0, <2>1, <2>2 DEF ClaimsGenuine, Genuine
  <2>6. EffectsKept'
    BY <1>0, <2>2, <2>3, EffectsRemain DEF EffectsKept, EvidenceGrows
  <2> QED
    BY <2>4, <2>5, <2>6, <2>3 DEF EvidenceInv
<1> QED
  BY <1>1, <1>2, <1>3, <1>4, <1>5

\* Crash, restart and recovery, and the clock.
LEMMA RecoveryEvidence ==
  ASSUME AgentInv, EvidenceInv,
         \/ Crash \/ Restart \/ RecoverFinal \/ RecoverQueue \/ Recovered
         \/ \E j \in Job : RecoverLost(j) \/ AgentExpire(j)
  PROVE  EvidenceInv' /\ FinalStays /\ EvidenceGrows
<1>0. AgentTypeOK /\ TaskOK /\ ResultsGenuine /\ ClaimsGenuine /\ EffectsKept
  BY DEF AgentInv, EvidenceInv
<1> USE DEF files, tasks, history, bounds
<1>1. CASE Crash \/ Recovered \/ \E j \in Job : AgentExpire(j)
  <2>1. /\ UNCHANGED <<jobStore, outcome, pending, archive, runs, effect>>
        /\ exec' = exec \/ exec' = Idle
        /\ disp' = disp \/ disp' = DispIdle
        /\ upl' = upl \/ upl' = UplIdle
    BY <1>1 DEF Crash, Recovered, AgentExpire
  <2>2. EvidenceGrows
    BY <1>0, <2>1, EvidenceRemains
  <2>3. ResultsGenuine' /\ ClaimsGenuine' /\ FinalStays
    BY <1>0, <2>1 DEF ResultsGenuine, ClaimsGenuine, GenuineResult, Genuine, FinalStays,
                      Final,
                      Idle, DispIdle, UplIdle
  <2>4. EffectsKept'
    BY <1>0, <2>1, <2>2, EffectsRemain DEF EffectsKept, EvidenceGrows, Idle
  <2> QED
    BY <2>3, <2>4, <2>2 DEF EvidenceInv
<1>2. CASE Restart
  <2>1. /\ UNCHANGED <<outcome, pending, archive, disp, exec, upl, runs, effect>>
        /\ \A j \in Job : jobStore'[j] = jobStore[j] \/
              (~Final(jobStore[j]) /\ \E r \in pending : r.job = j /\ jobStore'[j] = StatusOf[r.outcome])
    BY <1>2 DEF Restart
  <2>2. \A r \in pending : r.outcome \in FinalOutcome /\ r.job \in Job /\ Genuine(r.job, StatusOf[r.outcome])
    BY <1>0, CompletedStatus DEF AgentTypeOK, AgentResult, ResultsGenuine, GenuineResult,
                                 Genuine
  <2>3. EvidenceGrows
    BY <1>0, <2>1, EvidenceRemains
  <2>4. \A j \in Job : jobStore'[j] # jobStore[j] => j \in Evidenced
    BY <2>1 DEF Evidenced, Evidence, PendingFor
  <2>5. ResultsGenuine' /\ FinalStays
    BY <1>0, <2>1 DEF ResultsGenuine, GenuineResult, Genuine, FinalStays
  <2>6. ClaimsGenuine'
    BY <1>0, <2>1, <2>2 DEF ClaimsGenuine, Genuine
  <2>7. EffectsKept'
    BY <1>0, <2>1, <2>3, <2>4, EffectsRemain DEF EffectsKept, EvidenceGrows
  <2> QED
    BY <2>5, <2>6, <2>7, <2>3 DEF EvidenceInv
<1>3. ASSUME NEW j \in Job, RecoverLost(j) PROVE EvidenceInv' /\ FinalStays /\ EvidenceGrows
  <2>1. /\ UNCHANGED <<jobStore, pending, archive, disp, upl, runs, effect>>
        /\ outcome' = Journaled(j, "lost_to_restart")
        /\ exec' = [pc |-> "lost_final", job |-> j, out |-> "lost_to_restart"]
    BY <1>3 DEF RecoverLost
  <2>2. "lost_to_restart" \in FinalOutcome /\ Genuine(j, "lost_to_restart")
    BY CompletedStatus DEF Genuine
  <2>3. /\ outcome'[j] # "none"
        /\ \A i \in Job : (outcome[i] # "none" => outcome'[i] # "none") /\ Genuine(i, outcome'[i])
    BY <1>0, <2>1, <2>2, JournaledKeeps
  <2>4. EvidenceGrows /\ j \in Evidenced'
    <3>1. EvidenceGrows
      BY <1>0, <2>1, <2>3, EvidenceRemains
    <3> QED
      BY <3>1, <2>3 DEF Evidenced, Evidence
  <2>5. ResultsGenuine' /\ ClaimsGenuine' /\ FinalStays
    BY <1>0, <2>1, <2>2, <2>3 DEF ResultsGenuine, ClaimsGenuine, GenuineResult, Genuine,
                                  FinalStays, Final
  <2>6. EffectsKept'
    BY <1>0, <2>1, <2>4, EffectsRemain
  <2> QED
    BY <2>5, <2>6, <2>4 DEF EvidenceInv
<1>4. CASE RecoverFinal
  <2>1. /\ UNCHANGED <<outcome, pending, archive, disp, upl, runs, effect>>
        /\ jobStore' = [jobStore EXCEPT ![exec.job] = "failed"]
        /\ exec'.pc = "lost_queue" /\ exec'.job = exec.job /\ exec'.out = exec.out
        /\ exec.pc = "lost_final"
    BY <1>0, <1>4 DEF RecoverFinal, ExecAt, ExecGo, AgentTypeOK
  <2>2. EvidenceGrows /\ exec.job \in Evidenced
    BY <1>0, <2>1, EvidenceRemains DEF EffectsKept
  <2>3. ResultsGenuine' /\ FinalStays
    BY <1>0, <2>1 DEF ResultsGenuine, GenuineResult, Genuine, FinalStays, Final, FinalStatus,
                      AgentTypeOK
  <2>4. ClaimsGenuine'
    BY <1>0, <2>1 DEF ClaimsGenuine, Genuine, AgentTypeOK
  <2>5. EffectsKept'
    BY <1>0, <2>1, <2>2, EffectsRemain DEF AgentTypeOK, EvidenceGrows
  <2> QED
    BY <2>3, <2>4, <2>5, <2>2 DEF EvidenceInv
<1>5. CASE RecoverQueue
  <2> DEFINE r == RecoveredResult(exec.job)
  <2>1. exec.job \in Job
    BY <1>0, <1>5 DEF RecoverQueue, ExecAt, TaskOK
  <2>2. /\ UNCHANGED <<jobStore, outcome, archive, disp, upl, runs, effect>>
        /\ pending' = Enqueued(r) /\ exec' = Idle
    BY <1>5 DEF RecoverQueue
  <2>3. GenuineResult(r) /\ r.job \in Job
    BY <2>1, ResultsOf DEF GenuineResult, Genuine
  <2> HIDE DEF r
  <2>4. /\ \A p \in pending : \E q \in pending' : q.job = p.job
        /\ \A q \in pending' : GenuineResult(q)'
    BY <1>0, <2>2, <2>3, EnqueuedGenuine
  <2>5. EvidenceGrows
    BY <1>0, <2>2, <2>4, EvidenceRemains
  <2>6. ResultsGenuine' /\ ClaimsGenuine' /\ FinalStays
    BY <1>0, <2>2, <2>4 DEF ResultsGenuine, ClaimsGenuine, GenuineResult, Genuine,
                            FinalStays, Final, Idle
  <2>7. EffectsKept'
    BY <1>0, <2>2, <2>5, EffectsRemain DEF Idle
  <2> QED
    BY <2>6, <2>7, <2>5 DEF EvidenceInv
<1> QED
  BY <1>1, <1>2, <1>3, <1>4, <1>5

\* All steps together.
LEMMA EvidenceStep ==
  AgentInv /\ EvidenceInv /\ [AgentNext]_agentVars => EvidenceInv' /\ FinalStays /\ EvidenceGrows
<1> SUFFICES ASSUME AgentInv, EvidenceInv, [AgentNext]_agentVars
             PROVE  EvidenceInv' /\ FinalStays /\ EvidenceGrows
  OBVIOUS
<1>1. CASE UNCHANGED agentVars
  BY <1>1 DEF agentVars, files, tasks, history, bounds, EvidenceInv, ResultsGenuine,
              ClaimsGenuine, EffectsKept,
              GenuineResult, Genuine, Carried, Evidenced, Evidence, PendingFor, FinalStays, EvidenceGrows
<1>2. CASE AgentNext
  BY <1>2, DispatchEvidence, ExecuteEvidence, UploadEvidence, RecoveryEvidence
  DEF AgentNext, AgentWork, AgentMishap, NoAnswer, Answered
<1> QED
  BY <1>1, <1>2

\* The strengthening the three properties rest on.
THEOREM AgentEvidence == AgentSpec => []EvidenceInv
BY AgentInvariant, EvidenceInit, EvidenceStep, PTL DEF AgentSpec

\* A final record stays final, whatever fails and whenever the process stops: so Accept,
\* Prepare and Execute may rely on it.
THEOREM AgentKeepsFinal == AgentSpec => LocalFinalIsForever
<1>1. AgentInv /\ EvidenceInv /\ [AgentNext]_agentVars =>
        [\A j \in Job : Final(jobStore[j]) => Final(jobStore'[j])]_agentVars
  BY EvidenceStep DEF FinalStays
<1> QED
  BY <1>1, AgentInvariant, AgentEvidence, PTL DEF AgentSpec, LocalFinalIsForever

\* An operation that was carried out leaves evidence on disk until a result of its job is
\* acknowledged.
THEOREM AgentKeepsEvidence == AgentSpec => []EffectIsNeverForgotten
<1>1. AgentInv /\ EvidenceInv => EffectIsNeverForgotten
  BY DEF EvidenceInv, EffectsKept, Carried, Evidenced, EffectIsNeverForgotten
<1> QED
  BY <1>1, AgentInvariant, AgentEvidence, PTL

\* A job is called completed in the store only if its operation ended well.
THEOREM AgentCompletedTrue == AgentSpec => []CompletedIsTrue
<1>1. EvidenceInv => CompletedIsTrue
  BY DEF EvidenceInv, ClaimsGenuine, Genuine, CompletedIsTrue
<1> QED
  BY <1>1, AgentEvidence, PTL
-----------------------------------------------------------------------------
\* A task has closed the record of j, or found it closed, and has yet to journal it.
Journaling(j) ==
  \/ disp.pc = "journal" /\ disp.job = j
  \/ exec.pc \in {"persist", "journal"} /\ exec.job = j

\* As long as nothing failed, a record is closed on evidence or about to be journaled.
ClosedInv ==
  crashes + faults = 0 =>
    /\ mode = "up" /\ exec.pc \notin {"lost_final", "lost_queue"}
    /\ \A j \in Job : Final(jobStore[j]) => j \in Evidenced \/ Journaling(j)

\* What keeps that: a record is closed by a task that will journal it or on evidence, and
\* a task leaves its place only by journaling.
LEMMA ClosedRemains ==
  ASSUME ClosedInv, EvidenceGrows, UNCHANGED <<crashes, faults, mode>>,
         exec' = exec \/ exec'.pc \notin {"lost_final", "lost_queue"},
         \A j \in Job : Final(jobStore'[j]) => Final(jobStore[j]) \/ j \in Evidenced' \/ Journaling(j)',
         \A j \in Job : Journaling(j) => Journaling(j)' \/ j \in Evidenced'
  PROVE  ClosedInv'
BY DEF ClosedInv, EvidenceGrows

\* The Dispatch task.
LEMMA DispatchCloses ==
  ASSUME AgentInv, EvidenceInv, ClosedInv, EvidenceGrows,
         \/ DispPull \/ DispJournal \/ DispQueue \/ DispEnqueue \/ DispDone \/ PullFailed
         \/ \E j \in Job : Accept(j) \/ RejectAction(j)
         \/ \E S \in SUBSET Job : PullAnswered(S)
  PROVE  ClosedInv'
<1>0. AgentTypeOK /\ TaskOK
  BY DEF AgentInv
<1> USE DEF files, tasks, history, bounds
<1>1. CASE \/ DispPull \/ DispQueue \/ DispEnqueue \/ DispDone \/ PullFailed
           \/ \E j \in Job : Accept(j)
           \/ \E S \in SUBSET Job : PullAnswered(S)
  <2>1. UNCHANGED <<crashes, faults, mode, jobStore, exec>> /\ disp.pc # "journal"
    BY <1>1 DEF DispPull, DispQueue, DispEnqueue, DispDone, PullFailed, Accept, PullAnswered
  <2> QED
    BY <2>1, ClosedRemains DEF Journaling
<1>2. CASE DispJournal
  <2>1. disp.job \in Job /\ disp.out \in FinalOutcome /\ Genuine(disp.job, disp.out)
    BY <1>0, <1>2 DEF DispJournal, EvidenceInv, TaskOK, ClaimsGenuine, Genuine
  <2>2. UNCHANGED <<crashes, faults, mode, jobStore, exec, effect>> /\ outcome' = Journaled(disp.job, disp.out)
    BY <1>2 DEF DispJournal
  <2>3. disp.job \in Evidenced'
    BY <1>0, <2>1, <2>2, JournaledKeeps DEF EvidenceInv, Evidenced, Evidence
  <2> QED
    BY <2>2, <2>3, ClosedRemains DEF Journaling
<1>3. ASSUME NEW j \in Job, RejectAction(j) PROVE ClosedInv'
  <2>1. UNCHANGED <<crashes, faults, mode, exec>> /\ disp.pc # "journal"
    BY <1>3 DEF RejectAction
  <2>2. disp'.pc = "journal" /\ disp'.job = j /\ \A i \in Job \ {j} : jobStore'[i] = jobStore[i]
    BY <1>0, <1>3 DEF RejectAction, AgentTypeOK
  <2> QED
    BY <2>1, <2>2, ClosedRemains DEF Journaling
<1> QED
  BY <1>1, <1>2, <1>3

\* The Execute task.
LEMMA ExecuteCloses ==
  ASSUME AgentInv, EvidenceInv, ClosedInv, EvidenceGrows,
         \/ StartGranted \/ StartRefused \/ StartFailed
         \/ ExecBegin \/ ExecPersist \/ ExecFinish \/ ExecJournal \/ ExecQueue
         \/ ExecEnqueue \/ ExecRemove
         \/ \E o \in {"completed", "failed"} : Perform(o)
         \/ \E j \in Job : ExecDrop(j) \/ ExecDoubt(j) \/ ExecValidate(j)
  PROVE  ClosedInv'
<1>0. AgentTypeOK /\ TaskOK /\ ClaimsGenuine /\ EffectsKept
  BY DEF AgentInv, EvidenceInv
<1> USE DEF files, tasks, history, bounds
<1>a. exec' = exec \/ exec'.pc \notin {"lost_final", "lost_queue"}
  <2>1. CASE ExecBegin \/ ExecPersist \/ ExecFinish \/ ExecJournal \/ ExecQueue \/ ExecEnqueue
    BY <1>0, <2>1 DEF ExecBegin, ExecPersist, ExecFinish, ExecJournal, ExecQueue,
                      ExecEnqueue, ExecGo,
                      ExecWith, AgentTypeOK
  <2>2. CASE \/ StartGranted \/ StartRefused \/ StartFailed \/ ExecRemove
             \/ \E o \in {"completed", "failed"} : Perform(o)
             \/ \E j \in Job : ExecDrop(j) \/ ExecDoubt(j) \/ ExecValidate(j)
    BY <1>0, <2>2 DEF StartGranted, StartRefused, StartFailed, ExecRemove, Perform, ExecDrop,
                      ExecDoubt,
                      ExecValidate, ExecGo, ExecWith, Idle, AgentTypeOK
  <2> QED
    BY <2>1, <2>2
<1>1. CASE \/ StartGranted \/ StartRefused \/ StartFailed \/ ExecQueue \/ ExecEnqueue \/ ExecRemove
           \/ \E o \in {"completed", "failed"} : Perform(o)
           \/ \E j \in Job : ExecDrop(j) \/ ExecDoubt(j)
  <2>1. UNCHANGED <<crashes, faults, mode, jobStore, disp>> /\ exec.pc \notin {"persist", "journal"}
    BY <1>1 DEF StartGranted, StartRefused, StartFailed, ExecQueue, ExecEnqueue, ExecRemove,
                Perform,
                ExecDrop, ExecDoubt, Pick, ExecAt
  <2> QED
    BY <2>1, <1>a, ClosedRemains DEF Journaling
<1>2. CASE ExecPersist \/ ExecJournal
  <2>1. exec.job \in Job /\ exec.out \in FinalOutcome /\ Genuine(exec.job, exec.out)
    BY <1>0, <1>2 DEF ExecPersist, ExecJournal, ExecAt, TaskOK, ClaimsGenuine
  <2>2. UNCHANGED <<crashes, faults, mode, jobStore, disp, effect>> /\ outcome' = Journaled(exec.job, exec.out)
    BY <1>2 DEF ExecPersist, ExecJournal
  <2>3. exec.job \in Evidenced'
    BY <1>0, <2>1, <2>2, JournaledKeeps DEF Evidenced, Evidence
  <2> QED
    BY <2>2, <2>3, <1>a, ClosedRemains DEF Journaling
<1>3. CASE ExecFinish
  <2>1. UNCHANGED <<crashes, faults, mode, disp>> /\ exec.pc = "finish"
    BY <1>3 DEF ExecFinish, ExecAt
  <2>2. exec.job \in Evidenced /\ \A j \in Job \ {exec.job} : jobStore'[j] = jobStore[j]
    BY <1>0, <1>3, <2>1 DEF ExecFinish, EffectsKept, AgentTypeOK
  <2> QED
    BY <2>1, <2>2, <1>a, ClosedRemains DEF Journaling, EvidenceGrows
<1>4. CASE ExecBegin
  <2>1. /\ UNCHANGED <<crashes, faults, mode, disp>> /\ exec.pc = "granted"
        /\ \A j \in Job \ {exec.job} : jobStore'[j] = jobStore[j]
    BY <1>0, <1>4 DEF ExecBegin, ExecAt, AgentTypeOK
  <2>2. \A j \in Job : j = exec.job /\ Final(jobStore'[j]) => Journaling(j)'
    BY <1>0, <1>4, FinalIsLater DEF ExecBegin, ExecGo, ExecWith, Journaling, Final,
                                    AgentTypeOK
  <2> QED
    <3>1. \A j \in Job : Final(jobStore'[j]) => Final(jobStore[j]) \/ Journaling(j)'
      BY <2>1, <2>2 DEF Final
    <3>2. \A j \in Job : Journaling(j) => Journaling(j)'
      BY <2>1 DEF Journaling
    <3> QED
      BY <2>1, <3>1, <3>2, <1>a, ClosedRemains
<1>5. ASSUME NEW j \in Job, ExecValidate(j) PROVE ClosedInv'
  <2>1. /\ UNCHANGED <<crashes, faults, mode, disp>> /\ exec.pc = "idle"
        /\ \A i \in Job \ {j} : jobStore'[i] = jobStore[i]
    BY <1>0, <1>5 DEF ExecValidate, Pick, ExecAt, AgentTypeOK
  <2>2. Final(jobStore'[j]) => Journaling(j)'
    BY <1>0, <1>5, FinalIsLater DEF ExecValidate, Journaling, Final, AgentTypeOK
  <2> QED
    BY <2>1, <2>2, <1>a, ClosedRemains DEF Journaling
<1> QED
  BY <1>1, <1>2, <1>3, <1>4, <1>5

\* The Upload task and the clock.
LEMMA UploadCloses ==
  ASSUME AgentInv, EvidenceInv, ClosedInv, EvidenceGrows,
         \/ ResultAccepted \/ ResultFailed \/ UplAcknowledge
         \/ \E j \in Job : UplScan(j) \/ AgentExpire(j)
         \/ \E r \in pending : UplSend(r)
  PROVE  ClosedInv'
<1> USE DEF files, tasks, history, bounds
<1>1. UNCHANGED <<crashes, faults, mode, disp, exec>>
  BY DEF ResultAccepted, ResultFailed, UplAcknowledge, UplScan, AgentExpire, UplSend
<1>2. \A j \in Job : Final(jobStore'[j]) => Final(jobStore[j]) \/ j \in Evidenced
  <2>1. CASE \/ ResultAccepted \/ ResultFailed \/ UplAcknowledge
             \/ \E j \in Job : UplScan(j) \/ AgentExpire(j)
    BY <2>1 DEF ResultAccepted, ResultFailed, UplAcknowledge, UplScan, AgentExpire
  <2>2. ASSUME NEW r \in pending, UplSend(r) PROVE <1>2!:
    <3>1. \A j \in Job : jobStore'[j] # jobStore[j] => j = r.job
      BY <2>2 DEF UplSend, AgentInv, AgentTypeOK
    <3> QED
      BY <3>1 DEF Evidenced, Evidence, PendingFor
  <2> QED
    BY <2>1, <2>2
<1> QED
  BY <1>1, <1>2, ClosedRemains DEF Journaling, EvidenceGrows

\* All steps together: recovery does not start before something failed.
LEMMA ClosedStep ==
  AgentInv /\ EvidenceInv /\ ClosedInv /\ [AgentNext]_agentVars => ClosedInv'
<1> SUFFICES ASSUME AgentInv, EvidenceInv, ClosedInv, [AgentNext]_agentVars PROVE ClosedInv'
  OBVIOUS
<1>0. AgentTypeOK /\ EvidenceGrows
  BY EvidenceStep DEF AgentInv
<1>1. CASE UNCHANGED agentVars
  BY <1>1 DEF agentVars, files, tasks, history, bounds, ClosedInv, Journaling, Evidenced,
              Evidence, PendingFor
<1>2. CASE AgentMishap
  <2>1. crashes \in Nat /\ faults \in Nat
    BY <1>0, AgentAssumption DEF AgentTypeOK
  <2>2. crashes' + faults' # 0
    BY <1>2, <2>1 DEF AgentMishap, Crash, DispFault, ExecFault, UplFault, Fault
  <2> QED
    BY <2>2 DEF ClosedInv
<1>3. CASE Restart \/ RecoverFinal \/ RecoverQueue \/ Recovered \/ \E j \in Job : RecoverLost(j)
  <2>1. UNCHANGED <<crashes, faults>>
    BY <1>3 DEF Restart, RecoverFinal, RecoverQueue, Recovered, RecoverLost, bounds
  <2>2. mode # "up" \/ exec.pc \in {"lost_final", "lost_queue"}
    BY <1>3 DEF Restart, RecoverFinal, RecoverQueue, Recovered, RecoverLost, ExecAt
  <2> QED
    BY <2>1, <2>2 DEF ClosedInv
<1> QED
  BY <1>0, <1>1, <1>2, <1>3, DispatchCloses, ExecuteCloses, UploadCloses
  DEF AgentNext, AgentWork, NoAnswer, Answered

\* A job the agent has closed for itself is reported, as long as nothing fails in between:
\* the order of the writes is the only thing this needs.
THEOREM AgentReportsClosed == AgentSpec => []ClosedIsReported
<1>1. AgentInit => ClosedInv
  BY FinalIsLater DEF AgentInit, ClosedInv, Final, Idle
<1>2. AgentInv /\ EvidenceInv /\ ClosedInv /\ [AgentNext]_agentVars => ClosedInv'
  BY ClosedStep
<1>3. ClosedInv => ClosedIsReported
  BY DEF ClosedInv, Journaling, ClosedIsReported, Evidenced
<1> QED
  BY <1>1, <1>2, <1>3, AgentInvariant, AgentEvidence, PTL DEF AgentSpec
=============================================================================
