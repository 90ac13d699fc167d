------------------------- MODULE JobPipelineProofs -------------------------
(*****************************************************************************)
(* Proofs about the server's rows and about the pipeline. ServerJobs, for   *)
(* any number of jobs, results, receipts and operators: an acknowledged     *)
(* final result closes its job, a closed job is never opened again, a       *)
(* started job is handed out again only if the agent reports that it is not *)
(* begun, only an unlocked save replaces a final status, and what a row     *)
(* records is what a receipt says.                                          *)
(*                                                                           *)
(* JobPipeline: it is a server and an agent, each doing what its own        *)
(* specification allows; only granted work is carried out, and it is never  *)
(* handed out again; the pipeline keeps the contract stated by JobContract; *)
(* and what was carried out reaches the server, which calls nothing         *)
(* completed that was not.                                                  *)
(*****************************************************************************)
EXTENDS TLAPS, JobPipeline, AgentJobsProofs

(* The rows of the server.                                                  *)

ServerInv == ServerTypeOK /\ AcknowledgedIsFinal

\* What the agent may report is a status of a job, final if the outcome is.
LEMMA OutcomeStatus ==
  /\ \A o \in Outcome : StatusOf[o] \in Status
  /\ \A o \in FinalOutcome : StatusOf[o] \in FinalStatus
BY DEF Outcome, FinalOutcome, StatusOf, Status, FinalStatus

\* Final statuses are none of the open ones.
LEMMA FinalOrOpen ==
  /\ FinalStatus \cap {"queued", "sent", "running"} = {}
  /\ {"expired", "cancelled", "unsupported", "timed_out", "failed"} \subseteq FinalStatus
BY DEF FinalStatus

\* A result that says job j is in the status it is given now arrives in this step.
Told(j) == \E r \in receipts' \ receipts : r.job = j /\ StatusOf[r.outcome] = status'[j]

\* What a step may do to the status of a job: nothing opens a closed one, and one that
\* runs is queued or sent again only if a result says so.
Advances ==
  \A j \in Job :
    /\ status[j] \in FinalStatus => status'[j] \in FinalStatus
    /\ status[j] = "running" => status'[j] \in FinalStatus \cup {"running"} \/ Told(j)

\* A step that only advances the statuses, and adds no receipt and no grant,
\* keeps the invariant.
LEMMA AdvanceKeepsInv ==
  ASSUME ServerInv, Advances, status' \in [Job -> Status],
         UNCHANGED <<recorded, receipts, granted, disputed>>,
         lapsed' \in [Job -> BOOLEAN],
         barred' \in [Job -> {"no", "cancelled", "unsupported"}],
         held' \in [Writer -> Task \cup {NoTask}]
  PROVE  ServerInv'
<1>1. ServerTypeOK'
  BY DEF ServerInv, ServerTypeOK
<1>2. AcknowledgedIsFinal'
  BY DEF ServerInv, ServerTypeOK, AcknowledgedIsFinal, Advances, Result, IsFinal
<1> QED
  BY <1>1, <1>2 DEF ServerInv

\* A handler that sets one open job to a final status advances the statuses.
LEMMA CloseOne ==
  ASSUME ServerTypeOK, NEW j \in Job, NEW s \in FinalStatus \cup {"running"},
         s \in FinalStatus \/ status[j] \notin FinalStatus,
         status' = [status EXCEPT ![j] = s]
  PROVE  Advances /\ status' \in [Job -> Status]
BY DEF ServerTypeOK, Advances, Status

LEMMA ServerInitInv == ServerInit => ServerInv
<1> SUFFICES ASSUME ServerInit PROVE ServerInv
  OBVIOUS
<1>1. ServerTypeOK
  BY DEF ServerInit, ServerTypeOK, Status
<1>2. AcknowledgedIsFinal
  BY DEF ServerInit, AcknowledgedIsFinal
<1> QED
  BY <1>1, <1>2 DEF ServerInv

\* The agent's requests.
LEMMA RequestInv ==
  ASSUME ServerInv,
         \/ \E B \in SUBSET Job : Pull(B)
         \/ \E j \in Job : Start(j) \/ RefuseStart(j)
         \/ \E r \in Result : AcceptResult(r) \/ ConflictingResult(r)
  PROVE  ServerInv' /\ Advances
<1>0. ServerTypeOK /\ AcknowledgedIsFinal
  BY DEF ServerInv
<1>1. CASE UNCHANGED serverVars
  BY <1>0, <1>1 DEF serverVars, ServerInv, ServerTypeOK, AcknowledgedIsFinal, Advances, IsFinal
<1>2. ASSUME NEW B \in SUBSET Job, Pull(B) PROVE ServerInv' /\ Advances
  <2>1. B \subseteq Candidates
    BY <1>2 DEF Pull, Batch
  <2>2. \A j \in Job : /\ barred[j] # "no" => barred[j] \in FinalStatus
                       /\ j \in B => status[j] \in {"queued", "sent"}
    BY <1>0, <2>1, FinalOrOpen DEF ServerTypeOK, Candidates
  <2>3. Advances /\ status' \in [Job -> Status]
    BY <1>0, <1>2, <2>2, FinalOrOpen DEF Pull, ServerTypeOK, Advances, Status
  <2> QED
    BY <1>0, <1>2, <2>3, AdvanceKeepsInv DEF Pull, ServerTypeOK
<1>3. ASSUME NEW j \in Job, Start(j) PROVE ServerInv' /\ Advances
  <2>1. Advances /\ status' \in [Job -> Status]
    BY <1>0, <1>3, FinalOrOpen, CloseOne DEF Start, MayStart
  <2>2. ServerTypeOK'
    BY <1>0, <1>3, <2>1 DEF Start, ServerTypeOK
  <2>3. AcknowledgedIsFinal'
    BY <1>0, <1>3, <2>1 DEF Start, AcknowledgedIsFinal, ServerTypeOK, Advances, Result, IsFinal
  <2> QED
    BY <2>1, <2>2, <2>3 DEF ServerInv
<1>4. ASSUME NEW r \in Result, LateResult(r) PROVE ServerInv' /\ Advances
  <2>1. Advances
    BY <1>4 DEF LateResult, Advances
  <2>2. r.job \in Job /\ status[r.job] \in FinalStatus
    BY <1>4 DEF LateResult, Result
  <2> QED
    BY <1>0, <1>4, <2>1, <2>2
    DEF LateResult, ServerInv, ServerTypeOK, AcknowledgedIsFinal, IsFinal
<1>5. ASSUME NEW r \in Result, SaveResult(r) PROVE ServerInv' /\ Advances
  <2>1. r.job \in Job /\ r.outcome \in Outcome
    BY DEF Result
  <2>2. StatusOf[r.outcome] \in Status /\ status[r.job] \notin FinalStatus
    BY <1>5, <2>1, OutcomeStatus DEF SaveResult
  <2>3. Advances /\ status' \in [Job -> Status]
    <3>1. status' \in [Job -> Status] /\ status'[r.job] = StatusOf[r.outcome]
      BY <1>0, <1>5, <2>1, <2>2 DEF SaveResult, ServerTypeOK
    <3>2. Told(r.job)
      BY <1>5, <3>1 DEF SaveResult, Told
    <3>3. \A j \in Job : j # r.job => status'[j] = status[j]
      BY <1>0, <1>5 DEF SaveResult, ServerTypeOK
    <3> QED
      BY <2>2, <3>1, <3>2, <3>3 DEF Advances
  <2>4. ServerTypeOK'
    BY <1>0, <1>5, <2>1, <2>3 DEF SaveResult, ServerTypeOK
  <2>5. AcknowledgedIsFinal'
    <3>1. \A q \in receipts : IsFinal(q.outcome) => status'[q.job] \in FinalStatus
      BY <1>0, <2>3 DEF AcknowledgedIsFinal, ServerTypeOK, Advances, Result
    <3>2. IsFinal(r.outcome) => status'[r.job] \in FinalStatus
      BY <1>0, <1>5, <2>1 DEF SaveResult, ServerTypeOK, IsFinal
    <3> QED
      BY <1>5, <3>1, <3>2 DEF SaveResult, AcknowledgedIsFinal, IsFinal
  <2> QED
    BY <2>3, <2>4, <2>5 DEF ServerInv
<1>6. ASSUME NEW r \in Result, ConflictingResult(r) PROVE ServerInv' /\ Advances
  <2>1. r.id \in ResultId
    BY DEF Result
  <2> QED
    BY <1>0, <1>6, <2>1
    DEF ConflictingResult, ServerInv, ServerTypeOK, AcknowledgedIsFinal, Advances, IsFinal
<1> QED
  BY <1>1, <1>2, <1>3, <1>4, <1>5, <1>6 DEF RefuseStart, AcceptResult, KnownResult

\* What the server does of itself and what operators do.
LEMMA InternalInv ==
  ASSUME ServerInv, ServerInternal
  PROVE  ServerInv' /\ Advances
<1>0. ServerTypeOK
  BY DEF ServerInv
<1> USE FinalOrOpen
<1>1. ASSUME NEW j \in Job, Lapse(j) PROVE ServerInv' /\ Advances
  BY <1>0, <1>1, AdvanceKeepsInv DEF Lapse, ServerTypeOK, Advances
<1>2. ASSUME NEW j \in Job, TimeOut(j) PROVE ServerInv' /\ Advances
  BY <1>0, <1>2, CloseOne, AdvanceKeepsInv DEF TimeOut, ServerTypeOK
<1>3. ASSUME NEW j \in Job, CloseWindow(j) PROVE ServerInv' /\ Advances
  BY <1>0, <1>3, CloseOne, AdvanceKeepsInv DEF CloseWindow, ServerTypeOK
<1>4. ASSUME NEW j \in Job, CancelQueued(j) PROVE ServerInv' /\ Advances
  BY <1>0, <1>4, CloseOne, AdvanceKeepsInv DEF CancelQueued, ServerTypeOK
<1>5. ASSUME NEW j \in Job, NEW s \in {"cancelled", "unsupported"}, Bar(j, s)
      PROVE  ServerInv' /\ Advances
  BY <1>0, <1>5, AdvanceKeepsInv DEF Bar, ServerTypeOK, Advances
<1>6. ASSUME NEW w \in Writer, NEW j \in Job,
             ReadToMarkFailed(w, j) \/ ReadToCancel(w, j) \/ ReadToExpire(w, j)
      PROVE  ServerInv' /\ Advances
  <2>1. held' \in [Writer -> Task \cup {NoTask}]
    BY <1>0, <1>6 DEF ReadToMarkFailed, ReadToCancel, ReadToExpire, ServerTypeOK, Task
  <2>2. UNCHANGED <<status, recorded, lapsed, barred, receipts, granted, disputed>>
    BY <1>6 DEF ReadToMarkFailed, ReadToCancel, ReadToExpire
  <2> QED
    BY <1>0, <2>1, <2>2, AdvanceKeepsInv DEF ServerTypeOK, Advances
<1>7. ASSUME NEW w \in Writer, SaveTask(w) PROVE ServerInv' /\ Advances
  <2>1. held[w].job \in Job /\ held[w].save \in FinalStatus
    BY <1>0, <1>7 DEF SaveTask, ServerTypeOK, Task, FinalStatus
  <2>2. Advances /\ status' \in [Job -> Status]
    BY <1>0, <1>7, <2>1, CloseOne DEF SaveTask
  <2>3. held' \in [Writer -> Task \cup {NoTask}]
    BY <1>0, <1>7 DEF SaveTask, ServerTypeOK
  <2> QED
    BY <1>0, <1>7, <2>2, <2>3, AdvanceKeepsInv DEF SaveTask, ServerTypeOK
<1> QED
  BY <1>1, <1>2, <1>3, <1>4, <1>5, <1>6, <1>7 DEF ServerInternal

LEMMA ServerStepInv ==
  ServerInv /\ [ServerNext]_serverVars => ServerInv' /\ Advances
<1> SUFFICES ASSUME ServerInv, [ServerNext]_serverVars PROVE ServerInv' /\ Advances
  OBVIOUS
<1>1. CASE UNCHANGED serverVars
  BY <1>1 DEF serverVars, ServerInv, ServerTypeOK, AcknowledgedIsFinal, Advances, IsFinal
<1>2. [id : ResultId, job : Job, outcome : Reported] \subseteq Result
  BY ServerAssumption DEF Result
<1> QED
  BY <1>1, <1>2, RequestInv, InternalInv DEF ServerNext

\* The inductive invariant of the server rows holds in every reachable state.
THEOREM ServerInvariant == ServerSpec => []ServerInv
BY ServerInitInv, ServerStepInv, PTL DEF ServerSpec

\* The server's rows are well typed.
THEOREM ServerTypes == ServerSpec => []ServerTypeOK
<1>1. ServerInv => ServerTypeOK
  BY DEF ServerInv
<1> QED
  BY <1>1, ServerInvariant, PTL

\* The agent may drop its evidence on the answer to a final result: the job is
\* closed (AgentJobsResultView).
THEOREM ServerAcknowledges == ServerSpec => []AcknowledgedIsFinal
<1>1. ServerInv => AcknowledgedIsFinal
  BY DEF ServerInv
<1> QED
  BY <1>1, ServerInvariant, PTL

\* No handler opens a closed job, not even the two that save a row they read
\* without a lock.
THEOREM ServerCloses == ServerSpec => ClosedStaysClosed
<1>1. ServerInv /\ [ServerNext]_serverVars =>
        [\A j \in Job : status[j] \in FinalStatus => status'[j] \in FinalStatus]_serverVars
  BY ServerStepInv DEF Advances
<1> QED
  BY <1>1, ServerInvariant, PTL DEF ServerSpec, ClosedStaysClosed

\* A job whose start was confirmed is queued or sent again by no pull, timeout,
\* cancellation or unlocked save, only by a new result that says it is.
THEOREM ServerStartsOnce == ServerSpec => StartedIsNotReissued
<1>1. ServerInv /\ [ServerNext]_serverVars =>
        [\A j \in granted :
           status[j] = "running" /\ status'[j] \in {"queued", "sent"} =>
             \E r \in receipts' \ receipts : r.job = j /\ StatusOf[r.outcome] = status'[j]]_serverVars
  BY ServerStepInv, FinalOrOpen DEF ServerInv, ServerTypeOK, Advances, Told
<1> QED
  BY <1>1, ServerInvariant, PTL DEF ServerSpec, StartedIsNotReissued

\* Both together: pulls, starts, timeouts and unlocked saves only take a job forward, and
\* no result opens a closed one.
THEOREM ServerGoesForward == ServerSpec => JobsGoForward
BY ServerCloses, ServerStartsOnce DEF JobsGoForward

-----------------------------------------------------------------------------
\* What a step does to a job: it leaves a closed one as it is, and gives an open one
\* the status of the result it records; only a save of a row read earlier does otherwise.
Saves(j) == \E w \in Writer : held[w] # NoTask /\ held'[w] = NoTask /\ held[w].job = j
Untouched(j) == status'[j] = status[j] /\ recorded'[j] = recorded[j]
Answers(j) ==
  /\ status[j] \notin FinalStatus
  /\ \/ recorded'[j] = recorded[j]
     \/ \E r \in receipts' : r.job = j /\ r.outcome = recorded'[j] /\ status'[j] = StatusOf[r.outcome]
Overrules(j) ==
  Saves(j) /\ recorded'[j] = recorded[j] /\ status'[j] \in {"failed", "cancelled", "expired"}
Disposes == receipts \subseteq receipts' /\ \A j \in Job : Untouched(j) \/ Answers(j) \/ Overrules(j)

\* A handler that changes the status of one open job and no record.
LEMMA OneAnswered ==
  ASSUME ServerTypeOK, NEW j \in Job, NEW s, status[j] \notin FinalStatus,
         status' = [status EXCEPT ![j] = s], UNCHANGED <<recorded, receipts>>
  PROVE  Disposes
BY DEF ServerTypeOK, Disposes, Untouched, Answers

\* Every step disposes of the jobs in that way.
LEMMA ServerStepDisposes ==
  ASSUME ServerTypeOK, [ServerNext]_serverVars
  PROVE  Disposes
<1> USE FinalOrOpen
<1>1. CASE UNCHANGED <<status, recorded, receipts>>
  BY <1>1 DEF Disposes, Untouched
<1>2. ASSUME NEW B \in SUBSET Job, Pull(B) PROVE Disposes
  <2>1. \A j \in B : status[j] \in {"queued", "sent"}
    BY <1>2 DEF Pull, Batch, Candidates
  <2>2. \A j \in Job : status[j] \notin FinalStatus \/ status'[j] = status[j]
    BY <1>2, <2>1 DEF Pull
  <2> QED
    BY <1>2, <2>2 DEF Pull, Disposes, Untouched, Answers
<1>3. ASSUME NEW j \in Job, Start(j) PROVE Disposes
  BY <1>3, OneAnswered DEF Start, MayStart
<1>4. ASSUME NEW r \in [id : ResultId, job : Job, outcome : Reported], SaveResult(r) PROVE Disposes
  <2>1. \A j \in Job : j # r.job => Untouched(j)
    BY <1>4 DEF SaveResult, ServerTypeOK, Untouched
  <2>2. /\ r \in receipts' /\ receipts \subseteq receipts' /\ status[r.job] \notin FinalStatus
        /\ recorded'[r.job] = r.outcome /\ status'[r.job] = StatusOf[r.outcome]
    BY <1>4 DEF SaveResult, ServerTypeOK
  <2>3. Answers(r.job)
    BY <2>2 DEF Answers
  <2> QED
    BY <2>1, <2>2, <2>3 DEF Disposes
<1>5. ASSUME NEW r \in [id : ResultId, job : Job, outcome : Reported], LateResult(r) PROVE Disposes
  BY <1>5 DEF LateResult, Disposes, Untouched
<1>6. ASSUME NEW j \in Job, TimeOut(j) \/ CloseWindow(j) \/ CancelQueued(j) PROVE Disposes
  BY <1>6, OneAnswered DEF TimeOut, CloseWindow, CancelQueued
<1>7. ASSUME NEW w \in Writer, SaveTask(w) PROVE Disposes
  <2>1. held[w].job \in Job /\ held[w].save \in {"failed", "cancelled", "expired"}
    BY <1>7 DEF SaveTask, ServerTypeOK, Task
  <2>2. \A j \in Job : j # held[w].job => Untouched(j)
    BY <1>7 DEF SaveTask, ServerTypeOK, Untouched
  <2>3. Overrules(held[w].job)
    BY <1>7, <2>1 DEF SaveTask, ServerTypeOK, Overrules, Saves
  <2> QED
    BY <1>7, <2>2, <2>3 DEF SaveTask, Disposes
<1>8. ASSUME NEW j \in Job, Lapse(j) PROVE Disposes
  BY <1>1, <1>8 DEF Lapse
<1>9. ASSUME NEW j \in Job, NEW s \in {"cancelled", "unsupported"}, Bar(j, s) PROVE Disposes
  BY <1>1, <1>9 DEF Bar
<1>10. ASSUME NEW w \in Writer, NEW j \in Job,
              ReadToMarkFailed(w, j) \/ ReadToCancel(w, j) \/ ReadToExpire(w, j)
       PROVE  Disposes
  BY <1>1, <1>10 DEF ReadToMarkFailed, ReadToCancel, ReadToExpire
<1>11. CASE UNCHANGED serverVars
  BY <1>1, <1>11 DEF serverVars
<1>12. ASSUME NEW r \in [id : ResultId, job : Job, outcome : Reported], ConflictingResult(r) PROVE Disposes
  BY <1>1, <1>12 DEF ConflictingResult
<1> QED
  BY <1>2, <1>3, <1>4, <1>5, <1>6, <1>7, <1>8, <1>9, <1>10, <1>11, <1>12
  DEF ServerNext, ServerInternal, AcceptResult, KnownResult, RefuseStart

\* A final status is replaced by no handler that looks at it under the lock, only by a
\* save of a row read before (endpoint_job_mark_failed, endpoint_uninstall_cancel, the pull).
THEOREM ServerKeepsFinal == ServerSpec => OnlyUnlockedSavesReplaceFinal
<1>1. ServerTypeOK /\ [ServerNext]_serverVars =>
        [\A j \in Job : status[j] \in FinalStatus /\ status'[j] # status[j] =>
           \E w \in Writer :
             held[w] # NoTask /\ held'[w] = NoTask /\ held[w].job = j]_serverVars
  BY ServerStepDisposes DEF Disposes, Untouched, Answers, Overrules, Saves
<1> QED
  BY <1>1, ServerTypes, PTL DEF ServerSpec, OnlyUnlockedSavesReplaceFinal

\* A recorded final outcome means that the job is closed, whichever way its status went.
LEMMA RecordedIsClosed ==
  ASSUME NEW o \in FinalOutcome
  PROVE  StatusOf[o] \in FinalStatus /\ {"failed", "cancelled", "expired"} \subseteq FinalStatus
BY OutcomeStatus DEF FinalStatus

\* What a row records is vouched for by a receipt, and its status follows from it unless
\* an unlocked save overruled it.
THEOREM ServerEvidence == ServerSpec => []StatusMatchesEvidence
<1>1. ServerInit => StatusMatchesEvidence
  BY DEF ServerInit, StatusMatchesEvidence, FinalOutcome, Outcome
<1>2. ServerTypeOK /\ ServerTypeOK' /\ StatusMatchesEvidence /\ [ServerNext]_serverVars => StatusMatchesEvidence'
  <2> SUFFICES ASSUME ServerTypeOK, ServerTypeOK', StatusMatchesEvidence, [ServerNext]_serverVars, NEW j \in Job
               PROVE  /\ recorded'[j] # "none" => \E r \in receipts' : r.job = j /\ r.outcome = recorded'[j]
                      /\ recorded'[j] \in FinalOutcome =>
                           status'[j] \in {StatusOf[recorded'[j]], "failed", "cancelled", "expired"}
    BY DEF StatusMatchesEvidence, ReceiptsOf
  <2>1. /\ recorded[j] # "none" => \E r \in receipts' : r.job = j /\ r.outcome = recorded[j]
        /\ recorded[j] \in FinalOutcome =>
             status[j] \in {StatusOf[recorded[j]], "failed", "cancelled", "expired"}
    BY ServerStepDisposes DEF StatusMatchesEvidence, ReceiptsOf, Disposes
  <2>2. recorded[j] \in FinalOutcome => status[j] \in FinalStatus
    BY <2>1, RecordedIsClosed DEF ServerTypeOK
  <2>3. CASE Untouched(j)
    BY <2>1, <2>3 DEF Untouched
  <2>4. CASE Answers(j)
    BY <2>1, <2>2, <2>4 DEF Answers
  <2>5. CASE Overrules(j)
    BY <2>1, <2>5 DEF Overrules
  <2> QED
    BY <2>3, <2>4, <2>5, ServerStepDisposes DEF Disposes
<1> QED
  BY <1>1, <1>2, ServerTypes, PTL DEF ServerSpec

-----------------------------------------------------------------------------
(* The pipeline.                                                            *)

\* Past the confirmation of a start the job is among the granted ones, and so is
\* every job that was carried out.
GrantInv ==
  /\ exec.pc \in {"granted", "running"} => exec.job \in granted
  /\ \A j \in Job : runs[j] > 0 => j \in granted

PipelineInv == ServerInv /\ AgentInv /\ late \subseteq Request /\ GrantInv

LEMMA PipelineInitInv == Init => PipelineInv
<1> SUFFICES ASSUME Init PROVE PipelineInv
  OBVIOUS
<1>1. ServerInv /\ AgentInv
  BY ServerInitInv, AgentInitInv DEF Init
<1>2. late \subseteq Request
  BY DEF Init
<1>3. GrantInv
  BY DEF Init, AgentInit, GrantInv, Idle
<1> QED
  BY <1>1, <1>2, <1>3 DEF PipelineInv

\* Seen from the agent, every step of the pipeline is one of its own or none.
LEMMA AgentSide ==
  ASSUME [Next]_vars
  PROVE  [AgentNext]_agentVars
<1>1. CASE UNCHANGED vars
  BY <1>1 DEF vars
<1>2. CASE AgentAlone
  BY <1>2 DEF AgentAlone, AgentNext, AgentMishap
<1>3. CASE ServerAlone
  BY <1>3 DEF ServerAlone
<1>4. ASSUME NEW B \in SUBSET Candidates, ServePull(B) PROVE AgentNext
  <2>1. Deliverable(B) \in SUBSET Job
    BY DEF Deliverable, Candidates
  <2> QED
    BY <1>4, <2>1 DEF ServePull, AgentNext, Answered
<1>5. CASE ServeStart \/ ServeResult
  BY <1>5 DEF ServeStart, ServeResult, AgentNext, Answered
<1>6. CASE GiveUp \/ CrashWithOpenRequests
  BY <1>6 DEF GiveUp, CrashWithOpenRequests, AgentNext, NoAnswer, AgentMishap
<1>7. ASSUME NEW q \in late, ServeLate(q) PROVE UNCHANGED agentVars
  BY <1>7 DEF ServeLate
<1> QED
  BY <1>1, <1>2, <1>3, <1>4, <1>5, <1>6, <1>7 DEF Next

\* What the agent reports is something the server's specification foresees.
LEMMA ReportedResult ==
  AgentResult \subseteq [id : ResultId, job : Job, outcome : Reported]
BY PipelineAssumption DEF AgentResult

\* Seen from the server, every step is a handler of its own or none.
LEMMA ServerSide ==
  ASSUME PipelineInv, [Next]_vars
  PROVE  [ServerNext]_serverVars
<1>0. AgentTypeOK /\ TaskOK /\ late \subseteq Request
  BY DEF PipelineInv, AgentInv
<1>1. CASE UNCHANGED vars \/ AgentAlone \/ GiveUp \/ CrashWithOpenRequests
  BY <1>1 DEF vars, AgentAlone, GiveUp, CrashWithOpenRequests
<1>2. CASE ServerAlone
  BY <1>2 DEF ServerAlone, ServerNext
<1>3. ASSUME NEW B \in SUBSET Candidates, ServePull(B) PROVE ServerNext
  <2>1. B \in SUBSET Job
    BY DEF Candidates
  <2> QED
    BY <1>3, <2>1 DEF ServePull, ServerNext
<1>4. CASE ServeStart
  <2>1. exec.job \in Job
    BY <1>0, <1>4 DEF ServeStart, TaskOK
  <2> QED
    BY <1>4, <2>1 DEF ServeStart, ServerNext
<1>5. CASE ServeResult
  <2>1. upl.res \in [id : ResultId, job : Job, outcome : Reported]
    BY <1>0, <1>5, ReportedResult DEF ServeResult, TaskOK
  <2> QED
    BY <1>5, <2>1 DEF ServeResult, ServerNext
<1>6. ASSUME NEW q \in late, ServeLate(q) PROVE [ServerNext]_serverVars
  <2>1. CASE \E B \in SUBSET Candidates : Pull(B)
    <3>1. SUBSET Candidates \subseteq SUBSET Job
      BY DEF Candidates
    <3> QED
      BY <2>1, <3>1 DEF ServerNext
  <2>2. CASE q.kind = "start" /\ Start(q.job)
    <3>1. q.job \in Job
      BY <1>0, <2>2 DEF Request, PullRequest, StartRequest, ResultRequest
    <3> QED
      BY <2>2, <3>1 DEF ServerNext
  <2>3. CASE q.kind = "result" /\ AcceptResult(q.result)
    <3>1. q.result \in AgentResult
      BY <1>0, <2>3 DEF Request, PullRequest, StartRequest, ResultRequest
    <3> QED
      BY <2>3, <3>1, ReportedResult DEF ServerNext
  <2> QED
    BY <1>6, <2>1, <2>2, <2>3 DEF ServeLate
<1> QED
  BY <1>1, <1>2, <1>3, <1>4, <1>5, <1>6 DEF Next

\* What is left in `late` are requests the tasks really made.
LEMMA LateInv ==
  ASSUME PipelineInv, [Next]_vars
  PROVE  late' \subseteq Request
<1>0. TaskOK /\ late \subseteq Request
  BY DEF PipelineInv, AgentInv
<1>1. Open \subseteq Request
  BY <1>0 DEF Open, TaskOK, Request
<1>2. CASE GiveUp
  BY <1>0, <1>2 DEF GiveUp, PullFailed, StartFailed, ResultFailed, TaskOK, Request, ExecAt
<1>3. CASE CrashWithOpenRequests
  BY <1>0, <1>1, <1>3 DEF CrashWithOpenRequests
<1>4. ASSUME NEW q \in late, ServeLate(q) PROVE late' \subseteq Request
  BY <1>0, <1>4 DEF ServeLate
<1> QED
  BY <1>0, <1>2, <1>3, <1>4
  DEF Next, vars, AgentAlone, ServerAlone, ServePull, ServeStart, ServeResult

\* The operation is carried out by Perform and nowhere else.
LEMMA OnlyPerformRuns ==
  ASSUME [AgentNext]_agentVars
  PROVE  (runs' = runs /\ effect' = effect) \/ \E o \in {"completed", "failed"} : Perform(o)
<1> USE DEF files, tasks, history, bounds
<1>1. CASE UNCHANGED agentVars
  BY <1>1 DEF agentVars
<1>2. CASE AgentMishap \/ NoAnswer \/ Answered \/ \E j \in Job : AgentExpire(j)
  BY <1>2 DEF AgentMishap, Crash, DispFault, ExecFault, UplFault, NoAnswer, PullFailed,
    StartFailed, ResultFailed, Answered, PullAnswered, StartGranted, StartRefused,
    ResultAccepted, AgentExpire
<1>3. CASE AgentWork
  <2>1. CASE \/ DispPull \/ DispJournal \/ DispQueue \/ DispEnqueue \/ DispDone
             \/ \E j \in Job : Accept(j) \/ RejectAction(j)
    BY <2>1 DEF DispPull, DispJournal, DispQueue, DispEnqueue, DispDone, Accept, RejectAction
  <2>2. CASE \/ ExecBegin \/ ExecPersist \/ ExecFinish \/ ExecJournal \/ ExecQueue
             \/ ExecEnqueue \/ ExecRemove
             \/ \E j \in Job : ExecDrop(j) \/ ExecDoubt(j) \/ ExecValidate(j)
    BY <2>2 DEF ExecBegin, ExecPersist, ExecFinish, ExecJournal, ExecQueue, ExecEnqueue,
      ExecRemove, ExecDrop, ExecDoubt, ExecValidate
  <2>3. CASE \/ UplAcknowledge \/ Restart \/ RecoverFinal \/ RecoverQueue \/ Recovered
             \/ \E j \in Job : UplScan(j) \/ RecoverLost(j)
             \/ \E r \in pending : UplSend(r)
    BY <2>3 DEF UplAcknowledge, Restart, RecoverFinal, RecoverQueue, Recovered, UplScan,
      RecoverLost, UplSend
  <2> QED
    BY <1>3, <2>1, <2>2, <2>3 DEF AgentWork
<1> QED
  BY <1>1, <1>2, <1>3 DEF AgentNext

\* Without an answer of the server the Execute task gets no further than the start
\* of a job, and where it is past it stays with the same job.
LEMMA NoGrantAlone ==
  ASSUME AgentTypeOK,
         AgentWork \/ AgentMishap \/ NoAnswer \/ \E j \in Job : AgentExpire(j),
         exec'.pc \in {"granted", "running"}
  PROVE  exec.pc \in {"granted", "running"} /\ exec'.job = exec.job
<1> USE DEF files, tasks, history, bounds, AgentTypeOK, ExecPc, ExecAt, ExecGo, ExecWith, Idle
<1>1. CASE AgentMishap \/ NoAnswer \/ \E j \in Job : AgentExpire(j)
  <2>1. CASE ExecFault
    BY <2>1 DEF ExecFault
  <2> QED
    BY <1>1, <2>1 DEF AgentMishap, Crash, DispFault, UplFault, NoAnswer, PullFailed,
      StartFailed, ResultFailed, AgentExpire
<1>2. CASE AgentWork
  <2>1. CASE \/ DispPull \/ DispJournal \/ DispQueue \/ DispEnqueue \/ DispDone
             \/ \E j \in Job : Accept(j) \/ RejectAction(j)
    BY <2>1 DEF DispPull, DispJournal, DispQueue, DispEnqueue, DispDone, Accept, RejectAction
  <2>2. CASE ExecBegin
    BY <2>2 DEF ExecBegin
  <2>3. CASE \/ ExecPersist \/ ExecFinish \/ ExecJournal \/ ExecQueue
             \/ ExecEnqueue \/ ExecRemove \/ \E o \in {"completed", "failed"} : Perform(o)
    BY <2>3 DEF ExecPersist, ExecFinish, ExecJournal, ExecQueue, ExecEnqueue,
      ExecRemove, Perform
  <2>4. CASE \E j \in Job : ExecDrop(j) \/ ExecDoubt(j) \/ ExecValidate(j)
    BY <2>4 DEF ExecDrop, ExecDoubt, ExecValidate
  <2>5. CASE \/ UplAcknowledge \/ Restart \/ RecoverFinal \/ RecoverQueue \/ Recovered
             \/ \E j \in Job : UplScan(j) \/ RecoverLost(j)
             \/ \E r \in pending : UplSend(r)
    BY <2>5 DEF UplAcknowledge, Restart, RecoverFinal, RecoverQueue, Recovered, UplScan,
      RecoverLost, UplSend
  <2> QED
    BY <1>2, <2>1, <2>2, <2>3, <2>4, <2>5 DEF AgentWork
<1> QED
  BY <1>1, <1>2

\* A grant is given by Start, to a job that is not closed, and never withdrawn.
LEMMA GrantStep ==
  ASSUME ServerInv, [ServerNext]_serverVars
  PROVE  \/ granted' = granted
         \/ \E j \in Job : Start(j) /\ status[j] \notin FinalStatus
<1>1. CASE UNCHANGED serverVars
  BY <1>1 DEF serverVars
<1>2. CASE ServerInternal
  BY <1>2 DEF ServerInternal, Lapse, TimeOut, CloseWindow, CancelQueued, Bar,
    ReadToMarkFailed, ReadToCancel, ReadToExpire, SaveTask
<1>3. CASE \/ \E B \in SUBSET Job : Pull(B)
           \/ \E j \in Job : RefuseStart(j)
           \/ \E r \in [id : ResultId, job : Job, outcome : Reported] :
                AcceptResult(r) \/ ConflictingResult(r)
  BY <1>3 DEF Pull, RefuseStart, AcceptResult, KnownResult, LateResult, SaveResult,
    ConflictingResult, serverVars
<1>4. CASE \E j \in Job : Start(j)
  BY <1>4, FinalOrOpen DEF Start, MayStart
<1> QED
  BY <1>1, <1>2, <1>3, <1>4 DEF ServerNext

LEMMA GrantInvStep ==
  ASSUME PipelineInv, [Next]_vars
  PROVE  GrantInv'
<1>0. ServerInv /\ AgentInv /\ AgentTypeOK /\ TaskOK /\ GrantInv
  BY DEF PipelineInv, AgentInv
<1>1. granted \subseteq granted'
  BY <1>0, ServerSide, GrantStep DEF Start
<1>2. \A j \in Job : runs'[j] > 0 => j \in granted
  <2>1. CASE runs' = runs
    BY <1>0, <2>1 DEF GrantInv
  <2>2. ASSUME NEW o \in {"completed", "failed"}, Perform(o)
        PROVE  \A j \in Job : runs'[j] > 0 => j \in granted
    BY <1>0, <2>2 DEF Perform, GrantInv, ExecAt, AgentTypeOK
  <2> QED
    BY <2>1, <2>2, AgentSide, OnlyPerformRuns
<1>3. exec'.pc \in {"granted", "running"} => exec'.job \in granted'
  <2>1. CASE exec' = exec
    BY <1>0, <1>1, <2>1 DEF GrantInv
  <2>2. CASE AgentWork \/ AgentMishap \/ NoAnswer \/ \E j \in Job : AgentExpire(j)
    BY <1>0, <1>1, <2>2, NoGrantAlone DEF GrantInv
  <2>3. CASE ServeStart
    <3>1. CASE Start(exec.job) /\ StartGranted
      BY <1>0, <3>1 DEF Start, StartGranted, ExecGo, AgentTypeOK
    <3>2. CASE StartRefused
      BY <1>0, <3>2 DEF StartRefused, ExecWith
    <3> QED
      BY <2>3, <3>1, <3>2 DEF ServeStart
  <2>4. CASE \/ UNCHANGED vars \/ ServerAlone \/ ServeResult
             \/ \E B \in SUBSET Candidates : ServePull(B)
             \/ \E q \in late : ServeLate(q)
    <3>1. exec' = exec
      BY <2>4 DEF vars, agentVars, tasks, ServerAlone, ServeResult, ResultAccepted,
        ServePull, PullAnswered, ServeLate
    <3> QED
      BY <2>1, <3>1
  <2> QED
    BY <2>2, <2>3, <2>4 DEF Next, AgentAlone, GiveUp, CrashWithOpenRequests,
      AgentMishap, NoAnswer
<1> QED
  BY <1>1, <1>2, <1>3 DEF GrantInv

LEMMA PipelineStepInv == PipelineInv /\ [Next]_vars => PipelineInv'
<1> SUFFICES ASSUME PipelineInv, [Next]_vars PROVE PipelineInv'
  OBVIOUS
<1>1. ServerInv'
  BY ServerSide, ServerStepInv DEF PipelineInv
<1>2. AgentInv'
  BY AgentSide, AgentStepInv DEF PipelineInv
<1> QED
  BY <1>1, <1>2, LateInv, GrantInvStep DEF PipelineInv

\* Both ends keep their invariants when they are composed, messages included.
THEOREM PipelineInvariant == Spec => []PipelineInv
BY PipelineInitInv, PipelineStepInv, PTL DEF Spec

\* The pipeline is an agent and a server: what is proved of either for any answers
\* and any requests holds of the two together.
THEOREM PipelineIsAgent == Spec => AgentSpec
<1>1. Init => AgentInit
  BY DEF Init
<1>2. [Next]_vars => [AgentNext]_agentVars
  BY AgentSide
<1> QED
  BY <1>1, <1>2, PTL DEF Spec, AgentSpec

THEOREM PipelineIsServer == Spec => ServerSpec
<1>1. Init => ServerInit
  BY DEF Init
<1>2. PipelineInv /\ [Next]_vars => [ServerNext]_serverVars
  BY ServerSide
<1> QED
  BY <1>1, <1>2, PipelineInvariant, PTL DEF Spec, ServerSpec

\* The types of both ends and of the requests given up.
THEOREM PipelineTypes == Spec => []TypeOK
<1>1. PipelineInv => TypeOK
  BY DEF PipelineInv, ServerInv, AgentInv, TypeOK
<1> QED
  BY <1>1, PipelineInvariant, PTL

\* The agent carries out only work whose start the server has confirmed.
THEOREM PipelineRunsGranted == Spec => []RunOnlyGranted
<1>1. PipelineInv => RunOnlyGranted
  BY DEF PipelineInv, GrantInv, RunOnlyGranted
<1> QED
  BY <1>1, PipelineInvariant, PTL

\* A step in which the server changes carries out nothing.
LEMMA ServerOrRun ==
  ASSUME [Next]_vars
  PROVE  UNCHANGED serverVars \/ runs' = runs
BY DEF Next, vars, agentVars, history, AgentAlone, ServerAlone, ServePull, PullAnswered,
  ServeStart, StartGranted, StartRefused, ServeResult, ResultAccepted, GiveUp,
  CrashWithOpenRequests, ServeLate

\* Every step of the pipeline is a step of the contract or leaves it alone.
LEMMA ContractStep ==
  ASSUME PipelineInv, [Next]_vars
  PROVE  [Contract!Next]_Contract!contractVars
<1> DEFINE closed == {j \in Job : status[j] \in FinalStatus}
<1>0. ServerInv /\ AgentInv /\ GrantInv /\ AgentTypeOK /\ RunsGuarded /\ TaskOK
  BY DEF PipelineInv, AgentInv
<1>1. closed \subseteq closed'
  BY <1>0, ServerSide, ServerStepInv DEF Advances
<1>2. CASE runs' = runs /\ granted' = granted
  <2>1. closed' = closed \cup (closed' \ closed) /\ closed' \ closed \in SUBSET Job
    BY <1>1
  <2> QED
    BY <1>2, <2>1 DEF Contract!Next, Contract!Close, Contract!contractVars
<1>3. CASE granted' # granted
  <2>1. PICK j \in Job : Start(j) /\ status[j] \notin FinalStatus
    BY <1>0, <1>3, ServerSide, GrantStep
  <2>2. closed' = closed
    BY <1>0, <2>1, FinalOrOpen DEF Start, ServerInv, ServerTypeOK
  <2>3. runs' = runs
    BY <1>3, ServerOrRun DEF serverVars
  <2> QED
    BY <2>1, <2>2, <2>3 DEF Start, Contract!Next, Contract!Begin
<1>4. CASE runs' # runs
  <2>1. PICK o \in {"completed", "failed"} : Perform(o)
    BY <1>4, AgentSide, OnlyPerformRuns
  <2>2. exec.job \in Job /\ exec.job \in granted /\ runs[exec.job] = 0
    BY <1>0, <2>1 DEF Perform, ExecAt, GrantInv, RunsGuarded, TaskOK
  <2>3. runs' = [runs EXCEPT ![exec.job] = 1]
    BY <1>0, <2>1, <2>2 DEF Perform, AgentTypeOK
  <2>4. UNCHANGED serverVars
    BY <1>4, ServerOrRun
  <2> QED
    BY <2>2, <2>3, <2>4 DEF Contract!Next, Contract!Do, serverVars
<1> QED
  BY <1>2, <1>3, <1>4

\* The pipeline implements JobContract: at most once, only once granted, and no
\* grant of a closed job.
THEOREM PipelineKeepsContract == Spec => KeepsContract
<1>1. Init => Contract!Init
  <2>1. ASSUME Init PROVE {j \in Job : status[j] \in FinalStatus} = {}
    BY <2>1, FinalOrOpen DEF Init, ServerInit
  <2> QED
    BY <2>1 DEF Init, ServerInit, AgentInit, Contract!Init
<1>2. PipelineInv /\ [Next]_vars => [Contract!Next]_Contract!contractVars
  BY ContractStep
<1> QED
  BY <1>1, <1>2, PipelineInvariant, PTL DEF Spec, KeepsContract, Contract!Spec

-----------------------------------------------------------------------------
\* Whatever result is on its way or has been received claims no more than happened, and
\* what the agent has filed away has been received.
ReceiptsInv ==
  /\ \A r \in receipts : GenuineResult(r)
  /\ \A q \in late : q.kind = "result" => GenuineResult(q.result)
  /\ ArchivedOnlyIfReceived
  /\ \A j \in Job : status[j] = "completed" => \E r \in receipts : r.job = j /\ r.outcome = "completed"

\* A claim that was true stays true: an operation that ended well ends once.
LEMMA GenuineStays ==
  ASSUME AgentInv, EvidenceInv, [AgentNext]_agentVars, NEW r, GenuineResult(r), r.job \in Job
  PROVE  GenuineResult(r)'
<1>1. CASE effect' = effect
  BY <1>1 DEF GenuineResult, Genuine
<1>2. ASSUME NEW o \in {"completed", "failed"}, Perform(o) PROVE GenuineResult(r)'
  <2>1. exec.job \in Job /\ runs[exec.job] = 0
    BY <1>2 DEF AgentInv, Perform, ExecAt, TaskOK, RunsGuarded
  <2>2. effect[exec.job] = "none"
    BY <2>1 DEF EvidenceInv, EffectsKept
  <2> QED
    BY <1>2, <2>1, <2>2 DEF Perform, AgentInv, AgentTypeOK, GenuineResult, Genuine
<1> QED
  BY <1>1, <1>2, OnlyPerformRuns

\* A receipt is written for the result a task is sending or for one it gave up, and the
\* agent files a result away in the step in which the server receives it.
LEMMA ReceiptStep ==
  ASSUME PipelineInv, [Next]_vars
  PROVE  /\ receipts \subseteq receipts'
         /\ \A r \in receipts' :
              \/ r \in receipts
              \/ upl.pc = "sending" /\ r = upl.res
              \/ \E q \in late : q.kind = "result" /\ r = q.result
         /\ \A id \in archive' : id \in archive \/ \E r \in receipts' : r.id = id
<1> USE DEF files, tasks, history, bounds
<1>0. AcceptResult(upl.res) => upl.res \in receipts' /\ receipts' = receipts \cup {upl.res}
  BY DEF AcceptResult, KnownResult, LateResult, SaveResult, serverVars
<1>1. CASE AgentAlone \/ GiveUp \/ CrashWithOpenRequests \/ UNCHANGED vars
  <2>1. receipts' = receipts
    BY <1>1 DEF AgentAlone, GiveUp, CrashWithOpenRequests, vars, serverVars
  <2>2. archive' = archive
    <3>1. CASE AgentWork
      <4>1. CASE \/ DispPull \/ DispJournal \/ DispQueue \/ DispEnqueue \/ DispDone
                 \/ \E j \in Job : Accept(j) \/ RejectAction(j)
        BY <4>1 DEF DispPull, DispJournal, DispQueue, DispEnqueue, DispDone, Accept, RejectAction
      <4>2. CASE \/ ExecBegin \/ ExecPersist \/ ExecFinish \/ ExecJournal \/ ExecQueue
                 \/ ExecEnqueue \/ ExecRemove \/ \E o \in {"completed", "failed"} : Perform(o)
                 \/ \E j \in Job : ExecDrop(j) \/ ExecDoubt(j) \/ ExecValidate(j)
        BY <4>2 DEF ExecBegin, ExecPersist, ExecFinish, ExecJournal, ExecQueue, ExecEnqueue,
          ExecRemove, ExecDrop, ExecDoubt, ExecValidate, Perform
      <4>3. CASE \/ UplAcknowledge \/ Restart \/ RecoverFinal \/ RecoverQueue \/ Recovered
                 \/ \E j \in Job : UplScan(j) \/ RecoverLost(j)
                 \/ \E r \in pending : UplSend(r)
        BY <4>3 DEF UplAcknowledge, Restart, RecoverFinal, RecoverQueue, Recovered, UplScan,
          RecoverLost, UplSend
      <4> QED
        BY <3>1, <4>1, <4>2, <4>3 DEF AgentWork
    <3>2. CASE DispFault \/ ExecFault \/ UplFault \/ \E j \in Job : AgentExpire(j)
      BY <3>2 DEF DispFault, ExecFault, UplFault, AgentExpire
    <3>3. CASE GiveUp \/ CrashWithOpenRequests \/ UNCHANGED vars
      BY <3>3 DEF GiveUp, PullFailed, StartFailed, ResultFailed, CrashWithOpenRequests, Crash,
        vars, agentVars
    <3> QED
      BY <1>1, <3>1, <3>2, <3>3 DEF AgentAlone
  <2> QED
    BY <2>1, <2>2
<1>2. CASE ServerAlone
  BY <1>2 DEF ServerAlone, agentVars, ServerInternal, Lapse, TimeOut, CloseWindow, CancelQueued,
    Bar, ReadToMarkFailed, ReadToCancel, ReadToExpire, SaveTask
<1>3. ASSUME NEW B \in SUBSET Candidates, ServePull(B)
      PROVE  receipts' = receipts /\ archive' = archive
  BY <1>3 DEF ServePull, Pull, PullAnswered
<1>4. CASE ServeStart
  BY <1>4 DEF ServeStart, Start, StartGranted, RefuseStart, StartRefused, serverVars
<1>5. CASE ServeResult
  BY <1>0, <1>5 DEF ServeResult, ResultAccepted
<1>6. ASSUME NEW q \in late, ServeLate(q)
      PROVE  /\ receipts' = receipts \/ (q.kind = "result" /\ receipts' = receipts \cup {q.result})
             /\ archive' = archive
  BY <1>6 DEF ServeLate, agentVars, Pull, Start, AcceptResult, KnownResult, LateResult, SaveResult, serverVars
<1> QED
  BY <1>1, <1>2, <1>3, <1>4, <1>5, <1>6 DEF Next

\* The agent of this repository reports nothing but ends.  So no job whose start was
\* confirmed waits for delivery.
StartedInv ==
  /\ \A r \in receipts : r.outcome \in FinalOutcome
  /\ \A j \in granted : status[j] \in FinalStatus \cup {"running"}

LEMMA StartedStep ==
  ASSUME PipelineInv, StartedInv, [Next]_vars
  PROVE  StartedInv'
<1>0. /\ ServerInv /\ ServerTypeOK /\ TaskOK /\ late \subseteq Request
      /\ [ServerNext]_serverVars
  BY ServerSide DEF PipelineInv, ServerInv, AgentInv
<1>1. \A r \in receipts' : r.outcome \in FinalOutcome
  <2>1. upl.pc = "sending" => upl.res.outcome \in FinalOutcome
    BY <1>0 DEF TaskOK, AgentResult
  <2>2. \A q \in late : q.kind = "result" => q.result.outcome \in FinalOutcome
    BY <1>0 DEF Request, PullRequest, StartRequest, ResultRequest, AgentResult
  <2> QED
    BY <2>1, <2>2, ReceiptStep DEF StartedInv
<1>2. \A j \in Job : status[j] \in FinalStatus \cup {"running"} => status'[j] \in FinalStatus \cup {"running"}
  <2>1. Advances
    BY <1>0, ServerStepInv
  <2>2. \A j \in Job : Told(j) => status'[j] \in FinalStatus
    BY <1>1, OutcomeStatus DEF Told
  <2> QED
    BY <2>1, <2>2 DEF Advances
<1>3. \A j \in granted' : status'[j] \in FinalStatus \cup {"running"}
  <2>1. CASE granted' = granted
    BY <1>0, <1>2, <2>1 DEF StartedInv, ServerTypeOK
  <2>2. ASSUME NEW j \in Job, Start(j)
        PROVE  \A i \in granted' : status'[i] \in FinalStatus \cup {"running"}
    <3>1. status'[j] = "running" /\ granted' = granted \cup {j}
      BY <1>0, <2>2 DEF Start, ServerTypeOK
    <3> QED
      BY <1>0, <1>2, <3>1 DEF StartedInv, ServerTypeOK
  <2> QED
    BY <1>0, <2>1, <2>2, GrantStep
<1> QED
  BY <1>1, <1>3 DEF StartedInv

\* A job becomes completed by a result that says so, and by nothing else.
LEMMA CompletedByResult ==
  ASSUME ServerInv, [ServerNext]_serverVars, NEW j \in Job, status'[j] = "completed"
  PROVE  status[j] = "completed" \/ \E r \in receipts' : r.job = j /\ r.outcome = "completed"
<1>0. ServerTypeOK
  BY DEF ServerInv
<1>1. \A o \in Outcome : StatusOf[o] = "completed" => o = "completed"
  BY DEF Outcome, StatusOf
<1>2. CASE \E B \in SUBSET Job : Pull(B)
  BY <1>0, <1>2 DEF Pull, ServerTypeOK
<1>3. CASE \E i \in Job : Start(i) \/ RefuseStart(i)
  BY <1>0, <1>3 DEF Start, RefuseStart, serverVars, ServerTypeOK
<1>4. ASSUME NEW r \in [id : ResultId, job : Job, outcome : Reported], AcceptResult(r) \/ ConflictingResult(r)
      PROVE  status[j] = "completed" \/ \E p \in receipts' : p.job = j /\ p.outcome = "completed"
  <2>1. CASE SaveResult(r)
    <3>1. r.outcome \in Outcome
      BY ServerAssumption
    <3> QED
      BY <1>0, <1>1, <2>1, <3>1 DEF SaveResult, ServerTypeOK
  <2> QED
    BY <1>4, <2>1 DEF AcceptResult, ConflictingResult, KnownResult, LateResult, serverVars
<1>5. CASE ServerInternal
  <2>1. CASE \E i \in Job : Lapse(i) \/ TimeOut(i) \/ CloseWindow(i) \/ CancelQueued(i)
    BY <1>0, <2>1 DEF Lapse, TimeOut, CloseWindow, CancelQueued, ServerTypeOK
  <2>2. CASE \E w \in Writer : SaveTask(w)
    BY <1>0, <2>2 DEF SaveTask, ServerTypeOK, Task
  <2> QED
    BY <1>5, <2>1, <2>2 DEF ServerInternal, Bar, ReadToMarkFailed, ReadToCancel, ReadToExpire
<1>6. CASE UNCHANGED serverVars
  BY <1>6 DEF serverVars
<1> QED
  BY <1>2, <1>3, <1>4, <1>5, <1>6 DEF ServerNext

LEMMA ReceiptsInvStep ==
  ASSUME PipelineInv, EvidenceInv, ReceiptsInv, [Next]_vars
  PROVE  ReceiptsInv'
<1>0. /\ AgentInv /\ ServerInv /\ TaskOK /\ ResultsGenuine /\ late \subseteq Request
      /\ \A r \in receipts : r.job \in Job
      /\ [AgentNext]_agentVars /\ [ServerNext]_serverVars
  BY AgentSide, ServerSide DEF PipelineInv, ServerInv, ServerTypeOK, Result, AgentInv, EvidenceInv
<1>1. \A r \in receipts : GenuineResult(r)'
  BY <1>0, GenuineStays DEF ReceiptsInv
<1>2. \A r : upl.pc = "sending" /\ r = upl.res => GenuineResult(r)'
  BY <1>0, GenuineStays DEF TaskOK, ResultsGenuine, AgentResult
<1>3. \A q \in late : q.kind = "result" => GenuineResult(q.result)'
  <2>1. \A q \in late : q.kind = "result" => q.result.job \in Job
    BY <1>0 DEF Request, PullRequest, StartRequest, ResultRequest, AgentResult
  <2> QED
    BY <1>0, <2>1, GenuineStays DEF ReceiptsInv
<1>4. \A r \in receipts' : GenuineResult(r)'
  BY <1>1, <1>2, <1>3, ReceiptStep
<1>5. \A q \in late' : q.kind = "result" => GenuineResult(q.result)'
  <2>1. \A q \in late' : q \in late \/ q.kind # "result" \/ (upl.pc = "sending" /\ q.result = upl.res)
    BY DEF Next, vars, AgentAlone, ServerAlone, ServePull, ServeStart, ServeResult, GiveUp, ResultFailed,
      CrashWithOpenRequests, Open, ServeLate, PullRequest, StartRequest, ResultRequest
  <2> QED
    BY <1>2, <1>3, <2>1
<1>6. ArchivedOnlyIfReceived'
  BY ReceiptStep DEF ReceiptsInv, ArchivedOnlyIfReceived
<1>7. \A j \in Job : status'[j] = "completed" => \E r \in receipts' : r.job = j /\ r.outcome = "completed"
  BY <1>0, ReceiptStep, CompletedByResult DEF ReceiptsInv
<1> QED
  BY <1>4, <1>5, <1>6, <1>7 DEF ReceiptsInv

\* With the agent of this repository the exception of ServerStartsOnce never applies: a job
\* whose start was confirmed is not delivered, cancelled as queued or started from the queue
\* again, whatever requests are lost or late.
THEOREM PipelineStartsOnce == Spec => [](\A j \in granted : status[j] \in FinalStatus \cup {"running"})
<1>1. Init => StartedInv
  BY DEF Init, ServerInit, StartedInv
<1>2. PipelineInv /\ StartedInv /\ [Next]_vars => StartedInv'
  BY StartedStep
<1>3. StartedInv => \A j \in granted : status[j] \in FinalStatus \cup {"running"}
  BY DEF StartedInv
<1> QED
  BY <1>1, <1>2, <1>3, PipelineInvariant, PTL DEF Spec

\* What the agent holds about receipts is covered by what the server has recorded.
THEOREM PipelineReceipts == Spec => [](PipelineInv /\ EvidenceInv /\ ReceiptsInv)
<1>1. Init => EvidenceInv
  BY EvidenceInit DEF Init
<1>2. Init => ReceiptsInv
  BY FinalOrOpen DEF Init, ServerInit, AgentInit, ReceiptsInv, ArchivedOnlyIfReceived
<1>3. PipelineInv /\ EvidenceInv /\ [Next]_vars => EvidenceInv'
  BY AgentSide, EvidenceStep DEF PipelineInv
<1>4. PipelineInv /\ EvidenceInv /\ ReceiptsInv /\ [Next]_vars => ReceiptsInv'
  BY ReceiptsInvStep
<1> QED
  BY <1>1, <1>2, <1>3, <1>4, PipelineInvariant, PTL DEF Spec

\* The agent files a result away, and deletes the outcome it came from, only when the
\* server holds a receipt for it.
THEOREM PipelineArchives == Spec => []ArchivedOnlyIfReceived
<1>1. ReceiptsInv => ArchivedOnlyIfReceived
  BY DEF ReceiptsInv
<1> QED
  BY <1>1, PipelineReceipts, PTL

\* From the operation to the server's record no evidence is lost.
THEOREM PipelineKeepsEvidence == Spec => []EvidenceReachesServer
<1>1. EvidenceInv /\ ReceiptsInv => EvidenceReachesServer
  <2> SUFFICES ASSUME EvidenceInv, ReceiptsInv, NEW j \in Job, runs[j] > 0, jobStore[j] # "running",
                      outcome[j] = "none", PendingFor(j) = {}
               PROVE  ReceiptsOf(j) # {}
    BY DEF EvidenceReachesServer
  <2>1. PICK id \in archive : id[2] = j
    BY DEF EvidenceInv, EffectsKept, Carried, Evidenced, Evidence
  <2>2. PICK r \in receipts : r.id = id
    BY <2>1 DEF ReceiptsInv, ArchivedOnlyIfReceived
  <2>3. r.job = j
    BY <2>1, <2>2 DEF ReceiptsInv, GenuineResult
  <2> QED
    BY <2>2, <2>3 DEF ReceiptsOf
<1> QED
  BY <1>1, PipelineReceipts, PTL

\* The console shows completed only for an operation that ran and ended well.
THEOREM PipelineCompletedReal == Spec => []CompletedIsReal
<1>1. ReceiptsInv => CompletedIsReal
  BY DEF ReceiptsInv, GenuineResult, Genuine, CompletedIsReal
<1> QED
  BY <1>1, PipelineReceipts, PTL
=============================================================================
