----------------------------- MODULE JobPipeline ----------------------------
(***************************************************************************)
(* The jobs-v2 pipeline from end to end: ServerJobs and AgentJobs joined   *)
(* by an HTTP connection that loses and delays requests.                   *)
(*                                                                         *)
(* A task of the agent has at most one request open.  Serving it changes   *)
(* the server and gives the task its answer in one step: nothing of the    *)
(* agent's can come between, because the task does nothing else meanwhile. *)
(* A request the task gave up (five seconds, or a crash) stays in `late`,  *)
(* where the server may still serve it, without an answer, or never see it.*)
(***************************************************************************)
EXTENDS ServerJobs, AgentJobs

\* The server takes any result the agent can build.
ASSUME PipelineAssumption ==
  /\ AgentResultId \subseteq ResultId
  /\ FinalOutcome \subseteq Reported

VARIABLE late

vars == <<serverVars, agentVars, late>>

PullRequest == [kind |-> "pull"]
StartRequest(j) == [kind |-> "start", job |-> j]
ResultRequest(r) == [kind |-> "result", result |-> r]

Request ==
  {PullRequest} \cup {StartRequest(j) : j \in Job}
                \cup {ResultRequest(r) : r \in AgentResult}

TypeOK == ServerTypeOK /\ AgentTypeOK /\ late \subseteq Request

Init == ServerInit /\ AgentInit /\ late = {}

\* The requests the tasks are waiting for.
Open ==
  {q \in {PullRequest} : disp.pc = "pulling"}
    \cup {q \in {StartRequest(exec.job)} : exec.pc = "starting"}
    \cup {q \in {ResultRequest(upl.res)} : upl.pc = "sending"}

-----------------------------------------------------------------------------
(* Requests answered in time. *)

ServePull(B) ==
  /\ Pull(B) /\ PullAnswered(Deliverable(B))
  /\ UNCHANGED late

ServeStart ==
  /\ exec.pc = "starting"
  /\ \/ Start(exec.job) /\ StartGranted
     \/ RefuseStart(exec.job) /\ StartRefused
  /\ UNCHANGED late

ServeResult ==
  /\ upl.pc = "sending"
  /\ AcceptResult(upl.res) /\ ResultAccepted
  /\ UNCHANGED late

(* Requests given up, and what becomes of them. *)

GiveUp ==
  /\ \/ PullFailed /\ late' = late \cup {PullRequest}
     \/ StartFailed /\ late' = late \cup {StartRequest(exec.job)}
     \/ ResultFailed /\ late' = late \cup {ResultRequest(upl.res)}
  /\ UNCHANGED serverVars

CrashWithOpenRequests ==
  /\ Crash
  /\ late' = late \cup Open
  /\ UNCHANGED serverVars

ServeLate(q) ==
  /\ q \in late
  /\ late' = late \ {q}
  /\ \/ q = PullRequest /\ \E B \in SUBSET Candidates : Pull(B)
     \/ q.kind = "start" /\ Start(q.job)
     \/ q.kind = "result" /\ AcceptResult(q.result)
     \/ UNCHANGED serverVars           \* lost, or answered with an error
  /\ UNCHANGED agentVars

-----------------------------------------------------------------------------
AgentAlone ==
  /\ \/ AgentWork \/ DispFault \/ ExecFault \/ UplFault
     \/ \E j \in Job : AgentExpire(j)
  /\ UNCHANGED <<serverVars, late>>

ServerAlone == ServerInternal /\ UNCHANGED <<agentVars, late>>

Next ==
  \/ AgentAlone
  \/ ServerAlone
  \/ \E B \in SUBSET Candidates : ServePull(B)
  \/ ServeStart \/ ServeResult
  \/ GiveUp \/ CrashWithOpenRequests
  \/ \E q \in late : ServeLate(q)

Spec == Init /\ [][Next]_vars

-----------------------------------------------------------------------------
(* Fairness.  The three tasks are loops of their own in one process that the
   service manager restarts.  The network may lose any request, not all of
   those a task keeps sending: serving is strongly fair.                     *)

DispatchTask ==
  DispPull \/ DispJournal \/ DispQueue \/ DispEnqueue \/ DispDone
    \/ \E j \in Job : Accept(j) \/ RejectAction(j)

ExecuteTask ==
  \/ \E j \in Job : ExecDrop(j) \/ ExecDoubt(j) \/ ExecValidate(j)
  \/ \E o \in {"completed", "failed"} : Perform(o)
  \/ ExecBegin \/ ExecPersist \/ ExecFinish \/ ExecJournal \/ ExecQueue
  \/ ExecEnqueue \/ ExecRemove

RestartTask ==
  Restart \/ RecoverFinal \/ RecoverQueue \/ Recovered \/ \E j \in Job : RecoverLost(j)

Alone(A) == A /\ UNCHANGED <<serverVars, late>>

Fairness ==
  /\ WF_vars(Alone(DispatchTask))
  /\ WF_vars(Alone(ExecuteTask))
  /\ WF_vars(Alone(UplAcknowledge))
  /\ WF_vars(Alone(RestartTask))
  /\ WF_vars(GiveUp)
  /\ \A j \in Job :
       /\ SF_vars(Alone(UplScan(j)))
       /\ SF_vars(\E r \in PendingFor(j) : Alone(UplSend(r)))
       /\ SF_vars(\E B \in SUBSET Candidates : j \in B /\ ServePull(B))
       /\ SF_vars(exec.job = j /\ ServeStart)
       /\ SF_vars(upl.res.job = j /\ ServeResult)

FairSpec == Spec /\ Fairness

-----------------------------------------------------------------------------
(* Properties. *)

\* Only work whose start the server has confirmed is carried out.  A lost answer
\* authorizes nothing, and a confirmation of another job does not count.
RunOnlyGranted == \A j \in Job : runs[j] > 0 => j \in granted

\* The agent files a result away, and deletes the outcome it came from, only when
\* the server holds a receipt for it.
ArchivedOnlyIfReceived ==
  \A id \in archive : \E r \in receipts : r.id = id

\* From the operation to the server's record no evidence is lost: a job that was
\* carried out is still running locally, has evidence on the agent's disk, or has
\* a receipt on the server.
EvidenceReachesServer ==
  \A j \in Job : runs[j] > 0 =>
    \/ jobStore[j] = "running"
    \/ outcome[j] # "none"
    \/ PendingFor(j) # {}
    \/ ReceiptsOf(j) # {}

\* The console shows completed only for an operation that ran and ended well.
CompletedIsReal ==
  \A j \in Job : status[j] = "completed" => effect[j] = "completed"

\* The pipeline keeps the contract: at most once, only once granted, and no grant
\* of a closed job, which stays closed.
Contract == INSTANCE JobContract WITH
  begun <- granted,
  done <- runs,
  closed <- {j \in Job : status[j] \in FinalStatus}

KeepsContract == Contract!Spec

\* Every job handed to the agent is closed in the end, whatever is lost on the
\* way and in spite of restarts.
EveryJobCloses == \A j \in Job : <>(status[j] \in FinalStatus)

\* Nothing stays behind on the agent: every result is acknowledged in the end.
EveryResultIsAcknowledged == <>[](pending = {} /\ \A j \in Job : outcome[j] = "none")

\* Claim of the jobs document: restart recovery queues the original result and
\* does not replace its evidence.  Here: while the journal holds a completion the
\* server is never told that the job was interrupted.
RestartKeepsExactResult ==
  \A j \in Job : outcome[j] = "completed" => recorded[j] # "lost_to_restart"
=============================================================================
