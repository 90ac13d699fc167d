----------------------------- MODULE ServerJobs -----------------------------
(***************************************************************************)
(* The server's end of the jobs-v2 protocol: the AgentJob rows of one      *)
(* endpoint and every handler that changes their status.  A handler that   *)
(* runs in one transaction with the row locked is one action; the three    *)
(* that read the row before they lock it are two.                          *)
(*                                                                         *)
(* The requests are left open: any result may arrive at any time, also one *)
(* that says a started job is queued or sent, which the server believes.   *)
(* So what is shown here holds whatever the agent does.                    *)
(***************************************************************************)
EXTENDS JobTypes, FiniteSets, Integers

CONSTANTS
  ResultId,      \* Idempotency-Key values
  Reported,      \* the outcomes the agent may report
  Perishable,    \* jobs with an expires_at
  Guarded,       \* jobs whose authorization or capability is checked again
  Automated,     \* jobs that belong to an automation occurrence
  Writer,        \* requests that save a row they have read without a lock
  PullBatch      \* jobs in one pull response (5 in the code)

ASSUME ServerAssumption ==
  /\ Reported \subseteq Outcome
  /\ Perishable \subseteq Job
  /\ Guarded \subseteq Job
  /\ Automated \subseteq Job
  /\ PullBatch \in Nat \ {0}

VARIABLES
  status,        \* AgentJob.status
  recorded,      \* AgentJob.result: the outcome saved, or "none"
  lapsed,        \* expires_at is in the past
  barred,        \* "no", or the status the next pull gives a job no longer allowed
  receipts,      \* AgentJobResultReceipt rows and their progressions
  granted,       \* jobs whose start this server has ever confirmed
  held,          \* what each writer has read and not yet saved
  disputed       \* result ids that came again with another payload (conflict_count)

serverVars == <<status, recorded, lapsed, barred, receipts, granted, held, disputed>>

Result == [id : ResultId, job : Job, outcome : Outcome]

Task == [save : {"failed", "cancelled", "expired"}, job : Job]
NoTask == [save |-> "none"]

ServerTypeOK ==
  /\ status \in [Job -> Status]
  /\ recorded \in [Job -> Outcome \cup {"none"}]
  /\ lapsed \in [Job -> BOOLEAN]
  /\ barred \in [Job -> {"no", "cancelled", "unsupported"}]
  /\ receipts \subseteq Result
  /\ granted \subseteq Job
  /\ held \in [Writer -> Task \cup {NoTask}]
  /\ disputed \subseteq ResultId

ServerInit ==
  /\ status = [j \in Job |-> "queued"]
  /\ recorded = [j \in Job |-> "none"]
  /\ lapsed = [j \in Job |-> FALSE]
  /\ barred = [j \in Job |-> "no"]
  /\ receipts = {}
  /\ granted = {}
  /\ held = [w \in Writer |-> NoTask]
  /\ disputed = {}

-----------------------------------------------------------------------------
(* Time and permissions, which the handlers only read. *)

Lapse(j) ==
  /\ j \in Perishable
  /\ ~lapsed[j]
  /\ lapsed' = [lapsed EXCEPT ![j] = TRUE]
  /\ UNCHANGED <<status, recorded, barred, receipts, granted, held, disputed>>

Bar(j, s) ==
  /\ j \in Guarded
  /\ barred[j] = "no"
  /\ barred' = [barred EXCEPT ![j] = s]
  /\ UNCHANGED <<status, recorded, lapsed, receipts, granted, held, disputed>>

-----------------------------------------------------------------------------
(* The agent's requests. *)

Queued == {j \in Job : status[j] = "queued"}

\* Mutant: running jobs are offered again too.
CandidatesEvenRunning == {j \in Job : status[j] \notin FinalStatus /\ ~lapsed[j]}

\* What delivery_candidates offers.  A sent job is a candidate again once it
\* has waited 30 s, so any of them may be one.
Candidates == {j \in Job : status[j] \in {"queued", "sent"} /\ ~lapsed[j]}

\* A batch takes the oldest candidates, up to PullBatch.
Batch(B) ==
  /\ B \subseteq Candidates
  /\ Cardinality(B) <= PullBatch
  /\ \/ Queued \cap Candidates \subseteq B
     \/ Cardinality(B) = PullBatch

Deliverable(B) == {j \in B : barred[j] = "no"}

Pull(B) ==
  /\ Batch(B)
  /\ status' = [j \in Job |->
       CASE status[j] = "queued" /\ lapsed[j] -> "expired"
         [] j \in B /\ barred[j] # "no"       -> barred[j]
         [] j \in B /\ barred[j] = "no"       -> "sent"
         [] OTHER                             -> status[j]]
  /\ UNCHANGED <<recorded, lapsed, barred, receipts, granted, held, disputed>>

\* Mutant: the status of the job is not looked at.
MayStartClosed(j) == barred[j] # "cancelled" /\ ~lapsed[j]

\* 409: not startable, authorization revoked, or expired before it was started.
\* Capability ("unsupported") is checked by the pull and not again here.
MayStart(j) ==
  /\ status[j] \in {"sent", "running"}
  /\ barred[j] # "cancelled"
  /\ status[j] = "running" \/ ~lapsed[j]

Start(j) ==
  /\ MayStart(j)
  /\ status' = [status EXCEPT ![j] = "running"]
  /\ granted' = granted \cup {j}
  /\ UNCHANGED <<recorded, lapsed, barred, receipts, held, disputed>>

RefuseStart(j) ==
  /\ ~MayStart(j)
  /\ UNCHANGED serverVars

SameId(r) == {q \in receipts : q.id = r.id}

\* The same result_id with another payload is accepted only as the final word
\* on a job that had an intermediate one.
Progresses(r) ==
  /\ \A q \in SameId(r) : q.job = r.job
  /\ status[r.job] \notin FinalStatus
  /\ IsFinal(r.outcome)

Conflicts(r) == r \notin receipts /\ SameId(r) # {} /\ ~Progresses(r)

KnownResult(r) ==
  /\ r \in receipts
  /\ UNCHANGED serverVars

\* 409.  What is left of it is that the receipt counts as disputed from now on.
ConflictingResult(r) ==
  /\ Conflicts(r)
  /\ disputed' = disputed \cup {r.id}
  /\ UNCHANGED <<status, recorded, lapsed, barred, receipts, granted, held>>

LateResult(r) ==
  /\ SameId(r) = {}
  /\ status[r.job] \in FinalStatus
  /\ receipts' = receipts \cup {r}
  /\ UNCHANGED <<status, recorded, lapsed, barred, granted, held, disputed>>

\* Mutant: a result is saved whatever the job's status.
SaveResultOverFinal(r) ==
  /\ r \notin receipts
  /\ ~Conflicts(r)
  /\ status' = [status EXCEPT ![r.job] = StatusOf[r.outcome]]
  /\ recorded' = [recorded EXCEPT ![r.job] = r.outcome]
  /\ receipts' = receipts \cup {r}
  /\ UNCHANGED <<lapsed, barred, granted, held, disputed>>

SaveResult(r) ==
  /\ r \notin receipts
  /\ ~Conflicts(r)
  /\ status[r.job] \notin FinalStatus
  /\ status' = [status EXCEPT ![r.job] = StatusOf[r.outcome]]
  /\ recorded' = [recorded EXCEPT ![r.job] = r.outcome]
  /\ receipts' = receipts \cup {r}
  /\ UNCHANGED <<lapsed, barred, granted, held, disputed>>

\* Mutant: a result of a closed job gets an error for an answer.
AcceptOpenResult(r) == KnownResult(r) \/ SaveResult(r)

\* Every result the server answers with 200 and the result's id.
AcceptResult(r) == KnownResult(r) \/ LateResult(r) \/ SaveResult(r)

-----------------------------------------------------------------------------
(* The server's own changes to a job. *)

ReceiptsOf(j) == {r \in receipts : r.job = j}

\* Mutant: the evidence is not evaluated again under the lock.
TimeOutUnchecked(j) ==
  /\ status[j] \notin {"queued", "timed_out"}
  /\ status' = [status EXCEPT ![j] = "timed_out"]
  /\ UNCHANGED <<recorded, lapsed, barred, receipts, granted, held, disputed>>

\* A receipt that says no more than that the job is on its way.
Intermediate(r) == ~IsFinal(r.outcome) /\ r.id \notin disputed

\* reconcile_stale_agent_job: how old the job is does not matter here, what
\* evidence there is does.
TimeOut(j) ==
  /\ \/ status[j] = "sent" /\ ReceiptsOf(j) = {} /\ recorded[j] = "none"
     \/ status[j] = "running" /\ \A r \in ReceiptsOf(j) : Intermediate(r)
  /\ status' = [status EXCEPT ![j] = "timed_out"]
  /\ UNCHANGED <<recorded, lapsed, barred, receipts, granted, held, disputed>>

\* The scheduler's round, for work whose window has closed.
CloseWindow(j) ==
  /\ j \in Automated
  /\ lapsed[j]
  /\ status[j] \in {"queued", "sent"}
  /\ status' = [status EXCEPT ![j] = "expired"]
  /\ UNCHANGED <<recorded, lapsed, barred, receipts, granted, held, disputed>>

\* Cancelling an automation or one occurrence of it, under the row lock.
CancelQueued(j) ==
  /\ j \in Automated
  /\ status[j] = "queued"
  /\ status' = [status EXCEPT ![j] = "cancelled"]
  /\ UNCHANGED <<recorded, lapsed, barred, receipts, granted, held, disputed>>

\* endpoint_job_mark_failed reads the row without a lock and saves it later.
\* Statuses it does not list are marked failed even though they are final.
MarkedAlready == {"completed", "failed", "cancelled", "timed_out"}

ReadToMarkFailed(w, j) ==
  /\ held[w] = NoTask
  /\ status[j] \notin MarkedAlready
  /\ held' = [held EXCEPT ![w] = [save |-> "failed", job |-> j]]
  /\ UNCHANGED <<status, recorded, lapsed, barred, receipts, granted, disputed>>

\* endpoint_uninstall_cancel is atomic but does not lock the job it has read.
ReadToCancel(w, j) ==
  /\ held[w] = NoTask
  /\ status[j] = "queued"
  /\ held' = [held EXCEPT ![w] = [save |-> "cancelled", job |-> j]]
  /\ UNCHANGED <<status, recorded, lapsed, barred, receipts, granted, disputed>>

\* The pull reads its expired rows without a lock too.  Pull stands for the case
\* that nothing comes between, this for the case that another handler does.
ReadToExpire(w, j) ==
  /\ held[w] = NoTask
  /\ status[j] = "queued" /\ lapsed[j]
  /\ held' = [held EXCEPT ![w] = [save |-> "expired", job |-> j]]
  /\ UNCHANGED <<status, recorded, lapsed, barred, receipts, granted, disputed>>

\* Mutant: the job an operator gives up goes back to the queue.
SaveTaskRequeues(w) ==
  /\ held[w] # NoTask
  /\ status' = [status EXCEPT ![held[w].job] = "queued"]
  /\ held' = [held EXCEPT ![w] = NoTask]
  /\ UNCHANGED <<recorded, lapsed, barred, receipts, granted, disputed>>

SaveTask(w) ==
  /\ held[w] # NoTask
  /\ status' = [status EXCEPT ![held[w].job] = held[w].save]
  /\ held' = [held EXCEPT ![w] = NoTask]
  /\ UNCHANGED <<recorded, lapsed, barred, receipts, granted, disputed>>

ServerInternal ==
  \/ \E j \in Job : Lapse(j) \/ TimeOut(j) \/ CloseWindow(j) \/ CancelQueued(j)
  \/ \E j \in Job, s \in {"cancelled", "unsupported"} : Bar(j, s)
  \/ \E w \in Writer, j \in Job :
       ReadToMarkFailed(w, j) \/ ReadToCancel(w, j) \/ ReadToExpire(w, j)
  \/ \E w \in Writer : SaveTask(w)

ServerNext ==
  \/ ServerInternal
  \/ \E B \in SUBSET Job : Pull(B)
  \/ \E j \in Job : Start(j) \/ RefuseStart(j)
  \/ \E r \in [id : ResultId, job : Job, outcome : Reported] :
       AcceptResult(r) \/ ConflictingResult(r)

ServerSpec == ServerInit /\ [][ServerNext]_serverVars

-----------------------------------------------------------------------------
(* Properties. *)

\* Once the server has acknowledged a final result of a job, the job is final:
\* the agent drops its evidence on that answer, so a job it still held open
\* would never be closed by it again.
AcknowledgedIsFinal ==
  \A r \in receipts : IsFinal(r.outcome) => status[r.job] \in FinalStatus

\* The outcome a row records is one a receipt vouches for, and its status is the
\* one that outcome carries, unless an unlocked save has overruled it: no timeout,
\* start or cancellation under the lock is ever written over a final outcome.
StatusMatchesEvidence ==
  \A j \in Job :
    /\ recorded[j] # "none" => \E r \in ReceiptsOf(j) : r.outcome = recorded[j]
    /\ recorded[j] \in FinalOutcome =>
         status[j] \in {StatusOf[recorded[j]], "failed", "cancelled", "expired"}

\* A final status is never replaced by a late result, a redelivery or a timeout.
\* Only a save of a row read without its lock, before it was final, can.
OnlyUnlockedSavesReplaceFinal ==
  [][\A j \in Job : status[j] \in FinalStatus /\ status'[j] # status[j] =>
       \E w \in Writer :
         held[w] # NoTask /\ held'[w] = NoTask /\ held[w].job = j]_serverVars

\* Whatever is saved without a lock, a closed job is never opened again.
ClosedStaysClosed ==
  [][\A j \in Job : status[j] \in FinalStatus => status'[j] \in FinalStatus]_serverVars

\* Claim of endpoint_uninstall_cancel's own answer: work delivered to the agent
\* can no longer be cancelled.
CancelsOnlyUndelivered ==
  [][\A w \in Writer :
       held[w].save = "cancelled" /\ held'[w] = NoTask =>
         status[held[w].job] \notin {"sent", "running"}]_serverVars

\* Work the server has confirmed as started is not handed out a second time: no pull,
\* timeout, cancellation or unlocked save takes it back to where a pull would offer it
\* again.  Only a new report of the agent that says itself it is not begun does.
StartedIsNotReissued ==
  [][\A j \in granted :
       status[j] = "running" /\ status'[j] \in {"queued", "sent"} =>
         \E r \in receipts' \ receipts :
           r.job = j /\ StatusOf[r.outcome] = status'[j]]_serverVars

\* No request takes a job back: a closed one never, and one whose start was confirmed
\* only if the agent reports that it is not begun.
JobsGoForward == ClosedStaysClosed /\ StartedIsNotReissued
=============================================================================
