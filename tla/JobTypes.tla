------------------------------ MODULE JobTypes ------------------------------
(***************************************************************************)
(* Vocabulary shared by the two ends of the jobs-v2 protocol: the status   *)
(* of a job, the outcomes an agent reports, and the status each outcome    *)
(* carries on the wire.                                                    *)
(***************************************************************************)
CONSTANT Job            \* the jobs of one endpoint

\* Statuses after which nothing more is expected of a job.  rolled_back and
\* rollback_failed belong to update_agent jobs, which this module leaves out.
FinalStatus ==
  {"completed", "failed", "timed_out", "expired", "duplicate", "unsupported",
   "invalid_parameters", "cancelled", "interrupted"}

Status == FinalStatus \cup {"queued", "sent", "running"}

\* What a JobExecutionResult says, told apart as far as the properties do:
\*   lost_to_restart  failed / JOB_INTERRUPTED, made up by restart recovery
\*   unconfirmed      interrupted / JOB_OUTCOME_UNCONFIRMED
\*   revoked          cancelled / JOB_START_REVOKED
\*   expired, rejected   refused by JobExecutionPolicy.Prepare
\*   running, queued, sent   reports that end nothing; "queued" stands for the
\*                    alias pending too, and "sent" for dispatched
\* The agent of this repository builds none of the last three; the server takes them.
Outcome ==
  {"running", "queued", "sent", "completed", "failed", "lost_to_restart",
   "unconfirmed", "revoked", "expired", "rejected", "duplicate"}

\* The outcomes that end a job.
FinalOutcome == Outcome \ {"running", "queued", "sent"}

\* Mutant: the outcome itself is stored as the status.
StatusNotNormalized == [o \in Outcome |-> o]

StatusOf ==
  [running         |-> "running",
   queued          |-> "queued",
   sent            |-> "sent",
   completed       |-> "completed",
   failed          |-> "failed",
   lost_to_restart |-> "failed",
   unconfirmed     |-> "interrupted",
   revoked         |-> "cancelled",
   expired         |-> "expired",
   rejected        |-> "invalid_parameters",
   duplicate       |-> "duplicate"]

IsFinal(o) == StatusOf[o] \in FinalStatus
=============================================================================
