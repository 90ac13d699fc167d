----------------------------- MODULE RemoteInstall ----------------------------
(***************************************************************************)
(* Installing the agent on computers over WinRM, one at a time.            *)
(*                                                                         *)
(* A request makes a job row (a single install) or a batch of items, and   *)
(* starts a process that works on it; the batch's process starts one       *)
(* install process per item and watches its row.  A row holds the global   *)
(* slot while its process may act; every write of the process needs the    *)
(* slot, and the script is sent with the row locked.  Processes die, or    *)
(* stall and act again later.  What happens on a computer is external.     *)
(***************************************************************************)
EXTENDS FiniteSets, Naturals

CONSTANTS
  Target,            \* computers
  Batch, Solo,       \* requests: batches and single installs
  NoTarget, NoBatch,
  MaxInstallFaults,  \* bound: processes that die or stall, starts that fail
  MaxRequests        \* bound: requests that are accepted

InstallAssumption ==
  /\ Batch \cap Solo = {} /\ NoTarget \notin Target /\ NoBatch \notin Batch \cup Solo
  /\ MaxInstallFaults \in Nat /\ MaxRequests \in Nat

VARIABLES
  job,       \* RemoteInstallJob by request and target
  install,   \* the process of each row (for a single install also its request)
  stalled,   \* rows whose process is alive and silent
  token,     \* AgentDeploymentToken made for each row
  script,    \* external: what the sent script has done on the target
  agent,     \* external: the targets where the agent is installed
  managed,   \* the row whose token a target enrolled with
  batch,     \* RemoteInstallBatch: status, slot, current target, its process
  item,      \* RemoteInstallBatchItem: status
  proven,    \* blockers of the target as a request saw them when it probed
  installFaults

targetVars == <<script, agent, managed>>
batchVars == <<batch, item, proven>>
installVars == <<job, install, stalled, token, targetVars, batchVars, installFaults>>

Row == Batch \cup Solo
NoJob == [status |-> "none", slot |-> FALSE, safe |-> FALSE, invoked |-> FALSE,
          began |-> FALSE, late |-> FALSE, nr |-> 0]
Open == {"QUEUED", "RUNNING"}
Blocking == {"COMPLETED", "INSTALLED_UNVERIFIED", "OUTCOME_UNKNOWN"}
Ended == Blocking \cup {"FAILED", "INTERRUPTED"}
ItemEnded == {"COMPLETED", "FAILED", "REVIEW_REQUIRED"}
BatchEnded == {"COMPLETED", "COMPLETED_WITH_ERRORS", "INTERRUPTED"}
Usable == {"waiting", "installing"}
Working == {"start", "prepare", "intend", "send", "watch", "enroll", "beat", "finally"}

InstallInit ==
  LET Each(v) == [r \in Row |-> [t \in Target |-> v]] IN
  /\ job = Each(NoJob) /\ install = Each("none") /\ stalled = {}
  /\ token = Each("none") /\ script = Each("none")
  /\ agent = {} /\ managed = [t \in Target |-> NoBatch]
  /\ batch = [b \in Batch |-> [status |-> "none", slot |-> FALSE, at |-> NoTarget, runner |-> "none"]]
  /\ item = [b \in Batch |-> [t \in Target |-> "none"]]
  /\ proven = [r \in Row |-> {}]
  /\ installFaults = 0

Requests == {b \in Batch : batch[b].status # "none"}
            \cup {s \in Solo : \E t \in Target : install[s][t] # "none"}
MayAsk(r) == r \notin Requests /\ Cardinality(Requests) < MaxRequests
InstallFault == installFaults < MaxInstallFaults /\ installFaults' = installFaults + 1

----------------------------------------------------------------------------
(* Rows.                                                                   *)

JobIsRetrySafe(j) == j.safe /\ ~j.began /\ ~j.invoked
\* _update: a status that is not terminal is RUNNING again.
Updated(j, status) == [j EXCEPT !.status = status, !.slot = status \in {"RUNNING", "OUTCOME_UNKNOWN"}]
\* A row given up by somebody else: what its process may have done decides.
Abandoned(j) ==
  [j EXCEPT !.status = IF JobIsRetrySafe(j) THEN "INTERRUPTED" ELSE "OUTCOME_UNKNOWN",
            !.safe = JobIsRetrySafe(j), !.slot = FALSE]
ItemOf(j) ==
  IF j.status = "COMPLETED" THEN "COMPLETED"
  ELSE IF j.status \in {"FAILED", "INTERRUPTED"} /\ JobIsRetrySafe(j) THEN "FAILED"
  ELSE "REVIEW_REQUIRED"
\* No heartbeat for long enough.
Stale(r, t) ==
  \/ <<r, t>> \in stalled \/ install[r][t] = "dead"
  \/ r \in Batch /\ install[r][t] = "none" /\ batch[r].runner # "launch"

AdTarget(t) == managed[t] = NoBatch
Absent(t) == t \notin agent /\ managed[t] = NoBatch
Blockers(rows, t) == {<<r, rows[r][t].status>> : r \in {x \in Row : rows[x][t].status \in Blocking}}
Busy(rows, t) ==
  \E r \in Row, u \in Target :
    /\ rows[r][u].slot \/ rows[r][u].status \in Open
    /\ ~(rows[r][u].status = "OUTCOME_UNKNOWN" /\ u = t)
BatchActive == \E b \in Batch : batch[b].slot

----------------------------------------------------------------------------
(* create_remote_install_job and start_remote_install.                     *)

\* reconcile_stale_jobs(preserve_unknown_slots=True): rows of single installs only.
Reconciled ==
  [r \in Row |-> [t \in Target |->
    IF r \in Solo /\ job[r][t].slot /\ job[r][t].status \in Open /\ Stale(r, t)
    THEN [Abandoned(job[r][t]) EXCEPT !.slot = ~JobIsRetrySafe(job[r][t])]
    ELSE job[r][t]]]

\* Before the transaction: the target is not managed, nothing else is active, and
\* a probe finds no agent there if an earlier outcome asks for one.
Check(r, t) ==
  /\ AdTarget(t) /\ ~Busy(Reconciled, t) /\ (Blockers(Reconciled, t) # {} => Absent(t))
  /\ job' = Reconciled
  /\ proven' = [proven EXCEPT ![r] = Blockers(Reconciled, t)]

\* In it: all of it again but the probe.
Admissible(r, t) ==
  /\ IF r \in Solo THEN ~BatchActive
     ELSE /\ batch[r].slot /\ batch[r].status = "RUNNING"
          /\ item[r][t] = "PREFLIGHT" /\ batch[r].at = t
  /\ Blockers(job, t) = proven[r] /\ ~Busy(job, t)
  /\ proven[r] # {} => AdTarget(t)
Admitted(r, t) ==
  [x \in Row |-> [u \in Target |->
     IF x = r /\ u = t
     THEN [NoJob EXCEPT !.status = "QUEUED", !.slot = TRUE, !.safe = TRUE,
             !.nr = 1 + Cardinality({y \in Row : job[y][t].status # "none"})]
     ELSE IF u = t /\ job[x][u].status \in Blocking THEN [job[x][u] EXCEPT !.slot = FALSE]
     ELSE job[x][u]]]

\* The process is made, or the row is saved as interrupted.
Start(r, t) ==
  \/ install' = [install EXCEPT ![r][t] = "start"] /\ UNCHANGED <<job, installFaults>>
  \/ /\ InstallFault /\ install' = [install EXCEPT ![r][t] = "over"]
     /\ job' = [job EXCEPT ![r][t] = IF @.slot THEN [Updated(@, "INTERRUPTED") EXCEPT !.safe = TRUE] ELSE @]

\* install_ad_computer: the checks, the row, the process.
AskSolo(s, t) ==
  /\ MayAsk(s) /\ Check(s, t)
  /\ install' = [install EXCEPT ![s][t] = "asked"]
  /\ UNCHANGED <<stalled, token, targetVars, batch, item, installFaults>>

AdmitSolo(s, t) ==
  /\ install[s][t] = "asked"
  /\ IF Admissible(s, t)
     THEN job' = Admitted(s, t) /\ install' = [install EXCEPT ![s][t] = "made"]
     ELSE install' = [install EXCEPT ![s][t] = "over"] /\ UNCHANGED job
  /\ UNCHANGED <<stalled, token, targetVars, batchVars, installFaults>>

StartSolo(s, t) ==
  /\ install[s][t] = "made" /\ Start(s, t)
  /\ UNCHANGED <<stalled, token, targetVars, batchVars>>

----------------------------------------------------------------------------
(* The install process, run_remote_install.                                *)

At(r, t, pc) == install[r][t] = pc /\ <<r, t>> \notin stalled
Goes(r, t, pc) == install' = [install EXCEPT ![r][t] = pc]
Keeps(r, t, new) == job' = [job EXCEPT ![r][t] = new]
\* A write of the process: without the slot it stops (InstallLeaseLost).
Writes(r, t, new, pc) ==
  IF job[r][t].slot THEN Keeps(r, t, new) /\ Goes(r, t, pc)
  ELSE UNCHANGED job /\ Goes(r, t, "finally")
\* The handlers of InstallFailure and Exception: no row, no write.
Fails(r, t, status, safe, invoked) ==
  /\ Keeps(r, t, IF ~job[r][t].slot THEN job[r][t]
                 ELSE [Updated(job[r][t], status) EXCEPT !.safe = safe, !.invoked = invoked])
  /\ Goes(r, t, "finally")
InProcess == UNCHANGED <<stalled, agent, managed, batchVars, installFaults>>

Validate(r, t) ==
  /\ At(r, t, "start")
  /\ \/ Absent(t) /\ Writes(r, t, Updated(job[r][t], "RUNNING"), "prepare")
     \/ Fails(r, t, "FAILED", t \notin agent, FALSE)
     \/ Fails(r, t, "INTERRUPTED", TRUE, FALSE)
  /\ InProcess /\ UNCHANGED <<token, script>>

\* The token is made in the transaction that finds the row still running.
PrepareDeployment(r, t) ==
  /\ At(r, t, "prepare")
  /\ \/ /\ AdTarget(t) /\ Writes(r, t, Updated(job[r][t], "RUNNING"), "intend")
        /\ token' = [token EXCEPT ![r][t] = IF job[r][t].slot THEN "waiting" ELSE @]
     \/ /\ ~AdTarget(t) /\ Fails(r, t, "FAILED", TRUE, FALSE)
        /\ UNCHANGED token
  /\ InProcess /\ UNCHANGED script

\* Mutant: what is about to happen is not saved first.
IntendUnsaved(r, t) ==
  /\ At(r, t, "intend") /\ Writes(r, t, Updated(job[r][t], "RUNNING"), "send")
  /\ InProcess /\ UNCHANGED <<token, script>>
\* What is about to happen is saved first.
Intend(r, t) ==
  /\ At(r, t, "intend")
  /\ Writes(r, t, [Updated(job[r][t], "RUNNING") EXCEPT !.invoked = TRUE, !.safe = FALSE], "send")
  /\ InProcess /\ UNCHANGED <<token, script>>

\* _remote_script: the payload goes out with the row locked, or surely does not.
Send(r, t) ==
  /\ At(r, t, "send")
  /\ \/ /\ Writes(r, t, Updated(job[r][t], "RUNNING"), "watch")
        /\ script' = [script EXCEPT ![r][t] = IF job[r][t].slot THEN "sent" ELSE @]
     \/ Fails(r, t, "FAILED", TRUE, FALSE) /\ UNCHANGED script
     \/ /\ job[r][t].slot /\ Fails(r, t, "OUTCOME_UNKNOWN", FALSE, TRUE)
        /\ script' \in {script, [script EXCEPT ![r][t] = "sent"]}
  /\ InProcess /\ UNCHANGED token

\* The frames of the script, its exit code, and the service check.
WatchScript(r, t) ==
  LET j == job[r][t] s == script[r][t] IN
  /\ At(r, t, "watch")
  /\ \/ /\ s \in {"running", "done", "bad"} /\ ~j.began
        /\ Writes(r, t, [Updated(j, "RUNNING") EXCEPT !.began = TRUE, !.safe = FALSE], "watch")
     \/ s = "done" /\ j.began /\ Writes(r, t, Updated(j, "RUNNING"), "enroll")
     \/ s = "done" /\ j.began /\ Fails(r, t, "INSTALLED_UNVERIFIED", FALSE, TRUE)
     \/ s \in {"present", "refused"} /\ ~j.began /\ Fails(r, t, "FAILED", s = "refused", FALSE)
     \/ Fails(r, t, "OUTCOME_UNKNOWN", FALSE, TRUE)
  /\ InProcess /\ UNCHANGED <<token, script>>

AwaitEnrollment(r, t) ==
  /\ At(r, t, "enroll")
  /\ \/ /\ managed[t] = r /\ token[r][t] = "installing"
        /\ Writes(r, t, Updated(job[r][t], "RUNNING"), "beat")
     \/ Fails(r, t, "INSTALLED_UNVERIFIED", FALSE, TRUE)
  /\ InProcess /\ UNCHANGED <<token, script>>

\* Service, enrollment and heartbeat: the token and the row in one transaction.
AwaitHeartbeat(r, t) ==
  /\ At(r, t, "beat")
  /\ \/ /\ managed[t] = r /\ token[r][t] = "installing" /\ job[r][t].status = "RUNNING"
        /\ Writes(r, t, [Updated(job[r][t], "COMPLETED") EXCEPT !.safe = FALSE], "finally")
        /\ token' = [token EXCEPT ![r][t] = IF job[r][t].slot THEN "completed" ELSE @]
     \/ /\ Writes(r, t, [Updated(job[r][t], "INSTALLED_UNVERIFIED") EXCEPT !.safe = FALSE, !.late = TRUE],
                  "finally")
        /\ UNCHANGED token
  /\ InProcess /\ UNCHANGED script

\* A token that was not consumed never outlives the attempt.
FinishInstall(r, t) ==
  /\ At(r, t, "finally") /\ Goes(r, t, "over")
  /\ token' = [token EXCEPT ![r][t] = IF @ \in Usable THEN "failed" ELSE @]
  /\ InProcess /\ UNCHANGED <<job, script>>

InstallStep(r, t) ==
  \/ Validate(r, t) \/ PrepareDeployment(r, t) \/ Intend(r, t) \/ Send(r, t)
  \/ WatchScript(r, t) \/ AwaitEnrollment(r, t) \/ AwaitHeartbeat(r, t) \/ FinishInstall(r, t)

----------------------------------------------------------------------------
(* The computer.                                                           *)

OnTarget == UNCHANGED <<install, stalled, batchVars, installFaults>>

\* The script looks for an agent before it starts the installer.
ScriptStarts(r, t) ==
  /\ script[r][t] = "sent"
  /\ \E s \in IF t \in agent THEN {"present"} ELSE {"running", "refused"} :
       script' = [script EXCEPT ![r][t] = s]
  /\ OnTarget /\ UNCHANGED <<job, token, agent, managed>>

ScriptEnds(r, t) ==
  /\ script[r][t] = "running"
  /\ \/ script' = [script EXCEPT ![r][t] = "done"] /\ agent' = agent \cup {t}
     \/ script' = [script EXCEPT ![r][t] = "bad"] /\ agent' \in {agent, agent \cup {t}}
  /\ OnTarget /\ UNCHANGED <<job, token, managed>>

Enroll(r, t) ==
  /\ t \in agent /\ managed[t] = NoBatch
  /\ script[r][t] \in {"done", "bad"} /\ token[r][t] = "waiting"
  /\ token' = [token EXCEPT ![r][t] = "installing"]
  /\ managed' = [managed EXCEPT ![t] = r]
  /\ OnTarget /\ UNCHANGED <<job, script, agent>>

\* reconcile_remote_install_heartbeat: a heartbeat that came too late for the process.
LateHeartbeat(r, t) ==
  /\ managed[t] = r /\ token[r][t] = "failed"
  /\ job[r][t].status = "INSTALLED_UNVERIFIED" /\ job[r][t].late
  /\ \A x \in Row : job[x][t].nr <= job[r][t].nr
  /\ token' = [token EXCEPT ![r][t] = "completed"]
  /\ Keeps(r, t, [job[r][t] EXCEPT !.status = "COMPLETED"])
  /\ OnTarget /\ UNCHANGED targetVars

----------------------------------------------------------------------------
(* Batches.                                                                *)

Runs(b) == batch[b].status = "RUNNING" /\ batch[b].slot
RunnerAt(b, pc) == batch' = [batch EXCEPT ![b].runner = pc]

\* create_batch: a target that is managed is kept, as an item that failed.
NewBatch(b, targets) ==
  /\ MayAsk(b) /\ targets # {}
  /\ ~BatchActive /\ \A r \in Row, t \in Target : ~job[r][t].slot /\ job[r][t].status \notin Open
  /\ batch' = [batch EXCEPT ![b] = [@ EXCEPT !.status = "QUEUED", !.slot = TRUE, !.runner = "made"]]
  /\ item' = [item EXCEPT ![b] = [t \in Target |-> IF t \notin targets THEN "none"
                                                   ELSE IF AdTarget(t) THEN "WAITING" ELSE "FAILED"]]
  /\ UNCHANGED <<job, install, stalled, token, targetVars, proven, installFaults>>

\* retry_batch: what surely did not happen, and what is proven not to have.
Retryable(p) ==
  {t \in Target : \/ item[p][t] = "REVIEW_REQUIRED"
                  \/ item[p][t] = "FAILED" /\ (job[p][t] # NoJob => JobIsRetrySafe(job[p][t]))}
RetryBatch(b, p) ==
  /\ batch[p].status \in BatchEnded
  /\ \A t \in Retryable(p) : AdTarget(t) /\ (item[p][t] = "REVIEW_REQUIRED" => Absent(t))
  /\ NewBatch(b, Retryable(p))

\* interrupt_batch: every item that is open ends with what its row tells.
Interrupted(b, t) ==
  IF job[b][t].status \in Open THEN Abandoned(job[b][t]) ELSE [job[b][t] EXCEPT !.slot = FALSE]
InterruptBatch(b, pc) ==
  LET left == {t \in Target : item[b][t] \notin ItemEnded \cup {"none"}} IN
  IF ~batch[b].slot THEN RunnerAt(b, pc) /\ UNCHANGED <<job, item>> ELSE
  /\ job' = [job EXCEPT ![b] = [t \in Target |-> IF t \in left THEN Interrupted(b, t) ELSE @[t]]]
  /\ item' = [item EXCEPT ![b] = [t \in Target |->
       IF t \notin left THEN @[t] ELSE IF job[b][t] = NoJob THEN "FAILED" ELSE ItemOf(Interrupted(b, t))]]
  /\ batch' = [batch EXCEPT ![b] = [@ EXCEPT !.status = "INTERRUPTED", !.slot = FALSE, !.runner = pc]]

StartBatch(b) ==
  /\ batch[b].runner = "made"
  /\ \/ RunnerAt(b, "start") /\ UNCHANGED <<job, item, installFaults>>
     \/ InstallFault /\ InterruptBatch(b, "over")
  /\ UNCHANGED <<install, stalled, token, targetVars, proven>>

InBatch == UNCHANGED <<stalled, token, targetVars, installFaults>>

ClaimBatch(b) ==
  /\ batch[b].runner = "start"
  /\ batch' = [batch EXCEPT ![b] = IF @.status = "QUEUED" /\ @.slot
                                   THEN [@ EXCEPT !.status = "RUNNING", !.runner = "next"]
                                   ELSE [@ EXCEPT !.runner = "over"]]
  /\ InBatch /\ UNCHANGED <<job, install, item, proven>>

NextItem(b, t) ==
  /\ batch[b].runner = "next" /\ Runs(b) /\ item[b][t] = "WAITING"
  /\ batch' = [batch EXCEPT ![b] = [@ EXCEPT !.at = t, !.runner = "check"]]
  /\ item' = [item EXCEPT ![b][t] = "PREFLIGHT"]
  /\ InBatch /\ UNCHANGED <<job, install, proven>>

FailUnlinked(b) ==
  /\ RunnerAt(b, "next")
  /\ item' = [item EXCEPT ![b][batch[b].at] = IF Runs(b) /\ @ = "PREFLIGHT" THEN "FAILED" ELSE @]

CheckItem(b) ==
  /\ batch[b].runner = "check"
  /\ \/ Absent(batch[b].at) /\ Check(b, batch[b].at) /\ RunnerAt(b, "admit") /\ UNCHANGED item
     \/ FailUnlinked(b) /\ UNCHANGED <<job, proven>>
  /\ InBatch /\ UNCHANGED install

AdmitItem(b) ==
  /\ batch[b].runner = "admit"
  /\ IF Admissible(b, batch[b].at)
     THEN /\ job' = Admitted(b, batch[b].at) /\ RunnerAt(b, "launch")
          /\ item' = [item EXCEPT ![b][batch[b].at] = "INSTALLING"]
     ELSE FailUnlinked(b) /\ UNCHANGED job
  /\ InBatch /\ UNCHANGED <<install, proven>>

LaunchItem(b) ==
  /\ batch[b].runner = "launch" /\ Start(b, batch[b].at)
  /\ RunnerAt(b, "reflect")
  /\ UNCHANGED <<stalled, token, targetVars, item, proven>>

\* The item takes over what the row says; the slot of an unknown outcome goes.
ReflectJob(b) ==
  LET t == batch[b].at IN
  /\ batch[b].runner = "reflect"
  /\ IF Runs(b) /\ item[b][t] \notin ItemEnded
     THEN /\ job[b][t].status \in Ended
          /\ Keeps(b, t, [job[b][t] EXCEPT !.slot = FALSE])
          /\ item' = [item EXCEPT ![b][t] = ItemOf(job[b][t])]
     ELSE UNCHANGED <<job, item>>
  /\ RunnerAt(b, "next") /\ InBatch /\ UNCHANGED <<install, proven>>

\* resolve_stall, by the batch's process or by a technician.
ResolveStall(b) ==
  LET t == batch[b].at IN
  /\ Runs(b) /\ t # NoTarget /\ item[b][t] = "INSTALLING"
  /\ job[b][t].status \in Open /\ job[b][t].slot /\ Stale(b, t)
  /\ Keeps(b, t, Abandoned(job[b][t]))
  /\ item' = [item EXCEPT ![b][t] = IF JobIsRetrySafe(job[b][t]) THEN "FAILED" ELSE "REVIEW_REQUIRED"]
  /\ InBatch /\ UNCHANGED <<install, batch, proven>>

FinishBatch(b) ==
  LET all == {item[b][t] : t \in Target} IN
  /\ batch[b].runner = "next" /\ (Runs(b) => "WAITING" \notin all)
  /\ batch' = [batch EXCEPT ![b] =
       IF ~Runs(b) THEN [@ EXCEPT !.runner = "over"]
       ELSE [@ EXCEPT !.slot = FALSE, !.runner = "over",
               !.status = IF all \cap {"FAILED", "REVIEW_REQUIRED"} # {}
                          THEN "COMPLETED_WITH_ERRORS" ELSE "COMPLETED"]]
  /\ InBatch /\ UNCHANGED <<job, install, item, proven>>

\* reconcile_remote_install_batches --apply: never while a child may be alive.
SweepBatch(b) ==
  /\ batch[b].slot /\ batch[b].runner = "dead"
  /\ \A t \in Target : job[b][t].status \in Open => Stale(b, t)
  /\ InterruptBatch(b, "dead")
  /\ InBatch /\ UNCHANGED <<install, proven>>

BatchStep(b) ==
  \/ StartBatch(b) \/ ClaimBatch(b) \/ CheckItem(b) \/ AdmitItem(b) \/ LaunchItem(b)
  \/ ReflectJob(b) \/ FinishBatch(b)
  \/ \E t \in Target : NextItem(b, t)

----------------------------------------------------------------------------
(* Faults: a process dies, or is silent for a while.                       *)

Die(r, t) ==
  /\ install[r][t] \in Working \cup {"made"} /\ InstallFault
  /\ Goes(r, t, "dead") /\ stalled' = stalled \ {<<r, t>>}
  /\ UNCHANGED <<job, token, targetVars, batchVars>>
Stall(r, t) ==
  /\ install[r][t] \in Working /\ InstallFault /\ stalled' = stalled \cup {<<r, t>>}
  /\ UNCHANGED <<job, install, token, targetVars, batchVars>>
WakeUp(r, t) ==
  /\ <<r, t>> \in stalled /\ stalled' = stalled \ {<<r, t>>}
  /\ UNCHANGED <<job, install, token, targetVars, batchVars, installFaults>>
BatchDies(b) ==
  /\ batch[b].runner \notin {"none", "over", "dead"} /\ InstallFault /\ RunnerAt(b, "dead")
  /\ UNCHANGED <<job, install, stalled, token, targetVars, item, proven>>

InstallNext ==
  \/ \E s \in Solo, t \in Target : AskSolo(s, t) \/ AdmitSolo(s, t) \/ StartSolo(s, t)
  \/ \E r \in Row, t \in Target :
       \/ InstallStep(r, t) \/ ScriptStarts(r, t) \/ ScriptEnds(r, t) \/ Enroll(r, t)
       \/ LateHeartbeat(r, t) \/ Die(r, t) \/ Stall(r, t) \/ WakeUp(r, t)
  \/ \E b \in Batch :
       \/ BatchStep(b) \/ ResolveStall(b) \/ SweepBatch(b) \/ BatchDies(b)
       \/ \E p \in Batch : RetryBatch(b, p)
       \/ \E targets \in SUBSET Target : NewBatch(b, targets)

\* Processes that are alive go on (a stalled one need not), and the batch's process
\* resolves a stall on its own.
InstallFairness ==
  /\ \A r \in Row, t \in Target : WF_installVars(InstallStep(r, t))
  /\ \A b \in Batch :
       /\ WF_installVars(BatchStep(b))
       /\ WF_installVars(batch[b].runner = "reflect" /\ ResolveStall(b))

InstallSpec == InstallInit /\ [][InstallNext]_installVars /\ InstallFairness

----------------------------------------------------------------------------
(* Properties.                                                             *)

InstallTypeOK ==
  /\ \A r \in Row, t \in Target :
       /\ job[r][t].status \in {"none"} \cup Open \cup Ended
       /\ install[r][t] \in Working \cup {"none", "asked", "made", "over", "dead"}
       /\ token[r][t] \in Usable \cup {"none", "completed", "failed"}
       /\ script[r][t] \in {"none", "sent", "running", "done", "bad", "present", "refused"}
  /\ stalled \subseteq Row \X Target /\ agent \subseteq Target
  /\ managed \in [Target -> Row \cup {NoBatch}]
  /\ \A b \in Batch : batch[b].status \in {"none", "QUEUED", "RUNNING"} \cup BatchEnded
  /\ item \in [Batch -> [Target -> {"none", "WAITING", "PREFLIGHT", "INSTALLING"} \cup ItemEnded]]
  /\ installFaults <= MaxInstallFaults

\* A row that may be retried without proof stands for an installer that never ran
\* and never will: whoever gave it up, the script it might have sent was not sent.
SafeMeansNotRun ==
  \A r \in Row, t \in Target :
    job[r][t].status \in {"FAILED", "INTERRUPTED"} /\ JobIsRetrySafe(job[r][t])
      => script[r][t] \in {"none", "refused"}
\* An install that is reported complete is the enrollment of that computer with the
\* token of that row, and an item is complete only with its row.
CompletedIsManaged ==
  \A r \in Row, t \in Target :
    /\ job[r][t].status = "COMPLETED" => managed[t] = r /\ token[r][t] = "completed"
    /\ r \in Batch /\ item[r][t] = "COMPLETED" => job[r][t].status = "COMPLETED"
\* A batch that ended left no item open, and calls itself complete only when each is.
BatchTellsItems ==
  \A b \in Batch : batch[b].status \in BatchEnded =>
    /\ \A t \in Target : item[b][t] \in ItemEnded \cup {"none"}
    /\ batch[b].status = "COMPLETED" => \A t \in Target : item[b][t] \in {"COMPLETED", "none"}
\* No process leaves a token that can still enroll a computer.
TokensAreSpent ==
  \A r \in Row, t \in Target : install[r][t] = "over" => token[r][t] \notin Usable

\* The four facts a technician relies on when an installation is reported.
InstallIsHonest == SafeMeansNotRun /\ CompletedIsManaged /\ BatchTellsItems /\ TokensAreSpent

\* A batch that runs ends, whatever happens to the processes it starts: only its own
\* process, dead, can hold it up.
BatchOpen(b) == batch[b].status = "RUNNING" /\ batch[b].runner # "dead"
BatchEnds == \A b \in Batch : []<>~BatchOpen(b)
=============================================================================
