------------------------------- MODULE Removal -------------------------------
(***************************************************************************)
(* How the agent is removed from a computer: an operator orders it on the  *)
(* panel, where the order waits as a job until the agent pulls it, or at   *)
(* the tray, where it is authorized with a token.  The uninstaller works   *)
(* in a process of its own, while the agent it removes, operators and      *)
(* maintenance commands change the rows it will report to; afterwards the  *)
(* agent may be installed anew.                                            *)
(***************************************************************************)
EXTENDS Integers

CONSTANTS
  MaxOrders,           \* bound on orders
  Operator, Purger,    \* who may order removals, and who may order that everything is deleted
  Editor,              \* requests that write rows they read without a lock
  OtherJob,            \* "update" (or repair), "settings" (or restart), "keys" (that are trusted)
  MaxIncidents         \* bound on failures, deaths, lost calls, restarts, silences, unlocked requests, installations

RemovalAssumption ==
  /\ MaxOrders \in Nat \ {0} /\ Operator # {} /\ Purger \subseteq Operator
  /\ OtherJob \subseteq {"update", "settings", "keys"} /\ MaxIncidents \in Nat

Order == 1 .. MaxOrders
Active == {"waiting_for_agent", "dispatched", "running"}
Ended == {"completed", "failed", "expired", "cancelled"}
JobOpen == {"queued", "sent", "running"}
JobOver == {"completed", "failed", "cancelled", "expired", "timed_out"}
Terminal == {"uninstalled", "purged"}
AtWork == {"started", "authorized", "stopped", "removed", "reporting", "failing"}
NoOrder == [status |-> "none", source |-> "panel", mode |-> "uninstall", by |-> CHOOSE u \in Operator : TRUE]
NoEdit == [kind |-> "none", order |-> 1]

VARIABLES
  order,         \* AgentUninstallRequest
  removal,       \* status of each order's AgentJob
  lapsed,        \* orders whose expires_at has passed
  authorization, \* AgentLocalUninstallAuthorization of an order made at the tray
  receipt,       \* the result the uninstaller's key stands for
  reported,      \* whether the agent has told that the uninstaller runs
  others,        \* other lifecycle jobs of the endpoint that are open
  edit,          \* what an unlocked request has read
  lifecycle, status, fresh, \* of AgentMachine; fresh: last_seen_at is recent
  sweep,         \* the status mark_offline_agents has found for the endpoint
  disk,          \* the agent on the computer: "whole", "stopped", "removed" or "purged"
  delivered,     \* history: orders that the agent was given
  runner,        \* where each order's uninstaller is
  did,           \* history: what each uninstaller deleted
  installing,    \* completions on their way: of the installation there is ("present"), of one removed since ("removed")
  incidents

rows == <<order, removal, lapsed, authorization, receipt, reported, others>>
machine == <<lifecycle, status>>
computer == <<disk, delivered, runner, did, installing>>
removalVars == <<rows, edit, machine, fresh, sweep, computer, incidents>>

RemovalInit ==
  /\ order = [o \in Order |-> NoOrder] /\ removal = [o \in Order |-> "none"] /\ lapsed = {}
  /\ authorization = [o \in Order |-> "none"] /\ receipt = [o \in Order |-> "none"]
  /\ reported = {} /\ others = {} /\ edit = [e \in Editor |-> NoEdit]
  /\ lifecycle \in {"unknown", "installed"} /\ status = "online" /\ fresh = TRUE /\ sweep = "none"
  /\ disk = "whole" /\ delivered = {} /\ runner = [o \in Order |-> "none"] /\ did = [o \in Order |-> "nothing"]
  /\ installing = {} /\ incidents = 0

Incident == incidents < MaxIncidents /\ incidents' = incidents + 1

---------------------------------------------------------------------------
\* Orders.  Who creates a lifecycle job locks the endpoint first, so that checks and creation are one step.

\* Mutant: an order the agent was given does not count.
ActiveUntilDispatch == {o \in Order : order[o].status \in Active \ {"dispatched"}}
ActiveOrders == {o \in Order : order[o].status \in Active}
OpenRemovals == {o \in Order : removal[o] \in JobOpen}
MayRemove(u, mode) == mode = "purge" => u \in Purger
Create(o, source, mode, u, s, j) ==
  /\ removal[o] = "none" /\ \A p \in 1 .. o - 1 : removal[p] # "none"
  /\ OpenRemovals = {}
  /\ order' = [order EXCEPT ![o] = [status |-> s, source |-> source, mode |-> mode, by |-> u]]
  /\ removal' = [removal EXCEPT ![o] = j]

\* endpoint_uninstall_request: jobs that change settings or restart the agent do not stand in its way.
OrderOnPanel(o, mode, u) ==
  /\ MayRemove(u, mode) /\ ActiveOrders = {} /\ others \cap {"update", "keys"} = {}
  /\ Create(o, "panel", mode, u, "waiting_for_agent", "queued")
  /\ UNCHANGED <<lapsed, authorization, receipt, reported, others, edit, machine, fresh, sweep, computer, incidents>>
\* AgentSelfUninstallAuthorizeView: the tray's order runs at once, for five minutes.
AuthorizeAtTray(o, u) ==
  /\ disk = "whole" /\ ActiveOrders = {} /\ others \cap {"update", "settings"} = {}
  /\ Create(o, "tray", "uninstall", u, "running", "running")
  /\ authorization' = [authorization EXCEPT ![o] = "active"]
  /\ UNCHANGED <<lapsed, receipt, reported, others, edit, machine, fresh, sweep, computer, incidents>>
\* endpoint_job_create of technicians: a job may remove the agent without an order; open orders are not looked at,
\* only jobs, and jobs that bring keys only wait for each other.
OrderAsJob(o, u) ==
  /\ others \cap {"update", "settings"} = {}
  /\ Create(o, "form", "uninstall", u, "absent", "queued")
  /\ UNCHANGED <<lapsed, authorization, receipt, reported, others, edit, machine, fresh, sweep, computer, incidents>>
CreateOther(k) ==
  /\ k \notin others
  /\ k # "keys" => others \cap {"update", "settings"} = {} /\ OpenRemovals = {}
  /\ others' = others \cup {k}
  /\ UNCHANGED <<order, removal, lapsed, authorization, receipt, reported, edit, machine, fresh, sweep, computer, incidents>>
EndOther(k) ==
  /\ k \in others /\ others' = others \ {k}
  /\ UNCHANGED <<order, removal, lapsed, authorization, receipt, reported, edit, machine, fresh, sweep, computer, incidents>>
\* The clock, as long as somebody still looks at the order's expiry.
Lapse(o) ==
  /\ removal[o] \in {"queued", "sent"} \/ authorization[o] = "active"
  /\ lapsed' = lapsed \cup {o}
  /\ UNCHANGED <<order, removal, authorization, receipt, reported, others, edit, machine, fresh, sweep, computer, incidents>>

---------------------------------------------------------------------------
\* The agent, which is there while disk is "whole".

\* AgentJobsPullView: also again, while the start is not confirmed.
Pull(o) ==
  /\ disk = "whole" /\ removal[o] \in {"queued", "sent"} /\ o \notin lapsed
  /\ removal' = [removal EXCEPT ![o] = "sent"]
  /\ order' = [order EXCEPT ![o].status = IF @ = "waiting_for_agent" THEN "dispatched" ELSE @]
  /\ \/ delivered' = delivered \cup {o} /\ UNCHANGED incidents
     \/ UNCHANGED delivered /\ Incident
  /\ UNCHANGED <<lapsed, authorization, receipt, reported, others, edit, machine, fresh, sweep,
                 disk, runner, did, installing>>
\* AgentJobStartedView, then StartUninstallAgentAsync.
StartRunner(o) ==
  /\ disk = "whole" /\ o \in delivered /\ runner[o] = "none"
  /\ removal[o] = "running" \/ (removal[o] = "sent" /\ o \notin lapsed)
  /\ removal' = [removal EXCEPT ![o] = "running"] /\ runner' = [runner EXCEPT ![o] = "started"]
  /\ UNCHANGED <<order, lapsed, authorization, receipt, reported, others, edit, machine, fresh, sweep,
                 disk, delivered, did, installing, incidents>>
\* The tray starts the uninstaller if the user lets it, which nothing forces.
StartAtTray(o) ==
  /\ disk = "whole" /\ authorization[o] # "none" /\ runner[o] = "none"
  /\ runner' = [runner EXCEPT ![o] = "started"]
  /\ UNCHANGED <<rows, edit, machine, fresh, sweep, disk, delivered, did, installing, incidents>>

\* AgentJobsResultView of a job that is still open: the order ends with it, the endpoint's lifecycle with a success.
Accept(o, outcome) ==
  /\ removal' = [removal EXCEPT ![o] = outcome]
  /\ order' = [order EXCEPT ![o].status =
                 IF @ = "absent" THEN @ ELSE IF outcome = "completed" THEN "completed" ELSE "failed"]
  /\ IF outcome = "completed"
     THEN /\ lifecycle' = IF order[o].mode = "purge" THEN "purged" ELSE "uninstalled"
          /\ status' = "uninstalled"
     ELSE UNCHANGED machine
TakeResult(o, outcome) ==
  IF removal[o] \in JobOpen THEN Accept(o, outcome) ELSE UNCHANGED <<order, removal, machine>>
ReportRunning(o) ==
  /\ disk = "whole" /\ o \in delivered /\ runner[o] # "none" /\ removal[o] \in JobOpen
  /\ reported' = reported \cup {o} /\ removal' = [removal EXCEPT ![o] = "running"]
  /\ UNCHANGED <<order, lapsed, authorization, receipt, others, edit, machine, fresh, sweep, computer, incidents>>
\* An agent that cannot start the uninstaller, or that was restarted and finds the job running, reports a failure.
ReportFailure(o) ==
  /\ disk = "whole" /\ o \in delivered /\ Incident
  /\ TakeResult(o, "failed")
  /\ runner' = [runner EXCEPT ![o] = IF @ = "none" THEN "done" ELSE @]
  /\ UNCHANGED <<lapsed, authorization, receipt, reported, others, edit, fresh, sweep,
                 disk, delivered, did, installing>>
Heartbeat ==
  /\ disk = "whole" /\ fresh' = TRUE
  /\ UNCHANGED <<rows, edit, machine, sweep, computer, incidents>>

---------------------------------------------------------------------------
\* The uninstaller.

Move(o, from, to) == runner[o] = from /\ runner' = [runner EXCEPT ![o] = to]
\* AgentSelfUninstallConsumeView: whoever gets no answer may not go on.
ConsumeAuthorization(o) ==
  /\ IF order[o].source # "tray" THEN Move(o, "started", "authorized") /\ UNCHANGED <<authorization, incidents>>
     ELSE \/ /\ authorization[o] = "active" /\ o \notin lapsed
             /\ authorization' = [authorization EXCEPT ![o] = "consumed"]
             /\ \/ Move(o, "started", "authorized") /\ UNCHANGED incidents
                \/ Move(o, "started", "failing") /\ Incident
          \/ /\ authorization[o] # "active" \/ o \in lapsed
             /\ authorization' = [authorization EXCEPT ![o] = IF @ = "active" THEN "expired" ELSE @]
             /\ Move(o, "started", "failing") /\ UNCHANGED incidents
  /\ UNCHANGED <<order, removal, lapsed, receipt, reported, others, edit, machine, fresh, sweep,
                 disk, delivered, did, installing>>
StopAgent(o) ==
  /\ Move(o, "authorized", "stopped") /\ disk' = IF disk = "whole" THEN "stopped" ELSE disk
  /\ UNCHANGED <<rows, edit, machine, fresh, sweep, delivered, did, installing, incidents>>
RemoveBinaries(o) ==
  /\ Move(o, "stopped", "removed") /\ disk' = IF disk = "purged" THEN disk ELSE "removed"
  /\ did' = [did EXCEPT ![o] = "binaries"] /\ installing' = IF installing = {} THEN {} ELSE {"removed"}
  /\ UNCHANGED <<rows, edit, machine, fresh, sweep, delivered, incidents>>
\* A purge deletes the configuration and the identity, too; otherwise the state says uninstalled.
FinishRemoval(o) ==
  /\ Move(o, "removed", "reporting")
  /\ IF order[o].mode = "purge" THEN disk' = "purged" /\ did' = [did EXCEPT ![o] = "all"] ELSE UNCHANGED <<disk, did>>
  /\ UNCHANGED <<rows, edit, machine, fresh, sweep, delivered, installing, incidents>>
RunnerFails(o) ==
  /\ runner[o] \in {"authorized", "stopped", "removed"} /\ Incident
  /\ runner' = [runner EXCEPT ![o] = "failing"]
  /\ UNCHANGED <<rows, edit, machine, fresh, sweep, disk, delivered, did, installing>>
RunnerDies(o) ==
  /\ runner[o] \in AtWork /\ Incident /\ runner' = [runner EXCEPT ![o] = "done"]
  /\ UNCHANGED <<rows, edit, machine, fresh, sweep, disk, delivered, did, installing>>

\* Both reports have the same key: after the one the other is a conflict.
Receive(o, outcome) ==
  IF receipt[o] # "none" THEN UNCHANGED <<order, removal, machine, receipt>>
  ELSE receipt' = [receipt EXCEPT ![o] = outcome] /\ TakeResult(o, outcome)
\* A success whose answer is missing is reported again, as a failure.
ReportSuccess(o) ==
  /\ \/ Move(o, "reporting", "done") /\ Receive(o, "completed") /\ UNCHANGED incidents
     \/ Move(o, "reporting", "failing") /\ Incident
        /\ (Receive(o, "completed") \/ UNCHANGED <<order, removal, machine, receipt>>)
  /\ UNCHANGED <<lapsed, authorization, reported, others, edit, fresh, sweep, disk, delivered, did, installing>>
ReportRunnerFailure(o) ==
  /\ Move(o, "failing", "done")
  /\ \/ Receive(o, "failed") /\ UNCHANGED incidents
     \/ UNCHANGED <<order, removal, machine, receipt>> /\ Incident
  /\ UNCHANGED <<lapsed, authorization, reported, others, edit, fresh, sweep, disk, delivered, did, installing>>

---------------------------------------------------------------------------
\* Operators and commands.

\* What is read without a lock and may have changed when it is written.
ReadToEdit(e, kind, o) ==
  /\ Incident /\ edit[e] = NoEdit /\ removal[o] # "none"
  /\ \/ kind = "cancel" /\ order[o].status \notin {"absent", "cancelled"} /\ removal[o] = "queued"
     \/ kind = "fail" /\ removal[o] \notin JobOver \ {"expired"}
     \/ kind = "expire" /\ disk = "whole" /\ removal[o] = "queued" /\ o \in lapsed
  /\ edit' = [edit EXCEPT ![e] = [kind |-> kind, order |-> o]]
  /\ UNCHANGED <<rows, machine, fresh, sweep, computer>>
\* Mutant: the job of a cancelled order stays queued.
SaveEditOrderOnly(e) ==
  /\ edit[e].kind = "cancel" /\ edit' = [edit EXCEPT ![e] = NoEdit]
  /\ order' = [order EXCEPT ![edit[e].order].status = "cancelled"]
  /\ UNCHANGED <<removal, lapsed, authorization, receipt, reported, others, machine, fresh, sweep, computer, incidents>>
\* An order expires only if the job that does was not given to the agent meanwhile; nothing but its
\* cancellation writes an order when its job is closed from the panel.
SaveEdit(e) ==
  LET o == edit[e].order IN
    /\ edit[e] # NoEdit /\ edit' = [edit EXCEPT ![e] = NoEdit]
    /\ \/ /\ edit[e].kind = "cancel" /\ removal' = [removal EXCEPT ![o] = "cancelled"]
          /\ order' = [order EXCEPT ![o].status = "cancelled"]
       \/ /\ edit[e].kind = "fail" /\ removal' = [removal EXCEPT ![o] = "failed"] /\ UNCHANGED order
       \/ /\ edit[e].kind = "expire" /\ removal' = [removal EXCEPT ![o] = "expired"]
          /\ order' = [order EXCEPT ![o].status = IF @ = "waiting_for_agent" THEN "expired" ELSE @]
    /\ UNCHANGED <<lapsed, authorization, receipt, reported, others, machine, fresh, sweep, computer, incidents>>
\* reconcile_stale_agent_job: a report that is neither progress nor an end bars the timeout.
TimeOut(o) ==
  /\ removal[o] \in {"sent", "running"} /\ o \notin reported
  /\ removal' = [removal EXCEPT ![o] = "timed_out"]
  /\ UNCHANGED <<order, lapsed, authorization, receipt, reported, others, edit, machine, fresh, sweep, computer, incidents>>

\* mark_offline_agents reads all endpoints before it writes those whose status differs.
StatusFor == IF lifecycle \in Terminal THEN "uninstalled" ELSE IF fresh THEN "online" ELSE "offline"
SweepRead ==
  /\ sweep = "none" /\ status # StatusFor /\ sweep' = StatusFor
  /\ UNCHANGED <<rows, edit, machine, fresh, computer, incidents>>
SweepSave ==
  /\ sweep # "none" /\ status' = sweep /\ sweep' = "none"
  /\ UNCHANGED <<rows, edit, lifecycle, fresh, computer, incidents>>
GrowsStale ==
  /\ Incident /\ fresh' = FALSE /\ UNCHANGED <<rows, edit, machine, sweep, computer>>
\* reconcile_agent_lifecycle, of an agent from before lifecycles were recorded.
ReconcileLegacy ==
  /\ lifecycle = "unknown" /\ status = "online" /\ fresh /\ OpenRemovals = {} /\ "update" \notin others
  /\ lifecycle' = "installed"
  /\ UNCHANGED <<rows, edit, status, fresh, sweep, computer, incidents>>

\* An installation, once no uninstaller is at work, and the deployment that is confirmed by it.
InstallAnew ==
  /\ Incident /\ disk # "whole" /\ \A o \in Order : runner[o] \notin AtWork
  /\ disk' = "whole" /\ installing' = installing \cup {"present"}
  /\ UNCHANGED <<rows, edit, machine, fresh, sweep, delivered, runner, did>>
\* mark_machine_installed_from_deployment asks for a heartbeat since the installation, not for the lifecycle: a
\* completion that arrives late counts for an agent that has been removed meanwhile.
ConfirmInstall ==
  /\ \E i \in installing : installing' = installing \ {i}
  /\ lifecycle' = "installed" /\ status' \in {"online", "unknown"}
  /\ UNCHANGED <<rows, edit, fresh, sweep, disk, delivered, runner, did, incidents>>

---------------------------------------------------------------------------
RemovalNext ==
  \/ \E o \in Order, u \in Operator :
       AuthorizeAtTray(o, u) \/ OrderAsJob(o, u) \/ \E mode \in {"uninstall", "purge"} : OrderOnPanel(o, mode, u)
  \/ \E k \in OtherJob : CreateOther(k) \/ EndOther(k)
  \/ \E o \in Order :
       \/ Lapse(o) \/ Pull(o) \/ StartRunner(o) \/ StartAtTray(o) \/ ReportRunning(o) \/ ReportFailure(o)
       \/ ConsumeAuthorization(o) \/ StopAgent(o) \/ RemoveBinaries(o) \/ FinishRemoval(o)
       \/ RunnerFails(o) \/ RunnerDies(o) \/ ReportSuccess(o) \/ ReportRunnerFailure(o)
       \/ TimeOut(o)
       \/ \E e \in Editor, kind \in {"cancel", "fail", "expire"} : ReadToEdit(e, kind, o)
  \/ \E e \in Editor : SaveEdit(e)
  \/ Heartbeat \/ SweepRead \/ SweepSave \/ GrowsStale \/ ReconcileLegacy \/ InstallAnew \/ ConfirmInstall

\* mark_offline_agents is started again and again.
RemovalSpec ==
  RemovalInit /\ [][RemovalNext]_removalVars /\ WF_removalVars(SweepRead) /\ WF_removalVars(SweepSave)

---------------------------------------------------------------------------
RemovalTypeOK ==
  /\ order \in [Order -> [status : Active \cup Ended \cup {"none", "absent"}, source : {"panel", "tray", "form"},
                          mode : {"uninstall", "purge"}, by : Operator]]
  /\ removal \in [Order -> JobOpen \cup JobOver \cup {"none"}]
  /\ authorization \in [Order -> {"none", "active", "consumed", "expired"}]
  /\ receipt \in [Order -> {"none", "completed", "failed"}]
  /\ runner \in [Order -> AtWork \cup {"none", "done"}] /\ did \in [Order -> {"nothing", "binaries", "all"}]
  /\ lapsed \subseteq Order /\ reported \subseteq Order /\ delivered \subseteq Order /\ others \subseteq OtherJob
  /\ edit \in [Editor -> [kind : {"none", "cancel", "fail", "expire"}, order : Order]]
  /\ lifecycle \in Terminal \cup {"unknown", "installed"}
  /\ status \in {"online", "offline", "unknown", "uninstalled"} /\ fresh \in BOOLEAN
  /\ sweep \in {"none", "online", "offline", "uninstalled"}
  /\ disk \in {"whole", "stopped", "removed", "purged"} /\ installing \subseteq {"present", "removed"}
  /\ incidents \in 0 .. MaxIncidents

\* An endpoint is removed by one order at a time: no second order is active, no second job is open, and two
\* uninstallers only meet when the job of one of them was ended over its head, by an operator, by a command or by
\* the restart of the agent.
OneRemoval ==
  /\ \A o, p \in Order : order[o].status \in Active /\ order[p].status \in Active => o = p
  /\ \A o, p \in Order : removal[o] \in JobOpen /\ removal[p] \in JobOpen => o = p
  /\ \A o, p \in Order : o # p /\ runner[o] \in AtWork /\ runner[p] \in AtWork =>
       \E q \in {o, p} : removal[q] \in JobOver \ {"completed"}

\* No update or repair is open next to a job that removes the agent.  Jobs for trusted keys, and the panel's removals
\* next to jobs for settings, are let through.
RemovalExcludesUpdate == OpenRemovals # {} => "update" \notin others

\* What an uninstaller deletes was ordered: the agent was given the panel's order, the server took the tray's
\* token once, and nothing but the order of somebody who may purge deletes the configuration and the identity.
RemovalIsJustified ==
  \A o \in Order :
    /\ did[o] # "nothing" => IF order[o].source = "tray" THEN authorization[o] = "consumed" ELSE o \in delivered
    /\ did[o] = "all" => order[o].mode = "purge" /\ order[o].by \in Purger /\ order[o].source = "panel"
    /\ disk \in {"removed", "purged"} => \E p \in Order : did[p] # "nothing"

\* The server's record of a removal is true: an order or a job that is completed was carried out in its mode, and
\* an endpoint counts as uninstalled or purged only because of an order that did just that.
Did(o) == did[o] = IF order[o].mode = "purge" THEN "all" ELSE "binaries"
RecordIsTrue ==
  /\ \A o \in Order : order[o].status = "completed" \/ removal[o] = "completed" \/ receipt[o] = "completed" => Did(o)
  /\ lifecycle \in Terminal =>
       \E o \in Order : receipt[o] = "completed" /\ Did(o)
         /\ lifecycle = IF order[o].mode = "purge" THEN "purged" ELSE "uninstalled"

\* DEPLOY.md:958: an order that was cancelled or has expired before the agent was given it is never given to it
\* later, although cancellation and expiry write what they read without a lock.
NeverGivenLater ==
  [][\A o \in Order : removal[o] \in JobOver \/ order[o].status \in Ended =>
       o \in delivered \/ o \notin delivered']_removalVars

\* DEPLOY.md:953: nothing but a healthy installation makes a removed endpoint an installed one again, whatever
\* heartbeats, status sweeps and late results arrive: the agent is on the computer then, unless what arrives is the
\* late completion of an installation that was removed meanwhile.
OnlyInstallationRevives ==
  [][(lifecycle \in Terminal /\ lifecycle' \notin Terminal) =>
       disk \in {"whole", "stopped"} \/ "removed" \in installing \ installing']_removalVars

\* Whatever status a sweep that was overtaken by the removal has written, a later sweep takes it back.
StatusSettled == lifecycle \in Terminal => status = "uninstalled"
=============================================================================
