-------------------------- MODULE UpdateTransaction -------------------------
(***************************************************************************)
(* How the agent replaces itself: a runner outside the service downloads,  *)
(* backs up, replaces and, if the new version does not confirm itself,     *)
(* restores; the service it restarts confirms (or refuses) the version it  *)
(* finds itself running.  The two share one persisted state, and either    *)
(* may die between any two writes.                                         *)
(*                                                                         *)
(* One step is what lies between two persisted stages.  The launch lock,   *)
(* the lifetime lock and the state lock admit one runner at a time, so     *)
(* there is one runner here.  The eight stages before the backup, in which *)
(* nothing but the staging directory changes, are one.                     *)
(***************************************************************************)
EXTENDS Naturals

CONSTANTS
  NewestVersion,  \* the versions an update can ask for are 1 .. NewestVersion
  MaxUpdates,     \* bound: how many updates are launched
  MaxUpdFaults    \* bound: how often the runner, the service or the machine dies

UpdateAssumption ==
  NewestVersion \in Nat \ {0} /\ MaxUpdates \in Nat /\ MaxUpdFaults \in Nat

VARIABLES
  upd,        \* update state file: id, stage, from, target, rollback attempt
  runner,     \* where the runner is, "none" when there is no such process
  files,      \* the version of the installed files, or Mixed
  local,      \* agent.version.json, the version the installation claims
  backup,     \* the backup of this update: nothing, incomplete or complete
  svc,        \* the service: whether it is up and the version it runs
  hs,         \* the service's confirmation: where it is, what it has read
  reports,    \* results written for the update's job, by update
  base,       \* history: what was installed when this update began
  interrupted,\* history: the runner was lost since it was last launched
  updFaults

updVars == <<upd, runner, files, local, backup, svc, hs, reports, base, interrupted,
             updFaults>>

Mixed == 0
Version == 1 .. NewestVersion
Content == Version \cup {Mixed}

Applying == {"creating_backup", "backup_created", "stopping_service", "quiescing"}
Replacing == {"replacing_files", "files_replaced"}
Confirming == {"starting_service", "waiting_health_check", "rollback_waiting_health_check"}
Restoring == {"rollback_required", "rollback_starting", "rollback_stopping_service",
              "rollback_restoring_files", "rollback_starting_service"}
Terminal == {"completed", "rolled_back", "failed", "rollback_failed"}
Stage == {"received", "staged"} \cup Applying \cup Replacing \cup Confirming
           \cup Restoring \cup Terminal

UpdActive == upd.stage \notin Terminal
NoBackup == [state |-> "none", files |-> Mixed, local |-> 1]

\* A service that starts runs the installed executable: any of those that
\* were mixed while files are replaced.
Begins(s) == s \in [up : {TRUE}, exe : IF files = Mixed THEN Version ELSE {files}]
Down == [up |-> FALSE, exe |-> svc.exe]
Idle == [pc |-> "idle", id |-> 0, rollback |-> FALSE, verdict |-> "failed"]

\* The agent reads the state as soon as it starts.
StartService == Begins(svc') /\ hs' = [Idle EXCEPT !.pc = "read"]
StopService == svc' = Down /\ hs' = Idle

-----------------------------------------------------------------------------
(* Saving: a terminal state of the same update is never replaced; a runner *)
(* that is refused stops.                                                  *)

Saved(stage) == IF UpdActive THEN [upd EXCEPT !.stage = stage] ELSE upd
Persist(stage, next) ==
  /\ upd' = Saved(stage)
  /\ runner' = IF UpdActive THEN next ELSE "none"

Report(status) == reports' = reports \cup {[id |-> upd.id, status |-> status]}

UpdInit ==
  /\ upd = [id |-> 0, stage |-> "failed", from |-> 1, target |-> 1, attempt |-> 0]
  /\ runner = "none" /\ files = 1 /\ local = 1 /\ backup = NoBackup
  /\ svc = [up |-> TRUE, exe |-> 1] /\ hs = Idle
  /\ reports = {} /\ base = 1 /\ interrupted = FALSE /\ updFaults = 0

-----------------------------------------------------------------------------
(* Launch: a new update when none is active, or the same one again.        *)

Launch ==
  /\ ~UpdActive /\ runner = "none" /\ upd.id < MaxUpdates
  /\ \E v \in Version :
       upd' = [id |-> upd.id + 1, stage |-> "received", from |-> local,
               target |-> v, attempt |-> 0]
  /\ runner' = "fetch" /\ backup' = NoBackup /\ base' = files /\ interrupted' = FALSE
  /\ UNCHANGED <<files, local, svc, hs, reports, updFaults>>

\* ClassifyRecovery and DispatchRecovery.
ResumesAt ==
  IF upd.stage \in {"received", "staged"} THEN "fetch"
  ELSE IF upd.stage = "creating_backup" THEN "backup"
  ELSE IF upd.stage \in Applying THEN "recheck"
  ELSE IF upd.stage \in Confirming THEN "confirm"
  ELSE "rb_begin"

\* Mutant: an interrupted replacement is resumed as it was left.
ResumeAsIs ==
  /\ UpdActive /\ runner = "none"
  /\ runner' = ResumesAt /\ interrupted' = FALSE
  /\ UNCHANGED <<upd, files, local, backup, svc, hs, reports, base, updFaults>>
Resume ==
  /\ UpdActive /\ runner = "none"
  /\ runner' = ResumesAt /\ interrupted' = FALSE
  /\ upd' = IF upd.stage \in Replacing THEN Saved("rollback_required") ELSE upd
  /\ UNCHANGED <<files, local, backup, svc, hs, reports, base, updFaults>>

\* Resolve, download, verify and stage: nothing is installed yet.  A version
\* that is installed already is only verified; an older one is refused.
Fetch ==
  /\ runner = "fetch"
  /\ \/ /\ Persist("failed", "none")
        /\ UNCHANGED reports \/ Report("failed")
     \/ upd.target = local /\ files = local /\ Persist("completed", "none") /\ Report("completed")
     \/ upd.target > local /\ Persist("staged", "backup") /\ UNCHANGED reports
  /\ UNCHANGED <<files, local, backup, svc, hs, base, interrupted, updFaults>>

\* The checksums cannot be had, or the package has no updater: the exception
\* leaves the update active without a runner.
FetchThrows ==
  /\ runner = "fetch" /\ runner' = "none" /\ interrupted' = TRUE
  /\ UNCHANGED <<upd, files, local, backup, svc, hs, reports, base, updFaults>>

-----------------------------------------------------------------------------
(* PrepareReplacement and ApplyStagedUpdate.                               *)

BackUp ==
  /\ runner = "backup"
  /\ Persist("creating_backup", "backing_up")
  /\ backup' = [NoBackup EXCEPT !.state = "partial"]
  /\ UNCHANGED <<files, local, svc, hs, reports, base, interrupted, updFaults>>

BackedUp ==
  /\ runner = "backing_up"
  /\ Persist("backup_created", "stop")
  /\ backup' = [state |-> "valid", files |-> files, local |-> local]
  /\ UNCHANGED <<files, local, svc, hs, reports, base, interrupted, updFaults>>

\* A backup that exists is validated again; installed and staged versions
\* must still be those of the interrupted update.
Recheck ==
  /\ runner = "recheck" /\ local = upd.from /\ backup.state = "valid"
  /\ Persist("backup_created", "stop")
  /\ UNCHANGED <<files, local, backup, svc, hs, reports, base, interrupted, updFaults>>

Stop ==
  /\ runner = "stop"
  /\ Persist("stopping_service", "stopping")
  /\ UNCHANGED <<files, local, backup, svc, hs, reports, base, interrupted, updFaults>>

Stopped ==
  /\ runner = "stopping"
  /\ StopService
  /\ Persist("quiescing", "quiesce")
  /\ UNCHANGED <<files, local, backup, reports, base, interrupted, updFaults>>

\* FailPreReplacement and the failed backup: the service is started if it can
\* be, and no result is written.
FailBeforeReplacement ==
  /\ runner \in {"backing_up", "recheck", "stopping", "quiesce"}
  /\ Persist("failed", "none")
  /\ \/ ~svc.up /\ StartService
     \/ UNCHANGED <<svc, hs>>
  /\ UNCHANGED <<files, local, backup, reports, base, interrupted, updFaults>>

Replace ==
  /\ runner = "quiesce"
  /\ Persist("replacing_files", "copying")
  /\ files' = Mixed
  /\ UNCHANGED <<local, backup, svc, hs, reports, base, interrupted, updFaults>>

Replaced ==
  /\ runner = "copying"
  /\ files' = upd.target
  /\ Persist("files_replaced", "version")
  /\ UNCHANGED <<local, backup, svc, hs, reports, base, interrupted, updFaults>>

WriteVersion ==
  /\ runner = "version"
  /\ local' = upd.target
  /\ Persist("starting_service", "validate")
  /\ UNCHANGED <<files, backup, svc, hs, reports, base, interrupted, updFaults>>

Validated ==
  /\ runner = "validate"
  /\ Persist("waiting_health_check", "start")
  /\ UNCHANGED <<files, local, backup, svc, hs, reports, base, interrupted, updFaults>>

StartNew ==
  /\ runner = "start"
  /\ StartService
  /\ runner' = "wait"
  /\ UNCHANGED <<upd, files, local, backup, reports, base, interrupted, updFaults>>

\* Mutant: the wait for the agent has no end.
NeedRollbackUnlessSilent ==
  /\ runner \in {"copying", "version", "validate", "start"}
  /\ Persist("rollback_required", "rb_begin")
  /\ UNCHANGED <<files, local, backup, svc, hs, reports, base, interrupted, updFaults>>
\* Copying, validating or starting fails; or the wait ends without the
\* agent's word: refused, service gone, or too late.
NeedRollback ==
  /\ runner \in {"copying", "version", "validate", "start", "wait"}
  /\ Persist("rollback_required", "rb_begin")
  /\ UNCHANGED <<files, local, backup, svc, hs, reports, base, interrupted, updFaults>>

Confirmed ==
  /\ \/ runner = "wait" /\ upd.stage = "completed"
     \/ runner \in {"rb_wait", "rb_rewait"} /\ upd.stage = "rolled_back"
  /\ runner' = "none"
  /\ UNCHANGED <<upd, files, local, backup, svc, hs, reports, base, interrupted, updFaults>>

-----------------------------------------------------------------------------
(* ResumeInterruptedHealthCheck.                                           *)

Undoing == upd.stage = "rollback_waiting_health_check"
Expected == IF Undoing THEN upd.from ELSE upd.target

ResumeWait ==
  /\ runner = "confirm" /\ UpdActive /\ local = Expected
  /\ upd' = IF Undoing THEN upd ELSE Saved("waiting_health_check")
  /\ runner' = IF Undoing THEN "rb_rewait" ELSE "wait"
  /\ IF svc.up THEN UNCHANGED <<svc, hs>> ELSE StartService
  /\ UNCHANGED <<files, local, backup, reports, base, interrupted, updFaults>>

\* The claimed version is another one, or the service does not start.
ResumeFails ==
  /\ runner = "confirm"
  /\ ~UpdActive \/ local # Expected \/ ~svc.up
  /\ \/ Undoing /\ Persist("rollback_failed", "none") /\ Report("failed")
     \/ ~Undoing /\ Persist("rollback_required", "rb_begin") /\ UNCHANGED reports
  /\ UNCHANGED <<files, local, backup, svc, hs, base, interrupted, updFaults>>

\* The resumed wait reports what is persisted.
ResumedWaitEnds ==
  /\ runner = "rb_rewait"
  /\ Persist("rollback_failed", "none")
  /\ IF UpdActive THEN Report("failed") ELSE UNCHANGED reports
  /\ UNCHANGED <<files, local, backup, svc, hs, base, interrupted, updFaults>>

-----------------------------------------------------------------------------
(* ExecuteAutomaticRollbackCore.                                           *)

\* TryBeginRollback.
MayRestore == \/ upd.stage = "rollback_required" /\ upd.attempt = 0
              \/ upd.stage \in Restoring \ {"rollback_required"} /\ upd.attempt = 1

BeginRollback ==
  /\ runner = "rb_begin"
  /\ IF MayRestore
     THEN /\ upd' = [upd EXCEPT !.stage = "rollback_starting", !.attempt = 1]
          /\ runner' = "rb_stop" /\ UNCHANGED reports
     ELSE /\ upd' = IF upd.attempt = 1 THEN Saved("rollback_failed") ELSE upd
          /\ runner' = "none"
          /\ IF UpdActive THEN Report("failed") ELSE UNCHANGED reports
  /\ UNCHANGED <<files, local, backup, svc, hs, base, interrupted, updFaults>>

StopToRestore ==
  /\ runner = "rb_stop"
  /\ Persist("rollback_restoring_files", "rb_check")
  /\ StopService
  /\ UNCHANGED <<files, local, backup, reports, base, interrupted, updFaults>>

\* The backup is validated before the managed files are deleted.
BeginRestore ==
  /\ runner = "rb_check" /\ backup.state = "valid"
  /\ files' = Mixed
  /\ runner' = "rb_copy"
  /\ UNCHANGED <<upd, local, backup, svc, hs, reports, base, interrupted, updFaults>>

Restored ==
  /\ runner = "rb_copy"
  /\ files' = backup.files /\ local' = backup.local
  /\ Persist("rollback_starting_service", "rb_start")
  /\ UNCHANGED <<backup, svc, hs, reports, base, interrupted, updFaults>>

AwaitRestored ==
  /\ runner = "rb_start"
  /\ Persist("rollback_waiting_health_check", "rb_starting")
  /\ UNCHANGED <<files, local, backup, svc, hs, reports, base, interrupted, updFaults>>

StartRestored ==
  /\ runner = "rb_starting"
  /\ StartService
  /\ runner' = "rb_wait"
  /\ UNCHANGED <<upd, files, local, backup, reports, base, interrupted, updFaults>>

\* The wait ends without the agent's word.
RestoredWaitEnds ==
  /\ runner = "rb_wait" /\ upd.stage # "rolled_back"
  /\ runner' = "rb_lost"
  /\ UNCHANGED <<upd, files, local, backup, svc, hs, reports, base, interrupted, updFaults>>

\* The failure is reported whether or not the store took it.
LoseRollback ==
  /\ runner \in {"rb_stop", "rb_check", "rb_copy", "rb_starting", "rb_lost"}
  /\ Persist("rollback_failed", "none") /\ runner' = "none"
  /\ Report("failed")
  /\ UNCHANGED <<files, local, backup, svc, hs, base, interrupted, updFaults>>

-----------------------------------------------------------------------------
(* The service: UpdateHealthCheckHandshake and ConfirmPendingUpdateAsync.  *)

HsRead ==
  /\ hs.pc = "read" /\ svc.up
  /\ hs' = IF upd.stage \in Confirming
           THEN [pc |-> IF upd.stage = "starting_service" THEN "await" ELSE "confirm",
                 id |-> upd.id, rollback |-> Undoing, verdict |-> "failed"]
           ELSE Idle
  /\ UNCHANGED <<upd, runner, files, local, backup, svc, reports, base, interrupted, updFaults>>

HsAwait ==
  /\ hs.pc = "await" /\ (upd.stage # "starting_service" \/ upd.id # hs.id)
  /\ hs' = IF upd.stage = "waiting_health_check" /\ upd.id = hs.id
           THEN [hs EXCEPT !.pc = "confirm"] ELSE Idle
  /\ UNCHANGED <<upd, runner, files, local, backup, svc, reports, base, interrupted, updFaults>>

CanConfirm ==
  /\ upd.id = hs.id
  /\ upd.stage = IF hs.rollback THEN "rollback_waiting_health_check" ELSE "waiting_health_check"

\* The verdict and its report are two writes.  A missing machine id fails the
\* update where it stands.
HsConfirm ==
  /\ hs.pc = "confirm"
  /\ \E verdict \in {"right", "wrong", "no_machine_id"} :
       /\ (verdict = "wrong") <=> (svc.exe # IF hs.rollback THEN upd.from ELSE upd.target)
       /\ upd' = IF ~CanConfirm THEN upd
                 ELSE Saved(IF verdict = "no_machine_id" THEN "failed"
                            ELSE IF hs.rollback
                                 THEN IF verdict = "right" THEN "rolled_back" ELSE "rollback_failed"
                                 ELSE IF verdict = "right" THEN "completed" ELSE "rollback_required")
  /\ hs' = IF CanConfirm /\ upd'.stage \in Terminal
           THEN [hs EXCEPT !.pc = "report",
                           !.verdict = IF upd'.stage \in {"completed", "rolled_back"} THEN upd'.stage ELSE "failed"]
           ELSE Idle
  /\ UNCHANGED <<runner, files, local, backup, svc, reports, base, interrupted, updFaults>>

HsReport ==
  /\ hs.pc = "report"
  /\ reports' = reports \cup {[id |-> hs.id, status |-> hs.verdict]}
  /\ hs' = Idle
  /\ UNCHANGED <<upd, runner, files, local, backup, svc, base, interrupted, updFaults>>

-----------------------------------------------------------------------------
(* Deaths.  The service manager restarts a machine's service at boot, with *)
(* whatever is installed then; nothing but a new launch revives a runner.  *)

RunnerDies ==
  /\ runner # "none" /\ runner' = "none" /\ interrupted' = TRUE
  /\ UNCHANGED <<svc, hs>>

ServiceDies ==
  /\ svc.up
  /\ StopService \/ StartService
  /\ UNCHANGED <<runner, interrupted>>

Reboot ==
  /\ runner' = "none" /\ interrupted' = (interrupted \/ runner # "none")
  /\ StartService

UpdFault ==
  /\ updFaults < MaxUpdFaults /\ updFaults' = updFaults + 1
  /\ RunnerDies \/ ServiceDies \/ Reboot
  /\ UNCHANGED <<upd, files, local, backup, reports, base>>

RunnerStep ==
  \/ Fetch \/ FetchThrows \/ BackUp \/ BackedUp \/ Recheck \/ Stop \/ Stopped
  \/ FailBeforeReplacement \/ Replace \/ Replaced \/ WriteVersion \/ Validated
  \/ StartNew \/ NeedRollback \/ Confirmed \/ ResumeWait \/ ResumeFails
  \/ ResumedWaitEnds \/ BeginRollback \/ StopToRestore \/ BeginRestore
  \/ Restored \/ AwaitRestored \/ StartRestored \/ RestoredWaitEnds \/ LoseRollback

ServiceStep == HsRead \/ HsAwait \/ HsConfirm \/ HsReport

UpdNext == Launch \/ Resume \/ RunnerStep \/ ServiceStep \/ UpdFault

\* A runner that is not killed goes on: its waits are bounded.
UpdFairness == WF_updVars(RunnerStep)
UpdSpec == UpdInit /\ [][UpdNext]_updVars /\ UpdFairness

-----------------------------------------------------------------------------
(* Properties.                                                             *)

RunnerPC == {"none", "fetch", "backup", "backing_up", "recheck", "stop", "stopping",
  "quiesce", "copying", "version", "validate", "start", "wait", "confirm", "rb_begin",
  "rb_stop", "rb_check", "rb_copy", "rb_start", "rb_starting", "rb_wait", "rb_rewait",
  "rb_lost"}

\* Every variable has its type.
UpdTypeOK ==
  /\ upd \in [id : 0 .. MaxUpdates, stage : Stage, from : Version, target : Version, attempt : {0, 1}]
  /\ runner \in RunnerPC /\ files \in Content /\ local \in Version
  /\ backup \in [state : {"none", "partial", "valid"}, files : Content, local : Version]
  /\ svc \in [up : BOOLEAN, exe : Version]
  /\ hs \in [pc : {"idle", "read", "await", "confirm", "report"}, id : 0 .. MaxUpdates, rollback : BOOLEAN,
             verdict : {"completed", "rolled_back", "failed"}]
  /\ reports \subseteq [id : 1 .. MaxUpdates, status : {"completed", "rolled_back", "failed"}]
  /\ base \in Content /\ interrupted \in BOOLEAN /\ updFaults \in 0 .. MaxUpdFaults

\* An update that ends completed has installed its target and says so; one
\* that is rolled back, or failed before it was confirmed, has left what was
\* installed before or all of the target.
EndsWhole ==
  /\ upd.stage = "completed" => files = upd.target /\ local = upd.target
  /\ upd.stage = "rolled_back" => files = base /\ local = upd.from
  /\ upd.stage = "failed" => files \in {base, upd.target}

\* Whenever installed files are touched, a complete backup of what was there
\* exists and the stage is one from which a relaunched runner restores it.
MixedIsRecoverable ==
  (files # base /\ UpdActive) =>
    /\ backup = [state |-> "valid", files |-> base, local |-> upd.from]
    /\ upd.stage \in Replacing \cup Confirming \cup Restoring

UpdateIsSafe == EndsWhole /\ MixedIsRecoverable

\* A success or a confirmed rollback is reported only of an update that ended
\* so; the only contradictory result there may be is a lost rollback beside a
\* confirmed one.
ReportsAreTrue ==
  \A r \in reports : r.id = upd.id =>
    /\ r.status \in {"completed", "rolled_back"} => upd.stage = r.status
    /\ r.status = "failed" => upd.stage \in {"failed", "rollback_failed", "rolled_back"}

\* An update whose runner is not lost ends.
UpdateOpen == UpdActive /\ ~interrupted
UpdateEnds == []<>~UpdateOpen
=============================================================================
