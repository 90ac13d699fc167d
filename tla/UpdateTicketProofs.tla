------------------------- MODULE UpdateTicketProofs -------------------------
(*****************************************************************************)
(* An update that ends leaves the installation whole, and while it is not   *)
(* whole a backup from which it can be restored exists; no release is       *)
(* offered against its state, its revocation or the operators' order: for   *)
(* any number of versions, updates, editors and deaths.                     *)
(*                                                                           *)
(* The first argument ties three things the code keeps apart: where the     *)
(* runner is, the stage that is persisted, and what is on disk. Where each  *)
(* stage may be found is StageAllows; a service confirms only in a stage    *)
(* at which the files are those it must confirm, so neither the service     *)
(* nor its deaths appear in the strengthening.                              *)
(*                                                                           *)
(* The second says of every row of a release, of every copy an editor       *)
(* holds of one and of what became of a decision what the code checked      *)
(* when it was written.                                                     *)
(*                                                                          *)
(* What the outbox says of its mail, and how a ticket's status, replies     *)
(* and notices fit together, proved for any number of rows, senders,        *)
(* requests, runs and attempts.                                             *)
(*                                                                           *)
(* Sending takes two transactions with the mail server between them, and    *)
(* neither cancelling nor re-queueing takes the row's lock; the             *)
(* strengthening says what remains true of a row that nobody had reason to  *)
(* doubt: at most one sender has it, and its status tells whether the mail  *)
(* server can have accepted it.                                             *)
(*                                                                           *)
(* Requests and mailbox runs save tickets from copies they read earlier,    *)
(* without a lock. What the properties say of the ticket is therefore kept  *)
(* of every copy as well, for the notices there are now: notices are never  *)
(* taken back, so a copy that was right stays right.                        *)
(*****************************************************************************)
EXTENDS MCComponents, TLAPS

(* The update transaction.                                                  *)

\* The stages of a runner at each place: between two of its own writes only
\* the service moves the stage, from waiting to confirmed or refused.
StageAllows ==
  /\ runner = "fetch" => upd.stage \in {"received", "staged"}
  /\ runner = "backup" => upd.stage \in {"staged", "creating_backup"}
  /\ runner = "backing_up" => upd.stage = "creating_backup"
  /\ runner = "recheck" => upd.stage \in Upd!Applying \ {"creating_backup"}
  /\ runner = "stop" => upd.stage = "backup_created"
  /\ runner = "stopping" => upd.stage = "stopping_service"
  /\ runner = "quiesce" => upd.stage = "quiescing"
  /\ runner = "copying" => upd.stage = "replacing_files"
  /\ runner = "version" => upd.stage = "files_replaced"
  /\ runner = "validate" => upd.stage = "starting_service"
  /\ runner \in {"start", "wait"} =>
       upd.stage \in {"waiting_health_check", "rollback_required", "completed", "failed"}
  /\ runner = "confirm" =>
       upd.stage \in Upd!Confirming \cup Upd!Terminal \cup {"rollback_required"}
  /\ runner = "rb_begin" => upd.stage \in Upd!Restoring
  /\ runner = "rb_stop" => upd.stage = "rollback_starting"
  /\ runner \in {"rb_check", "rb_copy"} => upd.stage = "rollback_restoring_files"
  /\ runner = "rb_start" => upd.stage = "rollback_starting_service"
  /\ runner \in {"rb_starting", "rb_wait", "rb_rewait", "rb_lost"} =>
       upd.stage \in {"rollback_waiting_health_check", "rolled_back", "rollback_failed",
                      "failed"}
  /\ upd.stage \in Upd!Restoring \ {"rollback_required"} => upd.attempt = 1

\* What is installed in each stage.
Before == files = base /\ local = upd.from
After == files = upd.target /\ local = upd.target
FilesMatch ==
  /\ upd.stage \in {"received", "staged"} \cup Upd!Applying => Before
  /\ upd.stage \in {"rollback_starting_service", "rollback_waiting_health_check",
                    "rolled_back"} => Before
  /\ upd.stage = "files_replaced" => files = upd.target
  /\ upd.stage \in {"starting_service", "waiting_health_check", "completed"} => After
  /\ runner = "confirm" /\ upd.stage = "rollback_required" => After
  /\ upd.stage = "failed" => files \in {base, upd.target}

\* The backup, once complete, is of what was installed.
Kept == backup = [state |-> "valid", files |-> base, local |-> upd.from]
BackupMatches ==
  /\ upd.stage \in (Upd!Applying \ {"creating_backup"}) \cup Upd!Replacing \cup Upd!Confirming
                     \cup Upd!Restoring => Kept

-----------------------------------------------------------------------------
(* Types.                                                                  *)

UpdRec == [id : 0 .. MaxUpdates, stage : Upd!Stage, from : Upd!Version, target : Upd!Version,
           attempt : {0, 1}]
HsRec == [pc : {"idle", "read", "await", "confirm", "report"}, id : 0 .. MaxUpdates,
          rollback : BOOLEAN, verdict : {"completed", "rolled_back", "failed"}]
SvcRec == [up : BOOLEAN, exe : Upd!Version]
BackupRec == [state : {"none", "partial", "valid"}, files : Upd!Content, local : Upd!Version]
ReportRec == [id : 1 .. MaxUpdates, status : {"completed", "rolled_back", "failed"}]

\* A runner and a confirmation exist only for an update that was launched.
UpdTypes ==
  /\ Upd!UpdateAssumption
  /\ upd \in UpdRec /\ runner \in Upd!RunnerPC /\ files \in Upd!Content /\ local \in Upd!Version
  /\ backup \in BackupRec /\ svc \in SvcRec /\ hs \in HsRec
  /\ reports \subseteq ReportRec
  /\ base \in Upd!Content /\ interrupted \in BOOLEAN /\ updFaults \in 0 .. MaxUpdFaults
  /\ runner # "none" \/ Upd!UpdActive => upd.id >= 1
  /\ hs.pc \in {"await", "confirm", "report"} => hs.id >= 1

LEMMA TypesHold == UpdTypes => Upd!UpdTypeOK
BY DEF UpdTypes, Upd!UpdTypeOK, UpdRec, HsRec, SvcRec, BackupRec, ReportRec

\* Saving changes the stage alone, and not the stage of an update that ended.
LEMMA SavedFields ==
  ASSUME UpdTypes, NEW s \in Upd!Stage, upd' = Upd!Saved(s)
  PROVE  /\ upd' \in UpdRec
         /\ upd'.id = upd.id /\ upd'.from = upd.from /\ upd'.target = upd.target
         /\ upd'.attempt = upd.attempt
         /\ upd'.stage = IF Upd!UpdActive THEN s ELSE upd.stage
BY DEF UpdTypes, UpdRec, Upd!Saved

LEMMA IdleHs == UpdTypes => /\ Upd!Idle \in HsRec /\ Upd!Idle.pc = "idle" /\ Upd!Idle.id = 0
                            /\ [Upd!Idle EXCEPT !.pc = "read"] \in HsRec
                            /\ [Upd!Idle EXCEPT !.pc = "read"].pc = "read"
                            /\ [Upd!Idle EXCEPT !.pc = "read"].id = 0
<1> SUFFICES ASSUME UpdTypes PROVE IdleHs!2
  OBVIOUS
<1>1. 0 \in 0 .. MaxUpdates
  BY DEF UpdTypes, Upd!UpdateAssumption
<1>2. Upd!Idle = [pc |-> "idle", id |-> 0, rollback |-> FALSE, verdict |-> "failed"]
  BY DEF Upd!Idle
<1>3. Upd!Idle \in HsRec /\ Upd!Idle.pc = "idle" /\ Upd!Idle.id = 0
  BY <1>1, <1>2 DEF HsRec
<1> QED
  BY <1>3 DEF HsRec

LEMMA Starts ==
  ASSUME UpdTypes, Upd!StartService
  PROVE  svc' \in SvcRec /\ hs' \in HsRec /\ hs'.pc = "read" /\ hs'.id = 0
<1>1. IF files = Upd!Mixed THEN TRUE ELSE files \in Upd!Version
  BY DEF UpdTypes, Upd!Content
<1>2. svc' \in SvcRec
  BY <1>1 DEF Upd!StartService, Upd!Begins, SvcRec
<1> QED
  BY <1>2, IdleHs DEF Upd!StartService

LEMMA Stops ==
  ASSUME UpdTypes, Upd!StopService
  PROVE  svc' \in SvcRec /\ hs' \in HsRec /\ hs'.pc = "idle" /\ hs'.id = 0
<1>1. svc' \in SvcRec
  BY DEF Upd!StopService, Upd!Down, SvcRec, UpdTypes
<1> QED
  BY <1>1, IdleHs DEF Upd!StopService

LEMMA Reported ==
  ASSUME UpdTypes, runner # "none", NEW s \in {"completed", "rolled_back", "failed"}, Upd!Report(s)
  PROVE  reports' \subseteq ReportRec
BY DEF UpdTypes, Upd!Report, ReportRec, UpdRec

LEMMA HsFields ==
  ASSUME UpdTypes, NEW p \in {"await", "confirm", "report"}
  PROVE  /\ [hs EXCEPT !.pc = p] \in HsRec
         /\ [hs EXCEPT !.pc = p].pc = p /\ [hs EXCEPT !.pc = p].id = hs.id
BY DEF UpdTypes, HsRec

LEMMA HsVerdict ==
  ASSUME UpdTypes, NEW v \in {"completed", "rolled_back", "failed"},
         hs' = [hs EXCEPT !.pc = "report", !.verdict = v]
  PROVE  hs' \in HsRec /\ hs'.pc = "report" /\ hs'.id = hs.id /\ hs'.verdict = v
BY DEF UpdTypes, HsRec

LEMMA TypeInit == Upd!UpdateAssumption /\ Upd!UpdInit => UpdTypes
<1> SUFFICES ASSUME Upd!UpdateAssumption, Upd!UpdInit PROVE UpdTypes
  OBVIOUS
<1> USE DEF Upd!UpdateAssumption, Upd!UpdInit
<1>1. 1 \in Upd!Version /\ 1 \in Upd!Content /\ 0 \in Upd!Content /\ 0 \in 0 .. MaxUpdates
  BY DEF Upd!Version, Upd!Content, Upd!Mixed
<1>2. upd \in UpdRec /\ upd.stage = "failed"
  BY <1>1 DEF UpdRec, Upd!Stage, Upd!Terminal
<1>3. hs \in HsRec /\ hs.pc = "idle"
  BY <1>1 DEF HsRec, Upd!Idle
<1>4. backup \in BackupRec /\ svc \in SvcRec
  BY <1>1 DEF BackupRec, SvcRec, Upd!NoBackup, Upd!Mixed
<1> QED
  <2>1. runner = "none" /\ runner \in Upd!RunnerPC /\ ~Upd!UpdActive
    BY <1>2 DEF Upd!RunnerPC, Upd!Terminal, Upd!UpdActive
  <2>2. /\ files \in Upd!Content /\ local \in Upd!Version /\ base \in Upd!Content
        /\ reports \subseteq ReportRec /\ interrupted \in BOOLEAN
        /\ updFaults \in 0 .. MaxUpdFaults
    <3>1. reports \subseteq ReportRec
      <4>1. reports = {}
        OBVIOUS
      <4> QED
        BY ONLY <4>1
    <3>2. updFaults \in 0 .. MaxUpdFaults
      OBVIOUS
    <3> QED
      BY <1>1, <3>1, <3>2
  <2> HIDE DEF Upd!UpdInit
  <2> QED
    BY <1>1, <1>2, <1>3, <1>4, <2>1, <2>2 DEF UpdTypes

LEMMA TypeStep == ASSUME UpdTypes, [Upd!UpdNext]_updV PROVE UpdTypes'
<1> USE DEF UpdTypes, Upd!RunnerPC, Upd!UpdActive, Upd!Stage, Upd!Terminal, Upd!Applying, Upd!Replacing, Upd!Confirming,
  Upd!Restoring
<1>1. CASE Upd!Launch
  <2>1. PICK v \in Upd!Version :
          upd' = [id |-> upd.id + 1, stage |-> "received", from |-> local,
                  target |-> v, attempt |-> 0]
    BY <1>1 DEF Upd!Launch
  <2>2. upd' \in UpdRec /\ upd'.id >= 1
    BY <1>1, <2>1 DEF Upd!Launch, UpdRec, Upd!UpdateAssumption
  <2>3. backup' \in BackupRec
    BY <1>1 DEF Upd!Launch, Upd!NoBackup, BackupRec, Upd!Content, Upd!Mixed, Upd!Version, Upd!UpdateAssumption
  <2> QED
    BY <1>1, <2>2, <2>3 DEF Upd!Launch
<1>2. CASE Upd!Resume
  BY <1>2, SavedFields DEF Upd!Resume, Upd!ResumesAt
<1>3. CASE Upd!Fetch
  BY <1>3, SavedFields, Reported DEF Upd!Fetch, Upd!Persist
<1>4. CASE Upd!FetchThrows
  BY <1>4 DEF Upd!FetchThrows
<1>5. CASE Upd!BackUp
  BY <1>5, SavedFields DEF Upd!BackUp, Upd!Persist, Upd!NoBackup, Upd!UpdateAssumption, Upd!NoBackup,
    BackupRec, Upd!Version, Upd!Content, Upd!Mixed
<1>6. CASE Upd!BackedUp
  BY <1>6, SavedFields DEF Upd!BackedUp, Upd!Persist, BackupRec
<1>7. CASE Upd!Recheck
  BY <1>7, SavedFields DEF Upd!Recheck, Upd!Persist
<1>8. CASE Upd!Stop
  BY <1>8, SavedFields DEF Upd!Stop, Upd!Persist
<1>9. CASE Upd!Stopped
  BY <1>9, SavedFields, Stops DEF Upd!Stopped, Upd!Persist
<1>10. CASE Upd!FailBeforeReplacement
  BY <1>10, SavedFields, Starts DEF Upd!FailBeforeReplacement, Upd!Persist
<1>11. CASE Upd!Replace
  BY <1>11, SavedFields DEF Upd!Replace, Upd!Persist, Upd!Content, Upd!Mixed
<1>12. CASE Upd!Replaced
  BY <1>12, SavedFields DEF Upd!Replaced, Upd!Persist, UpdRec, Upd!Content
<1>13. CASE Upd!WriteVersion
  BY <1>13, SavedFields DEF Upd!WriteVersion, Upd!Persist, UpdRec
<1>14. CASE Upd!Validated
  BY <1>14, SavedFields DEF Upd!Validated, Upd!Persist
<1>15. CASE Upd!StartNew
  BY <1>15, Starts DEF Upd!StartNew
<1>16. CASE Upd!NeedRollback
  BY <1>16, SavedFields DEF Upd!NeedRollback, Upd!Persist
<1>17. CASE Upd!Confirmed
  BY <1>17 DEF Upd!Confirmed
<1>18. CASE Upd!ResumeWait
  BY <1>18, SavedFields, Starts DEF Upd!ResumeWait, Upd!Undoing, Upd!Expected
<1>19. CASE Upd!ResumeFails
  BY <1>19, SavedFields, Reported DEF Upd!ResumeFails, Upd!Undoing, Upd!Persist
<1>20. CASE Upd!ResumedWaitEnds
  BY <1>20, SavedFields, Reported DEF Upd!ResumedWaitEnds, Upd!Persist
<1>21. CASE Upd!BeginRollback
  BY <1>21, SavedFields, Reported DEF Upd!BeginRollback, Upd!MayRestore, UpdRec
<1>22. CASE Upd!StopToRestore
  BY <1>22, SavedFields, Stops DEF Upd!StopToRestore, Upd!Persist
<1>23. CASE Upd!BeginRestore
  BY <1>23 DEF Upd!BeginRestore, Upd!Content, Upd!Mixed
<1>24. CASE Upd!Restored
  BY <1>24, SavedFields DEF Upd!Restored, Upd!Persist, BackupRec
<1>25. CASE Upd!AwaitRestored
  BY <1>25, SavedFields DEF Upd!AwaitRestored, Upd!Persist
<1>26. CASE Upd!StartRestored
  BY <1>26, Starts DEF Upd!StartRestored
<1>27. CASE Upd!RestoredWaitEnds
  BY <1>27 DEF Upd!RestoredWaitEnds
<1>28. CASE Upd!LoseRollback
  BY <1>28, SavedFields, Reported DEF Upd!LoseRollback, Upd!Persist
<1>29. CASE Upd!HsRead
  BY <1>29, IdleHs DEF Upd!HsRead, Upd!Undoing, HsRec, UpdRec
<1>30. CASE Upd!HsAwait
  BY <1>30, HsFields, IdleHs DEF Upd!HsAwait
<1>31. CASE Upd!HsConfirm
  <2>1. hs.pc = "confirm" /\ hs.id >= 1
    BY <1>31 DEF Upd!HsConfirm
  <2>2. upd' \in UpdRec /\ upd'.id = upd.id /\ (upd'.stage \notin Upd!Terminal => Upd!UpdActive)
    BY <1>31, SavedFields DEF Upd!HsConfirm
  <2>3. hs' \in HsRec /\ (hs'.pc # "idle" => hs'.id >= 1)
    <3> DEFINE v == IF upd'.stage \in {"completed", "rolled_back"} THEN upd'.stage ELSE "failed"
    <3>1. v \in {"completed", "rolled_back", "failed"}
      OBVIOUS
    <3>2. hs' = [hs EXCEPT !.pc = "report", !.verdict = v] \/ hs' = Upd!Idle
      BY <1>31 DEF Upd!HsConfirm
    <3> HIDE DEF v
    <3> QED
      BY <2>1, <3>1, <3>2, HsVerdict, IdleHs
  <2> QED
    BY <1>31, <2>1, <2>2, <2>3 DEF Upd!HsConfirm
<1>32. CASE Upd!HsReport
  BY <1>32, HsFields, IdleHs DEF Upd!HsReport, ReportRec, HsRec
<1>33. CASE Upd!UpdFault
  <2>1. CASE Upd!RunnerDies
    BY <1>33, <2>1 DEF Upd!UpdFault, Upd!RunnerDies, Upd!UpdateAssumption
  <2>2. CASE Upd!ServiceDies
    BY <1>33, <2>2, Starts, Stops DEF Upd!UpdFault, Upd!ServiceDies, Upd!UpdateAssumption
  <2>3. CASE Upd!Reboot
    BY <1>33, <2>3, Starts DEF Upd!UpdFault, Upd!Reboot, Upd!UpdateAssumption
  <2> QED
    BY <1>33, <2>1, <2>2, <2>3 DEF Upd!UpdFault
<1>34. CASE UNCHANGED updV
  BY <1>34 DEF updV
<1> QED
  BY <1>1, <1>2, <1>3, <1>4, <1>5, <1>6, <1>7, <1>8, <1>9, <1>10, <1>11, <1>12, <1>13,
    <1>14, <1>15, <1>16, <1>17, <1>18, <1>19, <1>20, <1>21, <1>22, <1>23, <1>24, <1>25,
    <1>26, <1>27, <1>28, <1>29, <1>30, <1>31, <1>32, <1>33, <1>34
    DEF Upd!UpdNext, Upd!RunnerStep, Upd!ServiceStep

-----------------------------------------------------------------------------
(* Place, stage and disk.                                                  *)

UpdateInv == UpdTypes /\ StageAllows /\ FilesMatch /\ BackupMatches

LEMMA UpdateInit == Upd!UpdateAssumption /\ Upd!UpdInit => UpdateInv
<1> SUFFICES ASSUME Upd!UpdateAssumption, Upd!UpdInit PROVE StageAllows /\ FilesMatch /\ BackupMatches
  BY TypeInit DEF UpdateInv
<1>1. runner = "none" /\ upd.stage = "failed" /\ files = base
  BY DEF Upd!UpdInit
<1> QED
  BY <1>1 DEF StageAllows, FilesMatch, BackupMatches, Upd!Applying, Upd!Replacing, Upd!Confirming,
    Upd!Restoring, Upd!Terminal

LEMMA UpdateStep == ASSUME UpdateInv, [Upd!UpdNext]_updV PROVE UpdateInv'
<1> USE DEF UpdateInv, StageAllows, FilesMatch, BackupMatches, Before, After, Kept,
      Upd!UpdActive, Upd!Stage, Upd!Terminal, Upd!Applying, Upd!Replacing, Upd!Confirming, Upd!Restoring
<1>0. UpdTypes'
  BY TypeStep
<1>1. CASE Upd!Launch
  BY <1>1, <1>0 DEF Upd!Launch
<1>2. CASE Upd!Resume
  <2>1. runner = "none" /\ upd'.stage \in Upd!Stage \ Upd!Terminal /\ upd'.from = upd.from
        /\ upd'.target = upd.target /\ upd'.attempt = upd.attempt
        /\ UNCHANGED <<files, local, backup, base>>
        /\ upd'.stage = IF upd.stage \in Upd!Replacing THEN "rollback_required" ELSE upd.stage
    <3>1. upd.stage \in Upd!Stage \ Upd!Terminal /\ runner = "none"
      BY <1>2 DEF Upd!Resume, UpdTypes, UpdRec
    <3>2. CASE upd.stage \in Upd!Replacing
      BY <1>2, <3>1, <3>2, SavedFields DEF Upd!Resume
    <3>3. CASE upd.stage \notin Upd!Replacing
      BY <1>2, <3>1, <3>3 DEF Upd!Resume
    <3> QED
      BY <3>2, <3>3
  <2>2. runner' = Upd!ResumesAt
    BY <1>2 DEF Upd!Resume
  <2>3. FilesMatch'
    BY <1>0, <2>1, <2>2 DEF Upd!ResumesAt
  <2>4. StageAllows'
    BY <1>0, <2>1, <2>2 DEF Upd!ResumesAt, UpdTypes, UpdRec
  <2> QED
    BY <1>0, <2>1, <2>3, <2>4
<1>3. CASE Upd!Fetch
  BY <1>3, <1>0, SavedFields DEF Upd!Fetch, Upd!Persist
<1>4. CASE Upd!FetchThrows
  BY <1>4, <1>0 DEF Upd!FetchThrows
<1>5. CASE Upd!BackUp
  BY <1>5, <1>0, SavedFields DEF Upd!BackUp, Upd!Persist, Upd!NoBackup
<1>6. CASE Upd!BackedUp
  BY <1>6, <1>0, SavedFields DEF Upd!BackedUp, Upd!Persist
<1>7. CASE Upd!Recheck
  BY <1>7, <1>0, SavedFields DEF Upd!Recheck, Upd!Persist
<1>8. CASE Upd!Stop
  BY <1>8, <1>0, SavedFields DEF Upd!Stop, Upd!Persist
<1>9. CASE Upd!Stopped
  BY <1>9, <1>0, SavedFields DEF Upd!Stopped, Upd!Persist
<1>10. CASE Upd!FailBeforeReplacement
  BY <1>10, <1>0, SavedFields DEF Upd!FailBeforeReplacement, Upd!Persist
<1>11. CASE Upd!Replace
  BY <1>11, <1>0, SavedFields DEF Upd!Replace, Upd!Persist
<1>12. CASE Upd!Replaced
  BY <1>12, <1>0, SavedFields DEF Upd!Replaced, Upd!Persist
<1>13. CASE Upd!WriteVersion
  BY <1>13, <1>0, SavedFields DEF Upd!WriteVersion, Upd!Persist
<1>14. CASE Upd!Validated
  BY <1>14, <1>0, SavedFields DEF Upd!Validated, Upd!Persist
<1>15. CASE Upd!StartNew
  BY <1>15, <1>0 DEF Upd!StartNew
<1>16. CASE Upd!NeedRollback
  BY <1>16, <1>0, SavedFields DEF Upd!NeedRollback, Upd!Persist
<1>17. CASE Upd!Confirmed
  BY <1>17, <1>0 DEF Upd!Confirmed
<1>18. CASE Upd!ResumeWait
  BY <1>18, <1>0, SavedFields DEF Upd!ResumeWait, Upd!Undoing, Upd!Expected
<1>19. CASE Upd!ResumeFails
  BY <1>19, <1>0, SavedFields DEF Upd!ResumeFails, Upd!Undoing, Upd!Persist
<1>20. CASE Upd!ResumedWaitEnds
  BY <1>20, <1>0, SavedFields DEF Upd!ResumedWaitEnds, Upd!Persist
<1>21. CASE Upd!BeginRollback
  <2>1. /\ upd.stage \in Upd!Restoring /\ UNCHANGED <<files, local, backup, base>>
        /\ upd'.from = upd.from /\ upd'.target = upd.target
    BY <1>21, SavedFields DEF Upd!BeginRollback, UpdTypes, UpdRec
  <2>2. \/ /\ upd'.stage = "rollback_starting" /\ upd'.attempt = 1
           /\ runner' = "rb_stop"
        \/ /\ runner' = "none"
           /\ upd'.attempt = upd.attempt /\ upd'.stage \in {upd.stage, "rollback_failed"}
    BY <1>21, <2>1, SavedFields DEF Upd!BeginRollback, UpdTypes, UpdRec
  <2> QED
    BY <1>0, <2>1, <2>2
<1>22. CASE Upd!StopToRestore
  BY <1>22, <1>0, SavedFields DEF Upd!StopToRestore, Upd!Persist
<1>23. CASE Upd!BeginRestore
  BY <1>23, <1>0 DEF Upd!BeginRestore
<1>24. CASE Upd!Restored
  BY <1>24, <1>0, SavedFields DEF Upd!Restored, Upd!Persist
<1>25. CASE Upd!AwaitRestored
  BY <1>25, <1>0, SavedFields DEF Upd!AwaitRestored, Upd!Persist
<1>26. CASE Upd!StartRestored
  BY <1>26, <1>0 DEF Upd!StartRestored
<1>27. CASE Upd!RestoredWaitEnds
  BY <1>27, <1>0 DEF Upd!RestoredWaitEnds
<1>28. CASE Upd!LoseRollback
  BY <1>28, <1>0, SavedFields DEF Upd!LoseRollback, Upd!Persist
<1>29. CASE Upd!HsRead
  BY <1>29, <1>0 DEF Upd!HsRead, Upd!Undoing
<1>30. CASE Upd!HsAwait
  BY <1>30, <1>0 DEF Upd!HsAwait, Upd!Idle
<1>31. CASE Upd!HsConfirm
  BY <1>31, <1>0, SavedFields DEF Upd!HsConfirm, Upd!CanConfirm, Upd!Idle
<1>32. CASE Upd!HsReport
  BY <1>32, <1>0 DEF Upd!HsReport, Upd!Idle
<1>33. CASE Upd!UpdFault
  BY <1>33, <1>0 DEF Upd!UpdFault, Upd!RunnerDies, Upd!ServiceDies, Upd!Reboot
<1>34. CASE UNCHANGED updV
  BY <1>34 DEF updV, UpdTypes
<1> QED
  BY <1>1, <1>2, <1>3, <1>4, <1>5, <1>6, <1>7, <1>8, <1>9, <1>10, <1>11, <1>12, <1>13,
    <1>14, <1>15, <1>16, <1>17, <1>18, <1>19, <1>20, <1>21, <1>22, <1>23, <1>24, <1>25,
    <1>26, <1>27, <1>28, <1>29, <1>30, <1>31, <1>32, <1>33, <1>34
    DEF Upd!UpdNext, Upd!RunnerStep, Upd!ServiceStep

LEMMA UpdateSound == UpdateInv => Upd!UpdateIsSafe /\ Upd!UpdTypeOK
<1> SUFFICES ASSUME UpdateInv PROVE Upd!UpdateIsSafe /\ Upd!UpdTypeOK
  OBVIOUS
<1>1. Upd!UpdTypeOK
  BY TypesHold DEF UpdateInv
<1>2. Upd!EndsWhole
  BY DEF UpdateInv, FilesMatch, Upd!EndsWhole, Before, After
<1>3. Upd!MixedIsRecoverable
  <2> SUFFICES ASSUME files # base, Upd!UpdActive
               PROVE  Kept /\ upd.stage \in Upd!Replacing \cup Upd!Confirming \cup Upd!Restoring
    BY DEF Upd!MixedIsRecoverable, Kept
  <2>1. upd.stage \in Upd!Replacing \cup Upd!Confirming \cup Upd!Restoring
    BY DEF UpdateInv, FilesMatch, Before, UpdTypes, UpdRec, Upd!UpdActive, Upd!Stage, Upd!Applying
  <2> QED
    BY <2>1 DEF UpdateInv, BackupMatches
<1> QED
  BY <1>1, <1>2, <1>3 DEF Upd!UpdateIsSafe

-----------------------------------------------------------------------------
(* Reports.                                                                *)

\* What a report of the present update says is what is persisted of it: so an
\* update that is open has none, and what the service is about to report it
\* has persisted before.
ReportInv ==
  /\ Upd!ReportsAreTrue
  /\ \A r \in reports : r.id <= upd.id
  /\ hs.id <= upd.id
  /\ (hs.pc = "report" /\ hs.id = upd.id) =>
       IF hs.verdict = "failed" THEN upd.stage \in {"failed", "rollback_failed", "rolled_back"}
       ELSE upd.stage = hs.verdict

LEMMA ReportInit == Upd!UpdateAssumption /\ Upd!UpdInit => ReportInv
<1> SUFFICES ASSUME Upd!UpdateAssumption, Upd!UpdInit PROVE ReportInv
  OBVIOUS
<1>1. reports = {} /\ hs.pc = "idle" /\ hs.id = 0 /\ upd.id = 0
  BY DEF Upd!UpdInit, Upd!Idle
<1> QED
  BY <1>1 DEF ReportInv, Upd!ReportsAreTrue

\* A step that keeps the reports, or writes one that is true of what it persists,
\* and leaves an update that has ended as it is.
LEMMA ReportKept ==
  ASSUME UpdateInv, ReportInv, upd'.id = upd.id,
         ~Upd!UpdActive => upd'.stage = upd.stage,
         \A r \in reports' : \/ r \in reports
                              \/ /\ r.id = upd.id /\ ~Upd!UpdActive'
                                 /\ IF r.status = "failed"
                                    THEN upd'.stage \in {"failed", "rollback_failed", "rolled_back"}
                                    ELSE upd'.stage = r.status,
         \/ hs' = hs \/ (hs'.id <= upd.id /\ hs'.pc # "report")
  PROVE  ReportInv'
<1>1. \A r \in reports : r.id = upd.id => ~Upd!UpdActive
  BY DEF ReportInv, Upd!ReportsAreTrue, Upd!UpdActive, Upd!Terminal, UpdateInv, UpdTypes, ReportRec
<1>2. Upd!ReportsAreTrue'
  BY <1>1 DEF ReportInv, Upd!ReportsAreTrue, UpdateInv, UpdTypes, ReportRec, UpdRec
<1>3. \A r \in reports' : r.id <= upd'.id
  <2> SUFFICES ASSUME NEW r \in reports' PROVE r.id <= upd.id
    OBVIOUS
  <2>1. CASE r \in reports
    BY <2>1 DEF ReportInv
  <2>2. CASE r.id = upd.id
    <3>1. upd.id \in Nat
      BY DEF UpdateInv, UpdTypes, UpdRec
    <3> QED
      BY <2>2, <3>1
  <2> QED
    BY <2>1, <2>2
<1>4. (hs'.pc = "report" /\ hs'.id = upd'.id) =>
         IF hs'.verdict = "failed" THEN upd'.stage \in {"failed", "rollback_failed", "rolled_back"}
         ELSE upd'.stage = hs'.verdict
  BY DEF ReportInv, Upd!UpdActive, Upd!Terminal, UpdateInv, UpdTypes, HsRec
<1> QED
  BY <1>2, <1>3, <1>4 DEF ReportInv

LEMMA ReportStep == ASSUME UpdateInv, ReportInv, [Upd!UpdNext]_updV PROVE ReportInv'
<1> USE DEF Upd!UpdActive, Upd!Terminal, Upd!Applying, Upd!Replacing, Upd!Confirming, Upd!Restoring, Upd!Stage
<1>0. UpdTypes /\ StageAllows /\ hs.id <= upd.id /\ upd.id \in Nat /\ 0 <= upd.id
  BY DEF UpdateInv, ReportInv, UpdTypes, UpdRec
<1>1. CASE Upd!Launch
  <2>1. upd'.id = upd.id + 1 /\ UNCHANGED <<hs, reports>>
    BY <1>1 DEF Upd!Launch
  <2>2. hs.id \in Nat /\ \A r \in reports : r.id \in Nat /\ r.id <= upd.id
    BY DEF UpdateInv, ReportInv, UpdTypes, ReportRec, HsRec
  <2> QED
    BY <1>0, <2>1, <2>2 DEF ReportInv, Upd!ReportsAreTrue
<1>2. CASE Upd!Resume
  BY <1>2, <1>0, ReportKept, SavedFields DEF Upd!Resume, Upd!ResumesAt
<1>3. CASE Upd!Fetch
  BY <1>3, <1>0, ReportKept, SavedFields DEF Upd!Fetch, Upd!Persist, Upd!Report, StageAllows
<1>4. CASE Upd!FetchThrows
  BY <1>4, <1>0, ReportKept DEF Upd!FetchThrows
<1>5. CASE Upd!BackUp
  BY <1>5, <1>0, ReportKept, SavedFields DEF Upd!BackUp, Upd!Persist, Upd!NoBackup
<1>6. CASE Upd!BackedUp
  BY <1>6, <1>0, ReportKept, SavedFields DEF Upd!BackedUp, Upd!Persist
<1>7. CASE Upd!Recheck
  BY <1>7, <1>0, ReportKept, SavedFields DEF Upd!Recheck, Upd!Persist
<1>8. CASE Upd!Stop
  BY <1>8, <1>0, ReportKept, SavedFields DEF Upd!Stop, Upd!Persist
<1>9. CASE Upd!Stopped
  BY <1>9, <1>0, ReportKept, SavedFields, Stops DEF Upd!Stopped, Upd!Persist
<1>10. CASE Upd!FailBeforeReplacement
  BY <1>10, <1>0, ReportKept, SavedFields, Starts DEF Upd!FailBeforeReplacement, Upd!Persist
<1>11. CASE Upd!Replace
  BY <1>11, <1>0, ReportKept, SavedFields DEF Upd!Replace, Upd!Persist
<1>12. CASE Upd!Replaced
  BY <1>12, <1>0, ReportKept, SavedFields DEF Upd!Replaced, Upd!Persist
<1>13. CASE Upd!WriteVersion
  BY <1>13, <1>0, ReportKept, SavedFields DEF Upd!WriteVersion, Upd!Persist
<1>14. CASE Upd!Validated
  BY <1>14, <1>0, ReportKept, SavedFields DEF Upd!Validated, Upd!Persist
<1>15. CASE Upd!StartNew
  BY <1>15, <1>0, ReportKept, Starts DEF Upd!StartNew
<1>16. CASE Upd!NeedRollback
  BY <1>16, <1>0, ReportKept, SavedFields DEF Upd!NeedRollback, Upd!Persist
<1>17. CASE Upd!Confirmed
  BY <1>17, <1>0, ReportKept DEF Upd!Confirmed
<1>18. CASE Upd!ResumeWait
  BY <1>18, <1>0, ReportKept, SavedFields, Starts DEF Upd!ResumeWait, Upd!Undoing, Upd!Expected
<1>19. CASE Upd!ResumeFails
  BY <1>19, <1>0, ReportKept, SavedFields DEF Upd!ResumeFails, Upd!Undoing, Upd!Persist, Upd!Report,
    StageAllows
<1>20. CASE Upd!ResumedWaitEnds
  BY <1>20, <1>0, ReportKept, SavedFields DEF Upd!ResumedWaitEnds, Upd!Persist, Upd!Report, StageAllows
<1>21. CASE Upd!BeginRollback
  <2>1. upd'.id = upd.id /\ hs' = hs /\ Upd!UpdActive
    BY <1>21, <1>0, SavedFields DEF Upd!BeginRollback, UpdTypes, UpdRec, StageAllows
  <2>2. CASE Upd!MayRestore
    BY <1>21, <2>1, <2>2, ReportKept DEF Upd!BeginRollback
  <2>3. CASE ~Upd!MayRestore
    <3>1. upd.attempt = 1
      BY <1>0, <1>21, <2>3 DEF Upd!BeginRollback, Upd!MayRestore, StageAllows, UpdTypes, UpdRec
    <3>2. upd'.stage = "rollback_failed"
      BY <1>0, <1>21, <2>1, <2>3, <3>1, SavedFields DEF Upd!BeginRollback
    <3> QED
      BY <1>0, <1>21, <2>1, <2>3, <3>2, ReportKept DEF Upd!BeginRollback, Upd!Report
  <2> QED
    BY <2>2, <2>3
<1>22. CASE Upd!StopToRestore
  BY <1>22, <1>0, ReportKept, SavedFields, Stops DEF Upd!StopToRestore, Upd!Persist
<1>23. CASE Upd!BeginRestore
  BY <1>23, <1>0, ReportKept DEF Upd!BeginRestore
<1>24. CASE Upd!Restored
  BY <1>24, <1>0, ReportKept, SavedFields DEF Upd!Restored, Upd!Persist
<1>25. CASE Upd!AwaitRestored
  BY <1>25, <1>0, ReportKept, SavedFields DEF Upd!AwaitRestored, Upd!Persist
<1>26. CASE Upd!StartRestored
  BY <1>26, <1>0, ReportKept, Starts DEF Upd!StartRestored
<1>27. CASE Upd!RestoredWaitEnds
  BY <1>27, <1>0, ReportKept DEF Upd!RestoredWaitEnds
<1>28. CASE Upd!LoseRollback
  BY <1>28, <1>0, ReportKept, SavedFields DEF Upd!LoseRollback, Upd!Persist, Upd!Report, StageAllows
<1>29. CASE Upd!HsRead
  BY <1>29, <1>0, ReportKept, IdleHs DEF Upd!HsRead, Upd!Undoing
<1>30. CASE Upd!HsAwait
  BY <1>30, <1>0, ReportKept, HsFields, IdleHs DEF Upd!HsAwait
<1>31. CASE Upd!HsConfirm
  <2>1. upd'.id = upd.id /\ UNCHANGED reports /\ (~Upd!UpdActive => upd'.stage = upd.stage)
    BY <1>0, <1>31, SavedFields DEF Upd!HsConfirm
  <2>2. CASE hs' = Upd!Idle
    BY <1>0, <2>1, <2>2, IdleHs, ReportKept
  <2>3. CASE hs' # Upd!Idle
    <3> DEFINE v == IF upd'.stage \in {"completed", "rolled_back"} THEN upd'.stage ELSE "failed"
    <3>1. hs' = [hs EXCEPT !.pc = "report", !.verdict = v] /\ Upd!CanConfirm
          /\ upd'.stage \in Upd!Terminal
      BY <1>31, <2>3 DEF Upd!HsConfirm
    <3>2. hs'.id = hs.id /\ hs'.verdict = v
      BY <1>0, <3>1, HsVerdict
    <3>3. \A r \in reports : r.id # upd.id
      BY <3>1 DEF Upd!CanConfirm, ReportInv, Upd!ReportsAreTrue, UpdateInv, UpdTypes, ReportRec
    <3>4. Upd!ReportsAreTrue'
      BY <2>1, <3>3 DEF Upd!ReportsAreTrue
    <3> QED
      BY <1>0, <2>1, <3>1, <3>2, <3>4 DEF ReportInv
  <2> QED
    BY <2>2, <2>3
<1>32. CASE Upd!HsReport
  <2>1. hs.pc = "report" /\ hs' = Upd!Idle /\ UNCHANGED upd
        /\ reports' = reports \cup {[id |-> hs.id, status |-> hs.verdict]}
    BY <1>32 DEF Upd!HsReport
  <2>2. hs.id \in Nat /\ hs.id <= upd.id
    BY <1>0 DEF UpdTypes, HsRec
  <2>3. hs.id = upd.id => IF hs.verdict = "failed"
                          THEN upd.stage \in {"failed", "rollback_failed", "rolled_back"}
                          ELSE upd.stage = hs.verdict
    BY <2>1 DEF ReportInv
  <2>4. hs.verdict \in {"failed", "completed", "rolled_back"}
    BY <1>0 DEF UpdTypes, HsRec
  <2>5. CASE hs.id = upd.id
    BY <1>0, <2>1, <2>3, <2>4, <2>5, IdleHs, ReportKept
  <2>6. CASE hs.id # upd.id
    <3>1. Upd!ReportsAreTrue'
      BY <2>1, <2>6 DEF ReportInv, Upd!ReportsAreTrue
    <3> QED
      BY <1>0, <2>1, <2>2, <3>1, IdleHs DEF ReportInv
  <2> QED
    BY <2>5, <2>6
<1>33. CASE Upd!UpdFault
  BY <1>33, <1>0, ReportKept, Starts, Stops DEF Upd!UpdFault, Upd!RunnerDies, Upd!ServiceDies, Upd!Reboot
<1>34. CASE UNCHANGED updV
  BY <1>34, <1>0, ReportKept DEF updV
<1> QED
  BY <1>1, <1>2, <1>3, <1>4, <1>5, <1>6, <1>7, <1>8, <1>9, <1>10, <1>11, <1>12, <1>13,
    <1>14, <1>15, <1>16, <1>17, <1>18, <1>19, <1>20, <1>21, <1>22, <1>23, <1>24, <1>25,
    <1>26, <1>27, <1>28, <1>29, <1>30, <1>31, <1>32, <1>33, <1>34
    DEF Upd!UpdNext, Upd!RunnerStep, Upd!ServiceStep

-----------------------------------------------------------------------------
(* Releases.                                                                *)

ReleaseRow ==
  [status : Rel!ReleaseStatus \cup {"none"}, channel : Rel!Channel \cup {"none"}, paused : BOOLEAN,
   revoked : BOOLEAN, released : Editor \cup {"panel", "none"}, signed : BOOLEAN]
EditorRec == [on : BOOLEAN, version : 0..MaxVersion, seen : ReleaseRow]

\* A row as clean() and the signature check leave it.
Sound(row) ==
  /\ row.revoked <=> row.status = "revoked"
  /\ row.status = "published" => ~row.paused
  /\ (row.status \in Rel!Immutable /\ row.channel = "stable" => row.signed)
  /\ row.status = "none" => row = Rel!NoRelease

\* Stored rows are sound, and so is what a request read of them.
RowsInv ==
  /\ Rel!ReleaseAssumption
  /\ release \in [Rel!Version -> ReleaseRow] /\ editor \in [Editor -> EditorRec]
  /\ \A v \in Rel!Version : Sound(release[v])
  /\ \A q \in Editor : Sound(editor[q].seen) /\ (editor[q].on => editor[q].version \in Rel!Version)

\* A version somebody decided for, or has a job for, is a release that exists; unless the history
\* says otherwise it is not revoked, and it is an update or was asked for.
WantedVersion(d) ==
  /\ d.version \in Rel!Version /\ release[d.version].status # "none"
  /\ ~outdated => release[d.version].status # "revoked" /\ (d.version > installed \/ d.forced)
DecisionsInv ==
  /\ installed \in 0..MaxVersion + 1 /\ keyRevoked \in BOOLEAN /\ outdated \in BOOLEAN
  /\ decision \in [by : {"none", "policy", "panel"}, version : 0..MaxVersion, forced : BOOLEAN]
  /\ update \in [status : {"none", "cancelled", "completed", "failed"} \cup Rel!ActiveUpdate,
                 version : 0..MaxVersion, forced : BOOLEAN]
  /\ decision # Rel!NoDecision => WantedVersion(decision)
  /\ update.status \in Rel!ActiveUpdate => WantedVersion(update)
ReleasesInv == RowsInv /\ DecisionsInv

LEMMA NoReleaseIsSound == Rel!NoRelease \in ReleaseRow /\ Sound(Rel!NoRelease)
BY DEF Rel!NoRelease, ReleaseRow, Sound, Rel!ReleaseStatus, Rel!Immutable

LEMMA ReleasesInitInv == Rel!ReleaseAssumption /\ Rel!ReleasesInit => ReleasesInv
<1> SUFFICES ASSUME Rel!ReleaseAssumption, Rel!ReleasesInit PROVE ReleasesInv
  OBVIOUS
<1>1. RowsInv
  BY NoReleaseIsSound DEF Rel!ReleasesInit, RowsInv, Rel!NoEditor, EditorRec, Rel!ReleaseAssumption
<1>2. DecisionsInv
  <2>1. 0 \in 0..MaxVersion /\ {0, MaxVersion + 1} \subseteq 0..MaxVersion + 1
    BY DEF Rel!ReleaseAssumption
  <2>2. decision \in [by : {"none", "policy", "panel"}, version : 0..MaxVersion, forced : BOOLEAN]
    BY <2>1 DEF Rel!ReleasesInit, Rel!NoDecision
  <2>3. update \in [status : {"none", "cancelled", "completed", "failed"} \cup Rel!ActiveUpdate,
                   version : 0..MaxVersion, forced : BOOLEAN] /\ update.status \notin Rel!ActiveUpdate
    BY <2>1 DEF Rel!ReleasesInit, Rel!NoUpdate, Rel!ActiveUpdate
  <2> QED BY <2>1, <2>2, <2>3 DEF Rel!ReleasesInit, DecisionsInv
<1> QED BY <1>1, <1>2 DEF ReleasesInv

\* What a save leaves: the cleaned row in place of the one that was read, and nothing else.
LEMMA CleanedRow ==
  ASSUME NEW row \in ReleaseRow, row.status \in Rel!ReleaseStatus,
         row.status = "published" => ~row.paused,
         row.channel = "stable" /\ Rel!Cleaned(row).status \in Rel!Immutable => row.signed
  PROVE  /\ Rel!Cleaned(row) \in ReleaseRow /\ Sound(Rel!Cleaned(row)) /\ Rel!Cleaned(row).status # "none"
         /\ Rel!Cleaned(row).status = "revoked" <=> row.status = "revoked" \/ row.revoked
BY DEF Rel!Cleaned, ReleaseRow, Sound, Rel!ReleaseStatus, Rel!Immutable

LEMMA WriteStep ==
  ASSUME RowsInv, NEW q \in Editor, NEW row \in ReleaseRow, Rel!Write(q, row),
         row.status \in Rel!ReleaseStatus, row.status = "published" => ~row.paused
  PROVE  /\ RowsInv' /\ editor[q].on /\ ~editor'[q].on /\ editor[q].version \in Rel!Version
         /\ \A v \in Rel!Version : release'[v].status # "none" \/ release[v].status = "none"
         /\ \A v \in Rel!Version : release'[v].status = "revoked" =>
              release[v].status = "revoked" \/ (v = editor[q].version /\ (row.status = "revoked" \/ row.revoked))
         /\ \A v \in Rel!Version \ {editor[q].version} : release'[v] = release[v]
<1> DEFINE v == editor[q].version
<1>1. v \in Rel!Version /\ editor[q].on /\ Rel!Saveable(v, row)
      /\ release' = [release EXCEPT ![v] = Rel!Cleaned(row)] /\ editor' = [editor EXCEPT ![q] = Rel!NoEditor]
  BY DEF Rel!Write, Rel!Save, RowsInv
<1>2. /\ Rel!Cleaned(row) \in ReleaseRow /\ Sound(Rel!Cleaned(row)) /\ Rel!Cleaned(row).status # "none"
      /\ Rel!Cleaned(row).status = "revoked" <=> row.status = "revoked" \/ row.revoked
  BY <1>1, CleanedRow DEF Rel!Saveable
<1>3. Rel!NoEditor \in EditorRec /\ Sound(Rel!NoEditor.seen) /\ ~Rel!NoEditor.on
  BY NoReleaseIsSound DEF Rel!NoEditor, EditorRec, RowsInv, Rel!ReleaseAssumption
<1>4. RowsInv'
  BY <1>1, <1>2, <1>3 DEF RowsInv
<1> QED BY <1>1, <1>2, <1>3, <1>4 DEF RowsInv

\* The decision and the job stay wanted if no release they are for is revoked by the step.
LEMMA DecisionsKept ==
  ASSUME DecisionsInv, Rel!Rest,
         \A v \in Rel!Version : release'[v].status # "none" \/ release[v].status = "none",
         \A v \in Rel!Version : release'[v].status = "revoked" =>
           release[v].status = "revoked" \/ release[v].status = "none"
  PROVE  DecisionsInv'
BY DEF DecisionsInv, WantedVersion, Rel!Rest, Rel!Aside, Rel!NoDecision

LEMMA ReleasesStep == ASSUME ReleasesInv, [Rel!ReleasesNext]_releaseV PROVE ReleasesInv'
<1> USE DEF ReleasesInv
<1>0. \A q \in Editor : Rel!Seen(q) \in ReleaseRow /\ Sound(Rel!Seen(q))
  BY DEF RowsInv, Rel!Seen, EditorRec
<1>1. ASSUME NEW q \in Editor, NEW v \in Rel!Version, Rel!ReadRelease(q, v) PROVE ReleasesInv'
  <2>1. RowsInv'
    <3>1. v \in 0..MaxVersion /\ release[v] \in ReleaseRow /\ Sound(release[v])
      BY DEF RowsInv, Rel!Version, Rel!ReleaseAssumption
    <3>2. [on |-> TRUE, version |-> v, seen |-> release[v]] \in EditorRec
      BY <3>1 DEF EditorRec
    <3> QED BY <1>1, <3>1, <3>2 DEF Rel!ReadRelease, RowsInv
  <2>2. DecisionsInv'
    BY <1>1 DEF Rel!ReadRelease, DecisionsInv, WantedVersion
  <2> QED BY <2>1, <2>2
<1>2. ASSUME NEW q \in Editor, Rel!CreateRelease(q) PROVE ReleasesInv'
  <2>1. PICK status \in Rel!ReleaseStatus, ch \in Rel!Channel, signed \in BOOLEAN :
          Rel!Write(q, [status |-> status, channel |-> ch, paused |-> status = "paused", revoked |-> FALSE,
                 released |-> IF status = "published" THEN "panel" ELSE "none", signed |-> signed])
    BY <1>2 DEF Rel!CreateRelease
  <2> DEFINE row == [status |-> status, channel |-> ch, paused |-> status = "paused", revoked |-> FALSE,
                 released |-> IF status = "published" THEN "panel" ELSE "none", signed |-> signed]
  <2>2. row \in ReleaseRow /\ row.status \in Rel!ReleaseStatus /\ (row.status = "published" => ~row.paused)
    BY DEF ReleaseRow
  <2>3. Rel!Rest /\ release[editor[q].version].status = "none" BY <1>2 DEF Rel!CreateRelease
  <2> HIDE DEF row
  <2>4. Rel!Write(q, row) BY <2>1 DEF row
  <2> QED BY <2>2, <2>3, <2>4, WriteStep, DecisionsKept
<1>3. ASSUME NEW q \in Editor, Rel!ImportRelease(q) PROVE ReleasesInv'
  <2>1. PICK status \in Rel!ReleaseStatus, ch \in Rel!Channel, signed \in BOOLEAN :
         /\ Rel!Write(q, [status |-> status, channel |-> ch, paused |-> status = "paused", revoked |-> FALSE,
                    released |-> IF status = "draft" THEN "none" ELSE q, signed |-> signed])
         /\ outdated' = (outdated \/ (status = "revoked" /\ editor[q].version \in {decision.version, update.version}))
    BY <1>3 DEF Rel!ImportRelease
  <2> DEFINE row == [status |-> status, channel |-> ch, paused |-> status = "paused", revoked |-> FALSE,
                    released |-> IF status = "draft" THEN "none" ELSE q, signed |-> signed]
  <2>2. row \in ReleaseRow /\ row.status \in Rel!ReleaseStatus /\ (row.status = "published" => ~row.paused)
        /\ row.status = status /\ ~row.revoked
    BY DEF ReleaseRow
  <2> HIDE DEF row
  <2>3. Rel!Write(q, row) /\ UNCHANGED <<keyRevoked, installed, decision, update>>
    BY <2>1, <1>3 DEF row, Rel!ImportRelease, Rel!Aside
  <2>4. RowsInv' /\ \A v \in Rel!Version :
          /\ release'[v].status # "none" \/ release[v].status = "none"
          /\ release'[v].status = "revoked" =>
               release[v].status = "revoked" \/ (v = editor[q].version /\ status = "revoked")
    BY <2>2, <2>3, WriteStep
  <2>5. outdated' \in BOOLEAN /\ (~outdated' => ~outdated)
    BY <2>1 DEF DecisionsInv
  <2>6. DecisionsInv'
    BY <2>1, <2>3, <2>4, <2>5 DEF DecisionsInv, WantedVersion, Rel!NoDecision
  <2> QED BY <2>4, <2>6
<1>4. ASSUME NEW q \in Editor, Rel!Publish(q) PROVE ReleasesInv'
  <2>1. PICK paused \in BOOLEAN :
          Rel!Write(q, [Rel!Seen(q) EXCEPT !.paused = paused, !.status = IF paused THEN "paused" ELSE "published",
                   !.released = IF @ = "none" THEN q ELSE @])
    BY <1>4 DEF Rel!Publish
  <2> DEFINE row == [Rel!Seen(q) EXCEPT !.paused = paused, !.status = IF paused THEN "paused" ELSE "published",
                   !.released = IF @ = "none" THEN q ELSE @]
  <2>2. row \in ReleaseRow /\ row.status \in Rel!ReleaseStatus \ {"revoked"} /\ (row.status = "published" => ~row.paused)
        /\ ~row.revoked
    BY <1>0, <1>4 DEF ReleaseRow, Sound, Rel!Publish, Rel!ReleaseStatus
  <2>3. Rel!Rest BY <1>4 DEF Rel!Publish
  <2> HIDE DEF row
  <2>4. Rel!Write(q, row) BY <2>1 DEF row
  <2> QED BY <2>2, <2>3, <2>4, WriteStep, DecisionsKept
<1>5. ASSUME NEW q \in Editor, Rel!Promote(q) PROVE ReleasesInv'
  <2>1. PICK ch \in Rel!Channel, paused \in BOOLEAN :
          Rel!Write(q, [Rel!Seen(q) EXCEPT !.channel = ch, !.paused = paused,
                      !.status = IF paused THEN "paused" ELSE "published"])
    BY <1>5 DEF Rel!Promote
  <2> DEFINE row == [Rel!Seen(q) EXCEPT !.channel = ch, !.paused = paused,
                      !.status = IF paused THEN "paused" ELSE "published"]
  <2>2. row \in ReleaseRow /\ row.status \in Rel!ReleaseStatus \ {"revoked"} /\ (row.status = "published" => ~row.paused)
        /\ ~row.revoked
    BY <1>0, <1>5 DEF ReleaseRow, Sound, Rel!Promote, Rel!ReleaseStatus
  <2>3. Rel!Rest BY <1>5 DEF Rel!Promote
  <2> HIDE DEF row
  <2>4. Rel!Write(q, row) BY <2>1 DEF row
  <2> QED BY <2>2, <2>3, <2>4, WriteStep, DecisionsKept
<1>6. ASSUME NEW q \in Editor, Rel!ChangeRollout(q) PROVE ReleasesInv'
  <2>1. Rel!Seen(q).status \in {"draft", "published", "paused"} /\ Rel!Rest BY <1>6 DEF Rel!ChangeRollout
  <2>2. ASSUME NEW row \in {Rel!Seen(q),
                 [Rel!Seen(q) EXCEPT !.paused = TRUE, !.status = IF @ = "published" THEN "paused" ELSE @],
                 [Rel!Seen(q) EXCEPT !.paused = FALSE, !.status = IF @ = "paused" THEN "published" ELSE @]},
               Rel!Write(q, row)
        PROVE  ReleasesInv'
    <3>1. row \in ReleaseRow /\ row.status \in Rel!ReleaseStatus \ {"revoked"} /\ (row.status = "published" => ~row.paused)
          /\ ~row.revoked
      BY <1>0, <2>1, <2>2 DEF ReleaseRow, Sound, Rel!ReleaseStatus
    <3> QED BY <2>1, <2>2, <3>1, WriteStep, DecisionsKept
  <2> QED BY <1>6, <2>2 DEF Rel!ChangeRollout
<1>7. ASSUME NEW q \in Editor, Rel!Supersede(q) PROVE ReleasesInv'
  <2> DEFINE row == [Rel!Seen(q) EXCEPT !.status = "superseded", !.paused = TRUE]
  <2>2. row \in ReleaseRow /\ row.status \in Rel!ReleaseStatus \ {"revoked"} /\ (row.status = "published" => ~row.paused)
        /\ ~row.revoked
    BY <1>0, <1>7 DEF ReleaseRow, Sound, Rel!Supersede, Rel!ReleaseStatus
  <2>3. Rel!Rest /\ Rel!Write(q, row) BY <1>7 DEF Rel!Supersede
  <2> HIDE DEF row
  <2> QED BY <2>2, <2>3, WriteStep, DecisionsKept
<1>8. ASSUME NEW q \in Editor, Rel!Revoke(q) PROVE ReleasesInv'
  <2> DEFINE v == editor[q].version
             row == [Rel!Seen(q) EXCEPT !.status = "revoked", !.revoked = TRUE, !.paused = TRUE]
  <2>2. row \in ReleaseRow /\ row.status \in Rel!ReleaseStatus /\ (row.status = "published" => ~row.paused)
    BY <1>0 DEF ReleaseRow, Rel!ReleaseStatus
  <2>3. /\ Rel!Write(q, row) /\ UNCHANGED <<keyRevoked, installed, decision>>
        /\ update' = IF update.version = v /\ update.status \in Rel!ActiveUpdate
                     THEN [update EXCEPT !.status = "cancelled"] ELSE update
        /\ outdated' = (outdated \/ decision.version = v)
    BY <1>8 DEF Rel!Revoke, Rel!Aside
  <2> HIDE DEF row
  <2>4. RowsInv' /\ v \in Rel!Version /\ \A w \in Rel!Version :
          /\ release'[w].status # "none" \/ release[w].status = "none"
          /\ release'[w].status = "revoked" => release[w].status = "revoked" \/ w = v
    BY <2>2, <2>3, WriteStep
  <2>5. DecisionsInv'
    BY <2>3, <2>4 DEF DecisionsInv, WantedVersion, Rel!ActiveUpdate, Rel!NoDecision
  <2> QED BY <2>4, <2>5
<1>9. ASSUME NEW q \in Editor, Rel!Refuse(q) PROVE ReleasesInv'
  <2>1. Rel!NoEditor \in EditorRec /\ Sound(Rel!NoEditor.seen) /\ ~Rel!NoEditor.on
    BY NoReleaseIsSound DEF Rel!NoEditor, EditorRec, RowsInv, Rel!ReleaseAssumption
  <2>2. RowsInv'
    BY <1>9, <2>1 DEF Rel!Refuse, RowsInv
  <2>3. DecisionsInv'
    BY <1>9, DecisionsKept DEF Rel!Refuse
  <2> QED BY <2>2, <2>3
<1>10. CASE Rel!RevokeKey
  BY <1>10 DEF Rel!RevokeKey, RowsInv, DecisionsInv, WantedVersion
<1>11. CASE Rel!Decide
  <2>1. RowsInv' BY <1>11 DEF Rel!Decide, RowsInv
  <2>2. ASSUME NEW v \in Rel!Version, NEW forced \in BOOLEAN, NEW manual \in BOOLEAN, Rel!Eligible(v, manual, forced)
        PROVE  v \in 0..MaxVersion /\ release[v].status \notin {"none", "revoked"} /\ (v > installed \/ forced)
    BY <2>2 DEF RowsInv, Rel!Eligible, Sound, Rel!Version, Rel!ReleaseAssumption
  <2>3. \/ \E v \in Rel!Version : /\ v \in 0..MaxVersion /\ release[v].status \notin {"none", "revoked"} /\ v > installed
                                  /\ decision' = [by |-> "policy", version |-> v, forced |-> FALSE]
        \/ \E v \in Rel!Version, forced \in BOOLEAN :
             /\ v \in 0..MaxVersion /\ release[v].status \notin {"none", "revoked"} /\ (v > installed \/ forced)
             /\ decision' = [by |-> "panel", version |-> v, forced |-> forced]
    BY <1>11, <2>2 DEF Rel!Decide, Rel!Newest
  <2>4. decision' \in [by : {"none", "policy", "panel"}, version : 0..MaxVersion, forced : BOOLEAN]
        /\ decision'.version \in Rel!Version /\ release[decision'.version].status \notin {"none", "revoked"}
        /\ (decision'.version > installed \/ decision'.forced)
    <3>1. ASSUME NEW v \in Rel!Version, v \in 0..MaxVersion, NEW b \in {"policy", "panel"}, NEW f \in BOOLEAN,
                 decision' = [by |-> b, version |-> v, forced |-> f]
          PROVE  decision' \in [by : {"none", "policy", "panel"}, version : 0..MaxVersion, forced : BOOLEAN]
                 /\ decision'.version = v /\ decision'.forced = f
      BY <3>1
    <3> QED BY <2>3, <3>1
  <2>5. DecisionsInv'
    BY <1>11, <2>4 DEF Rel!Decide, DecisionsInv, WantedVersion
  <2> QED BY <2>1, <2>5
<1>12. CASE Rel!Dispatch
  <2>1. RowsInv' BY <1>12 DEF Rel!Dispatch, RowsInv
  <2>2. CASE update.status \in Rel!ActiveUpdate
    <3>1. Rel!NoDecision \in [by : {"none", "policy", "panel"}, version : 0..MaxVersion, forced : BOOLEAN]
      BY DEF Rel!NoDecision, RowsInv, Rel!ReleaseAssumption
    <3> QED BY <1>12, <2>1, <2>2, <3>1 DEF Rel!Dispatch, DecisionsInv, WantedVersion
  <2>3. CASE update.status \notin Rel!ActiveUpdate
    <3>1. Rel!NoDecision \in [by : {"none", "policy", "panel"}, version : 0..MaxVersion, forced : BOOLEAN]
      BY DEF Rel!NoDecision, RowsInv, Rel!ReleaseAssumption
    <3>2. /\ update' = [status |-> "queued", version |-> decision.version, forced |-> decision.forced]
          /\ WantedVersion(decision) /\ decision' = Rel!NoDecision
          /\ UNCHANGED <<release, editor, keyRevoked, installed, outdated, releaseOps, decisions>>
      BY <1>12, <2>3 DEF Rel!Dispatch, DecisionsInv
    <3>3. update' \in [status : {"none", "cancelled", "completed", "failed"} \cup Rel!ActiveUpdate,
                 version : 0..MaxVersion, forced : BOOLEAN] /\ update'.version = decision.version
                 /\ update'.forced = decision.forced
      BY <3>2 DEF DecisionsInv, Rel!ActiveUpdate
    <3> QED BY <2>1, <3>1, <3>2, <3>3 DEF DecisionsInv, WantedVersion
  <2> QED BY <2>2, <2>3
<1>13. CASE Rel!DeliverUpdate
  BY <1>13 DEF Rel!DeliverUpdate, RowsInv, DecisionsInv, WantedVersion, Rel!ActiveUpdate
<1>14. CASE Rel!EndUpdate
  <2>1. RowsInv' BY <1>14 DEF Rel!EndUpdate, RowsInv
  <2>2. update.version \in Rel!Version /\ update.version \in 0..MaxVersion + 1
    BY <1>14 DEF Rel!EndUpdate, DecisionsInv, WantedVersion, Rel!ActiveUpdate, Rel!Version, RowsInv, Rel!ReleaseAssumption
  <2>3. DecisionsInv' BY <1>14, <2>2 DEF Rel!EndUpdate, DecisionsInv, WantedVersion, Rel!ActiveUpdate
  <2> QED BY <2>1, <2>3
<1>15. CASE UNCHANGED releaseV
  BY <1>15 DEF releaseV, RowsInv, DecisionsInv, WantedVersion
<1> QED
  BY <1>1, <1>2, <1>3, <1>4, <1>5, <1>6, <1>7, <1>8, <1>9, <1>10, <1>11, <1>12, <1>13, <1>14, <1>15 DEF Rel!ReleasesNext

LEMMA ReleasesSafe == ReleasesInv => Rel!ReleasesAreSafe /\ Rel!ReleasesTypeOK
<1> SUFFICES ASSUME ReleasesInv PROVE Rel!ReleasesAreSafe /\ Rel!ReleasesTypeOK
  OBVIOUS
<1>1. Rel!ReleasesTypeOK
  BY DEF ReleasesInv, RowsInv, DecisionsInv, Rel!ReleasesTypeOK, Sound, ReleaseRow
<1>2. Rel!OffersAreSound
  BY DEF ReleasesInv, RowsInv, Rel!OffersAreSound, Sound
<1>3. Rel!UpdatesAreWanted
  BY DEF ReleasesInv, DecisionsInv, Rel!UpdatesAreWanted, WantedVersion
<1> QED BY <1>1, <1>2, <1>3 DEF Rel!ReleasesAreSafe

\* Whoever writes a row has read it when it was not revoked.
LEMMA OnlyWritten ==
  ASSUME ReleasesInv, NEW q \in Editor, NEW row, Rel!Write(q, row)
  PROVE  /\ editor[q].on /\ ~editor'[q].on
         /\ \A v \in Rel!Version : release'[v] # release[v] => editor[q].version = v
BY DEF ReleasesInv, RowsInv, Rel!Write, Rel!Save, Rel!NoEditor

LEMMA RevokedStays ==
  ASSUME ReleasesInv, [Rel!ReleasesNext]_releaseV
  PROVE  \A v \in Rel!Version : release[v].status = "revoked" /\ release'[v].status # "revoked" =>
           \E q \in Editor : editor[q].on /\ ~editor'[q].on /\ editor[q].version = v
                             /\ editor[q].seen.status # "revoked"
<1>1. ASSUME NEW q \in Editor,
             \/ Rel!CreateRelease(q) \/ Rel!ImportRelease(q) \/ Rel!Publish(q) \/ Rel!Promote(q) \/ Rel!ChangeRollout(q)
             \/ Rel!Supersede(q) \/ Rel!Revoke(q)
      PROVE  editor[q].seen.status # "revoked" /\ \E row : Rel!Write(q, row)
  BY <1>1, Zenon DEF Rel!CreateRelease, Rel!ImportRelease, Rel!Publish, Rel!Promote, Rel!ChangeRollout, Rel!Supersede, Rel!Revoke, Rel!Seen, Rel!ReleaseStatus
<1>2. ASSUME release' = release PROVE \A v \in Rel!Version : release'[v] = release[v]
  BY <1>2
<1>3. \/ release' = release
      \/ \E q \in Editor : \/ Rel!CreateRelease(q) \/ Rel!ImportRelease(q) \/ Rel!Publish(q) \/ Rel!Promote(q) \/ Rel!ChangeRollout(q)
                           \/ Rel!Supersede(q) \/ Rel!Revoke(q)
  BY DEF Rel!ReleasesNext, Rel!ReadRelease, Rel!Refuse, Rel!RevokeKey, Rel!Decide, Rel!Dispatch, Rel!DeliverUpdate, Rel!EndUpdate, releaseV
<1> QED BY <1>1, <1>2, <1>3, OnlyWritten

-----------------------------------------------------------------------------
(* Together.                                                                *)

LEMMA UpdMoves ==
  /\ Init => Upd!UpdInit
  /\ [Next]_Vars => [Upd!UpdNext]_updV
BY DEF Init, Next, OthersRest, Vars

LEMMA RelMoves ==
  /\ Init => Rel!ReleasesInit
  /\ [Next]_Vars => [Rel!ReleasesNext]_releaseV
BY DEF Init, Next, OthersRest, Vars

\* The strengthening holds of the composition, for every value of its constants.
THEOREM UpdatesInvariant == Spec => [](UpdateInv /\ ReportInv /\ ReleasesInv)
<1>1. Init => UpdateInv /\ ReportInv /\ ReleasesInv
  BY ComponentsAssumption, UpdMoves, RelMoves, UpdateInit, ReportInit, ReleasesInitInv
<1>2. UpdateInv /\ ReportInv /\ ReleasesInv /\ [Next]_Vars => (UpdateInv /\ ReportInv /\ ReleasesInv)'
  BY UpdMoves, RelMoves, UpdateStep, ReportStep, ReleasesStep
<1> QED
  BY <1>1, <1>2, PTL DEF Spec

\* An update that has ended left all of its target or all of what was there before, and
\* what it says is what is installed; until it ends, wherever runner, service or machine
\* stop, a complete backup stands behind files that were touched; a success is reported
\* only of an update that ended so; and no release is offered against its state.
THEOREM UpdatesSafe == Spec => []UpdatesAreSafe
<1>1. UpdateInv /\ ReportInv /\ ReleasesInv => UpdatesAreSafe
  BY UpdateSound, ReleasesSafe DEF UpdatesAreSafe, ReportInv
<1> QED
  BY <1>1, UpdatesInvariant, PTL

\* A revoked release is offered again only by a request that had read it before.
THEOREM RevokedReleases == Spec => Rel!RevokedIsFinal
<1>1. ASSUME ReleasesInv, [Next]_Vars
      PROVE  [\A v \in Rel!Version : release[v].status = "revoked" /\ release'[v].status # "revoked" =>
                 \E q \in Editor : editor[q].on /\ ~editor'[q].on /\ editor[q].version = v
                                   /\ editor[q].seen.status # "revoked"]_Rel!releaseVars
  BY <1>1, RelMoves, RevokedStays
<1> QED
  BY <1>1, UpdatesInvariant, PTL DEF Spec, Rel!RevokedIsFinal

-----------------------------------------------------------------------------

(* The outbox.                                                              *)

SenderRec == [at : {"idle", "taken", "sent", "failed"}, row : Mail!Mail \cup {Mail!NoMail}]
EditRec == [op : {"none", "cancel", "pending"}, row : Mail!Mail \cup {Mail!NoMail}, seen : Mail!Row]

MailTypes ==
  /\ Mail!MailAssumption
  /\ mail \in [Mail!Mail -> Mail!Row] /\ recent \subseteq Mail!Mail /\ preparing \subseteq Desk
  /\ sender \in [Sender -> SenderRec] /\ edit \in EditRec
  /\ delivered \in [Mail!Mail -> Nat] /\ doubt \subseteq Mail!Mail
  /\ overlapping \subseteq Desk /\ rushed \subseteq Mail!Mail /\ failedOnce \subseteq Mail!Mail
  /\ mailFaults \in 0 .. MaxMailFaults /\ mailOps \in 0 .. MaxMailOps
  /\ \A s \in Sender : sender[s].at = "idle" <=> sender[s].row = Mail!NoMail
  /\ edit # Mail!NoEdit => edit.row \in Mail!Mail

\* A row in a sender's hand was marked 'sending', and may have been cancelled since;
\* it has one sender, who knows whether it was accepted; and a row that may be sent
\* was not accepted yet.
Certain(m) ==
  /\ \A s, t \in Mail!InHand(m) : s = t
  /\ \A s \in Mail!InHand(m) :
       /\ mail[m].status \in {"sending", "cancelled"}
       /\ sender[s].at \in {"taken", "failed"} => delivered[m] = 0
  /\ mail[m].status \in {"none", "pending", "failed", "skipped"} => delivered[m] = 0
  /\ delivered[m] <= 1

MailInv ==
  /\ MailTypes
  /\ \A m \in Mail!Mail : m \notin doubt => Certain(m)
  /\ \A s \in Sender : sender[s].at = "sent" => delivered[sender[s].row] > 0
  /\ Mail!SentIsDelivered /\ Mail!SendingIsInHand

\* A request in the middle of preparing knows all recent rows, and found them failed, unless
\* a row came after it had looked; and a row that failed is known to have failed once.
NoticeInv ==
  /\ \A m \in recent : mail[m].status # "none"
  /\ \A m \in Mail!Mail : mail[m].status = "failed" => m \in failedOnce
  /\ \A d \in preparing \ overlapping : recent \subseteq failedOnce
  /\ Mail!OneNoticeEach

LEMMA RowIsNot == Mail!NoMail \notin Mail!Mail
BY DEF Mail!NoMail, Mail!Mail

LEMMA HandStep ==
  ASSUME MailTypes, NEW s \in Sender, NEW h \in SenderRec, sender' = [sender EXCEPT ![s] = h]
  PROVE  /\ sender' \in [Sender -> SenderRec] /\ sender'[s] = h
         /\ \A t \in Sender \ {s} : sender'[t] = sender[t]
BY DEF MailTypes

LEMMA RowStep ==
  ASSUME MailTypes, NEW m \in Mail!Mail, NEW r \in Mail!Row, mail' = [mail EXCEPT ![m] = r]
  PROVE  /\ mail' \in [Mail!Mail -> Mail!Row] /\ mail'[m] = r
         /\ \A n \in Mail!Mail \ {m} : mail'[n] = mail[n]
BY DEF MailTypes

LEMMA StatusStep ==
  ASSUME MailTypes, NEW m \in Mail!Mail, NEW s \in Mail!MailStatus, Mail!SetStatus(m, s)
  PROVE  /\ mail' \in [Mail!Mail -> Mail!Row] /\ mail'[m].status = s
         /\ mail'[m].attempts = mail[m].attempts
         /\ \A n \in Mail!Mail \ {m} : mail'[n] = mail[n]
BY DEF MailTypes, Mail!SetStatus, Mail!Row

LEMMA MailInitInv == Mail!MailAssumption /\ Mail!MailInit => MailInv
BY RowIsNot DEF Mail!MailAssumption, Mail!MailInit, MailInv, MailTypes, SenderRec, EditRec, Mail!Row,
  Mail!MailStatus,
  Mail!Resting, Mail!NoEdit, Mail!NoMail, Certain, Mail!InHand, Mail!SentIsDelivered, Mail!SendingIsInHand

LEMMA MailStep == ASSUME MailInv, [Mail!MailNext]_mailV PROVE MailInv'
<1> USE RowIsNot DEF MailInv, MailTypes, Certain, Mail!InHand, Mail!SentIsDelivered, Mail!SendingIsInHand,
     Mail!rowHistory
<1>1. ASSUME NEW d \in Desk, Mail!Look(d) PROVE MailInv'
  BY <1>1 DEF Mail!Look
<1>2. ASSUME NEW d \in Desk, Mail!Enqueue(d) PROVE MailInv'
  BY <1>2, StatusStep DEF Mail!Enqueue, Mail!MailStatus
<1>3. CASE Mail!TwentySecondsPass
  BY <1>3 DEF Mail!TwentySecondsPass
<1>4. CASE Mail!SaveEdit
  <2> DEFINE m == edit.row
  <2>1. m \in Mail!Mail /\ edit' = Mail!NoEdit
        /\ UNCHANGED <<recent, preparing, sender, delivered, Mail!rowHistory, mailFaults, mailOps>>
    BY <1>4 DEF Mail!SaveEdit
  <2>2. Mail!NoEdit \in EditRec
    BY DEF Mail!NoEdit, EditRec, Mail!Row, Mail!MailStatus, Mail!MailAssumption
  <2>3. CASE Mail!SetStatus(m, "cancelled") /\ UNCHANGED doubt
    BY <2>1, <2>2, <2>3, StatusStep DEF Mail!MailStatus
  <2>4. ASSUME NEW n \in {0, edit.seen.attempts},
               mail' = [mail EXCEPT ![m] = [status |-> "pending", attempts |-> n]],
               doubt' = IF Mail!InHand(m) # {} \/ delivered[m] > 0 THEN doubt \cup {m} ELSE doubt
        PROVE  MailInv'
    <3>1. [status |-> "pending", attempts |-> n] \in Mail!Row
      BY <2>4 DEF Mail!Row, Mail!MailStatus, EditRec, Mail!MailAssumption
    <3>2. /\ mail' \in [Mail!Mail -> Mail!Row] /\ mail'[m].status = "pending"
          /\ \A k \in Mail!Mail \ {m} : mail'[k] = mail[k]
      BY <2>1, <2>4, <3>1, RowStep
    <3> QED
      BY <2>1, <2>2, <2>4, <3>2
  <2> QED
    BY <1>4, <2>3, <2>4 DEF Mail!SaveEdit
<1>5. ASSUME NEW s \in Sender, Mail!Speak(s) PROVE MailInv'
  BY <1>5, HandStep DEF Mail!Speak, SenderRec
<1>6. ASSUME NEW s \in Sender, Mail!SaveOutcome(s) PROVE MailInv'
  BY <1>6, HandStep, StatusStep DEF Mail!SaveOutcome, SenderRec, Mail!Resting, Mail!MailStatus
<1>7. ASSUME NEW s \in Sender, Mail!SenderDies(s) PROVE MailInv'
  BY <1>7, HandStep DEF Mail!SenderDies, SenderRec, Mail!Resting, Mail!MailAssumption
<1>8. ASSUME NEW s \in Sender, NEW m \in Mail!Mail, Mail!Take(s, m) PROVE MailInv'
  <2>1. /\ sender[s].at = "idle" /\ mail[m].status \in {"pending", "failed"}
        /\ mail[m].attempts < MaxAttempts
        /\ UNCHANGED <<recent, preparing, edit, delivered, doubt, Mail!rowHistory, mailFaults, mailOps>>
    BY <1>8 DEF Mail!Take, Mail!Sendable, Mail!Resting
  <2>2. CASE Mail!SetStatus(m, "skipped") /\ UNCHANGED sender
    BY <2>1, <2>2, StatusStep DEF Mail!MailStatus
  <2>3. CASE /\ mail' = [mail EXCEPT ![m] = [status |-> "sending", attempts |-> @.attempts + 1]]
             /\ sender' = [sender EXCEPT ![s] = [at |-> "taken", row |-> m]]
    <3>1. [status |-> "sending", attempts |-> mail[m].attempts + 1] \in Mail!Row
      BY <2>1 DEF Mail!Row, Mail!MailStatus, Mail!MailAssumption
    <3>2. /\ mail' \in [Mail!Mail -> Mail!Row] /\ mail'[m].status = "sending"
          /\ \A k \in Mail!Mail \ {m} : mail'[k] = mail[k]
      BY <2>3, <3>1, RowStep
    <3>3. [at |-> "taken", row |-> m] \in SenderRec
      BY DEF SenderRec
    <3>4. /\ sender' \in [Sender -> SenderRec] /\ sender'[s] = [at |-> "taken", row |-> m]
          /\ \A t \in Sender \ {s} : sender'[t] = sender[t]
      BY <2>3, <3>3, HandStep
    <3> QED
      BY <2>1, <3>2, <3>4
  <2> QED
    BY <1>8, <2>2, <2>3 DEF Mail!Take
<1>9. ASSUME NEW m \in Mail!Mail, Mail!RetryFailed(m) PROVE MailInv'
  BY <1>9, RowStep DEF Mail!RetryFailed, Mail!Row, Mail!MailStatus, Mail!MailAssumption
<1>10. ASSUME NEW m \in Mail!Mail, NEW op \in {"cancel", "pending"}, Mail!ReadToEdit(m, op) PROVE MailInv'
  BY <1>10 DEF Mail!ReadToEdit, Mail!NoEdit, EditRec, Mail!Row, Mail!MailStatus, Mail!MailAssumption
<1>11. CASE UNCHANGED mailV
  BY <1>11 DEF mailV
<1> QED
  BY <1>1, <1>2, <1>3, <1>4, <1>5, <1>6, <1>7, <1>8, <1>9, <1>10, <1>11 DEF Mail!MailNext

LEMMA NoticeInitInv == Mail!MailInit => NoticeInv
BY DEF Mail!MailInit, NoticeInv, Mail!OneNoticeEach

\* A row of the outbox never becomes unused again, and one that fails is known to.
LEMMA RowsGoOn ==
  ASSUME MailInv, NoticeInv, [Mail!MailNext]_mailV
  PROVE  /\ \A m \in Mail!Mail : mail[m].status # "none" => mail'[m].status # "none"
         /\ \A m \in Mail!Mail : mail'[m].status = "failed" => m \in failedOnce'
         /\ failedOnce \subseteq failedOnce'
<1> USE DEF MailInv, MailTypes, NoticeInv, Mail!rowHistory
<1>1. ASSUME NEW d \in Desk, Mail!Enqueue(d)
      PROVE  /\ \A m \in Mail!Mail : mail'[m].status \notin {"none", "failed"} \/ mail'[m] = mail[m]
             /\ failedOnce' = failedOnce
  BY <1>1, StatusStep DEF Mail!Enqueue, Mail!MailStatus
<1>2. ASSUME Mail!SaveEdit
      PROVE  /\ \A m \in Mail!Mail : mail'[m].status \notin {"none", "failed"} \/ mail'[m] = mail[m]
             /\ failedOnce' = failedOnce
  BY <1>2 DEF Mail!SaveEdit, Mail!SetStatus, Mail!Row
<1>3. ASSUME NEW s \in Sender, Mail!SaveOutcome(s)
      PROVE  /\ \A m \in Mail!Mail : \/ mail'[m].status = "sent" \/ mail'[m] = mail[m]
                                     \/ mail'[m].status = "failed" /\ m \in failedOnce'
             /\ failedOnce \subseteq failedOnce'
  BY <1>3, StatusStep, RowIsNot DEF Mail!SaveOutcome, SenderRec, Mail!MailStatus
<1>4. ASSUME NEW s \in Sender, NEW m \in Mail!Mail, Mail!Take(s, m)
      PROVE  /\ \A n \in Mail!Mail : mail'[n].status \notin {"none", "failed"} \/ mail'[n] = mail[n]
             /\ failedOnce' = failedOnce
  BY <1>4 DEF Mail!Take, Mail!SetStatus, Mail!Row
<1>5. ASSUME NEW m \in Mail!Mail, Mail!RetryFailed(m)
      PROVE  /\ \A n \in Mail!Mail : mail'[n].status \notin {"none", "failed"} \/ mail'[n] = mail[n]
             /\ failedOnce' = failedOnce
  BY <1>5 DEF Mail!RetryFailed
<1>6. ASSUME \/ \E d \in Desk : Mail!Look(d)
             \/ Mail!TwentySecondsPass
             \/ \E s \in Sender : Mail!Speak(s) \/ Mail!SenderDies(s)
             \/ \E m \in Mail!Mail : \E op \in {"cancel", "pending"} : Mail!ReadToEdit(m, op)
             \/ UNCHANGED mailV
      PROVE  mail' = mail /\ failedOnce' = failedOnce
  BY <1>6 DEF Mail!Look, Mail!TwentySecondsPass, Mail!Speak, Mail!SenderDies, Mail!ReadToEdit, mailV
<1> QED
  BY <1>1, <1>2, <1>3, <1>4, <1>5, <1>6 DEF Mail!MailNext

LEMMA NoticeStep == ASSUME MailInv, NoticeInv, [Mail!MailNext]_mailV PROVE NoticeInv'
<1>1. /\ \A m \in Mail!Mail : mail'[m].status = "failed" => m \in failedOnce'
      /\ failedOnce \subseteq failedOnce'
      /\ \A m \in recent : mail'[m].status # "none"
      /\ recent \subseteq Mail!Mail
  BY RowsGoOn DEF MailInv, MailTypes, NoticeInv
<1>2. CASE /\ recent' \subseteq recent /\ rushed' = rushed
           /\ preparing' \ overlapping' \subseteq preparing \ overlapping
  BY <1>1, <1>2 DEF NoticeInv, Mail!OneNoticeEach
<1>3. ASSUME NEW d \in Desk, Mail!Look(d) PROVE NoticeInv'
  <2>1. recent \subseteq failedOnce
    BY <1>3 DEF Mail!Look, Mail!RecentDuplicate, NoticeInv, MailInv, MailTypes
  <2> QED BY <1>1, <1>3, <2>1 DEF Mail!Look, NoticeInv, Mail!OneNoticeEach, Mail!rowHistory
<1>4. ASSUME NEW d \in Desk, Mail!Enqueue(d) PROVE NoticeInv'
  <2>1. PICK m \in Mail!Mail :
          /\ mail[m].status = "none" /\ \E s \in {"pending", "skipped"} : Mail!SetStatus(m, s)
          /\ recent' = recent \cup {m}
          /\ rushed' = IF d \in overlapping THEN rushed \cup {m} ELSE rushed
    BY <1>4 DEF Mail!Enqueue
  <2>2. mail'[m].status # "none"
    BY <2>1, StatusStep DEF MailInv, Mail!MailStatus
  <2>3. d \in preparing /\ preparing' \ overlapping' = {}
    BY <1>4 DEF Mail!Enqueue
  <2>4. m \in rushed' \/ recent \subseteq failedOnce
    BY <2>1, <2>3 DEF NoticeInv
  <2>5. Mail!OneNoticeEach'
    BY <1>1, <2>1, <2>4 DEF NoticeInv, Mail!OneNoticeEach
  <2> QED BY <1>1, <2>1, <2>2, <2>3, <2>5 DEF NoticeInv
<1>5. CASE Mail!TwentySecondsPass
  BY <1>2, <1>5 DEF Mail!TwentySecondsPass, Mail!rowHistory
<1>6. ASSUME UNCHANGED <<recent, preparing, overlapping, rushed>> PROVE NoticeInv'
  BY <1>2, <1>6
<1>7. CASE \/ Mail!SaveEdit
           \/ \E s \in Sender : \/ Mail!Speak(s) \/ Mail!SaveOutcome(s) \/ Mail!SenderDies(s)
                                \/ \E m \in Mail!Mail : Mail!Take(s, m)
           \/ \E m \in Mail!Mail : \/ Mail!RetryFailed(m)
                                   \/ \E op \in {"cancel", "pending"} : Mail!ReadToEdit(m, op)
           \/ UNCHANGED mailV
  BY <1>6, <1>7 DEF Mail!SaveEdit, Mail!Speak, Mail!SaveOutcome, Mail!SenderDies, Mail!Take,
    Mail!RetryFailed, Mail!ReadToEdit, mailV, Mail!rowHistory
<1> QED
  BY <1>3, <1>4, <1>5, <1>7 DEF Mail!MailNext

LEMMA MailSound == MailInv /\ NoticeInv => Mail!MailIsAccounted /\ Mail!MailTypeOK
<1> SUFFICES ASSUME MailInv, NoticeInv PROVE Mail!MailIsAccounted /\ Mail!MailTypeOK
  OBVIOUS
<1>1. Mail!MailTypeOK
  BY DEF MailInv, MailTypes, Mail!MailTypeOK, SenderRec, EditRec
<1>2. \A m \in Mail!Mail : m \notin doubt => delivered[m] <= 1
  BY DEF MailInv, Certain
<1>3. Mail!TwiceOnlyInDoubt
  BY <1>2 DEF Mail!TwiceOnlyInDoubt, MailInv, MailTypes
<1> QED
  BY <1>1, <1>3 DEF MailInv, NoticeInv, Mail!MailIsAccounted

-----------------------------------------------------------------------------
(* The desk.                                                                *)

FetcherRec == [at : {"idle", "search", "fetched", "decided", "file"},
               todo : SUBSET Message, msg : SUBSET Message, seen : Tick!Ticket]

\* An event that had its notice, or is known to have none, stays so.
NoticesGrow ==
  /\ notices \cup untold \subseteq notices' \cup untold'
  /\ notices' \subseteq Tick!Event /\ untold' \subseteq Tick!Event \ notices'

\* What StampsAgree says of the ticket holds of every copy of it, for the
\* notices there are now: what is known of an event is never taken back.
Agrees(t) ==
  /\ t.status = "resolved" => t.resolvedAt
  /\ t.status = "closed" => t.closedAt
  /\ t.status \in {"resolved", "closed"} => "ticket_resolved" \in notices \cup untold

\* A run has one message in hand from its fetch to its filing, and has
\* recorded it before it files it.
InHand(f) ==
  /\ fetcher[f].at \in {"idle", "search"} => fetcher[f].msg = {}
  /\ fetcher[f].at \in {"fetched", "decided", "file"} => \E m \in Message : fetcher[f].msg = {m}
  /\ fetcher[f].at = "file" => \A m \in fetcher[f].msg : record[m] # "none"

DeskInv ==
  /\ Tick!DeskAssumption /\ Tick!DeskTypeOK
  /\ Agrees(ticket)
  /\ \A r \in Request : Agrees(request[r].seen)
  /\ \A f \in Fetcher : Agrees(fetcher[f].seen) /\ InHand(f)
  /\ Tick!RepliesOnce /\ Tick!SeenIsRecorded

LEMMA NoTicketIsTicket == Tick!NoTicket \in Tick!Ticket /\ Tick!NoTicket.status = "none"
BY DEF Tick!NoTicket, Tick!Ticket, Tick!TicketStatus

LEMMA DeskInitInv == Tick!DeskAssumption /\ Tick!DeskInit => DeskInv
<1> SUFFICES ASSUME Tick!DeskAssumption, Tick!DeskInit PROVE DeskInv
  OBVIOUS
<1>1. Tick!DeskTypeOK
  BY NoTicketIsTicket DEF Tick!DeskInit, Tick!DeskAssumption, Tick!DeskTypeOK, Tick!NotReading
<1>2. Agrees(ticket) /\ (\A r \in Request : Agrees(request[r].seen))
      /\ \A f \in Fetcher : Agrees(fetcher[f].seen)
  BY NoTicketIsTicket DEF Tick!DeskInit, Agrees, Tick!NotReading
<1>3. (\A f \in Fetcher : InHand(f)) /\ Tick!RepliesOnce /\ Tick!SeenIsRecorded
  BY DEF Tick!DeskInit, InHand, Tick!RepliesOnce, Tick!SeenIsRecorded
<1> QED BY <1>1, <1>2, <1>3 DEF DeskInv

LEMMA StampedTicket ==
  ASSUME NEW t \in Tick!Ticket
  PROVE  /\ Tick!Stamped(t) \in Tick!Ticket /\ Tick!Stamped(t).status = t.status
         /\ t.status = "resolved" => Tick!Stamped(t).resolvedAt
         /\ t.status = "closed" => Tick!Stamped(t).closedAt
BY DEF Tick!Stamped, Tick!Ticket

LEMMA AllowedFrom ==
  ASSUME NEW s \in Tick!TicketStatus, NEW n \in Tick!Allowed[s]
  PROVE  /\ n \in Tick!TicketStatus /\ s \notin Tick!ReadOnly /\ s # "none"
         /\ n = "closed" => s = "resolved"
BY DEF Tick!Allowed, Tick!TicketStatus, Tick!Active, Tick!ReadOnly

LEMMA MovedTicket ==
  ASSUME NEW t \in Tick!Ticket, NEW s \in Tick!TicketStatus
  PROVE  /\ Tick!Moved(t, s) \in Tick!Ticket /\ Tick!Moved(t, s).status = s
         /\ s = "resolved" => Tick!Moved(t, s).resolvedAt
         /\ s = "closed" => Tick!Moved(t, s).closedAt
<1> DEFINE u == [t EXCEPT !.status = s, !.resolvedAt = @ /\ t.status # "resolved",
                          !.closedAt = @ /\ ~(t.status = "resolved" /\ s = "in_progress")]
<1>1. u \in Tick!Ticket /\ u.status = s BY DEF Tick!Ticket
<1>2. Tick!Moved(t, s) = Tick!Stamped(u) BY DEF Tick!Moved
<1> HIDE DEF u
<1> QED BY <1>1, <1>2, StampedTicket

LEMMA AssignedTicket ==
  ASSUME NEW t \in Tick!Ticket, t.status \in Tick!Active
  PROVE  Tick!Assigned(t) \in Tick!Ticket /\ Tick!Assigned(t).status \in Tick!Active
<1> DEFINE u == [t EXCEPT !.assigned = TRUE, !.status = IF t.status = "new" THEN "in_progress" ELSE @]
<1>1. u \in Tick!Ticket /\ u.status \in Tick!Active BY DEF Tick!Ticket, Tick!Active, Tick!TicketStatus
<1>2. Tick!Assigned(t) = Tick!Stamped(u) BY DEF Tick!Assigned
<1> HIDE DEF u
<1> QED BY <1>1, <1>2, StampedTicket

LEMMA NotifyStep ==
  ASSUME DeskInv, NEW events \in SUBSET Tick!Event, Tick!Notify(events)
  PROVE  NoticesGrow /\ events \subseteq notices' \cup untold'
<1>1. PICK missing \in SUBSET (events \cap Withdrawable) :
        notices' = notices \cup (events \ missing) /\ untold' = (untold \cup missing) \ notices'
  BY DEF Tick!Notify
<1> QED BY <1>1 DEF DeskInv, Tick!DeskTypeOK, NoticesGrow

LEMMA NoticesRest == ASSUME DeskInv, UNCHANGED <<notices, untold>> PROVE NoticesGrow
BY DEF DeskInv, Tick!DeskTypeOK, NoticesGrow

\* A request that ends leaves the mailbox alone; the ticket it saves has to agree.
LEMMA AnswerKeeps ==
  ASSUME DeskInv, NEW r \in Request, Tick!Answer(r), ticket' \in Tick!Ticket, Agrees(ticket)', NoticesGrow
  PROVE  DeskInv'
<1>1. Tick!NotReading \in [on : BOOLEAN, seen : Tick!Ticket] /\ Tick!NotReading.seen.status = "none"
  BY NoTicketIsTicket DEF Tick!NotReading
<1>2. request' \in [Request -> [on : BOOLEAN, seen : Tick!Ticket]]
      /\ \A q \in Request : request'[q] = request[q] \/ request'[q].seen.status = "none"
  BY <1>1 DEF Tick!Answer, DeskInv, Tick!DeskTypeOK
<1>3. \A q \in Request : Agrees(request[q].seen)'
  BY <1>2 DEF DeskInv, Agrees, NoticesGrow
<1>4. Tick!DeskTypeOK'
  BY <1>2 DEF DeskInv, Tick!DeskTypeOK, Tick!Answer, Tick!inboxVars, NoticesGrow
<1>5. \A f \in Fetcher : Agrees(fetcher[f].seen)' /\ InHand(f)'
  BY DEF DeskInv, NoticesGrow, Tick!Answer, Tick!inboxVars, Agrees, InHand
<1>6. Tick!RepliesOnce' /\ Tick!SeenIsRecorded'
  BY DEF DeskInv, Tick!Answer, Tick!inboxVars, Tick!RepliesOnce, Tick!SeenIsRecorded, Tick!InRun
<1> QED BY <1>3, <1>4, <1>5, <1>6 DEF DeskInv

LEMMA ReplyKeeps ==
  ASSUME DeskInv, NEW s \in Tick!Ticket, Tick!ReplyTo(s), UNCHANGED <<notices, untold>>
  PROVE  ticket' \in Tick!Ticket /\ Agrees(ticket)'
BY DEF DeskInv, Tick!DeskTypeOK, Tick!ReplyTo, Agrees, Tick!Ticket, Tick!TicketStatus, Tick!Active

LEMMA TransitionStep ==
  ASSUME DeskInv, NEW r \in Request, NEW s, Tick!Transition(r, s) PROVE DeskInv'
<1>1. request[r].seen \in Tick!Ticket /\ request[r].seen.status \in Tick!TicketStatus /\ Agrees(request[r].seen)
  BY DEF DeskInv, Tick!DeskTypeOK, Tick!Ticket
<1>2. /\ s \in Tick!Allowed[request[r].seen.status] /\ Tick!Answer(r) /\ ticket' = Tick!Moved(request[r].seen, s)
      /\ Tick!Notify(Tick!EventOf(request[r].seen.status, s))
  BY DEF Tick!Transition
<1>3. s \in Tick!TicketStatus /\ (s = "closed" => request[r].seen.status = "resolved")
  BY <1>1, <1>2, AllowedFrom
<1>4. NoticesGrow /\ (s = "resolved" => "ticket_resolved" \in notices' \cup untold')
  <2>1. /\ Tick!EventOf(request[r].seen.status, s) \in SUBSET Tick!Event
        /\ s = "resolved" => "ticket_resolved" \in Tick!EventOf(request[r].seen.status, s)
    BY DEF Tick!EventOf, Tick!Event
  <2> QED BY <1>2, <2>1, NotifyStep
<1>5. ticket' \in Tick!Ticket /\ Agrees(ticket)'
  BY <1>1, <1>2, <1>3, <1>4, MovedTicket DEF Agrees, NoticesGrow
<1> QED BY <1>2, <1>4, <1>5, AnswerKeeps

LEMMA ChangeStep == ASSUME DeskInv, NEW r \in Request, Tick!Change(r) PROVE DeskInv'
<1> DEFINE seen == request[r].seen
<1>1. /\ seen \in Tick!Ticket /\ Agrees(seen) /\ ticket \in Tick!Ticket /\ Agrees(ticket)
  BY DEF DeskInv, Tick!DeskTypeOK
<1>2. Tick!NewTicket \in Tick!Ticket /\ Tick!NewTicket.status = "new" /\ "new" \in Tick!Active /\ "in_progress" \in Tick!Active
  BY NoTicketIsTicket DEF Tick!NewTicket, Tick!Ticket, Tick!TicketStatus, Tick!Active
<1>3. ASSUME NEW t \in Tick!Ticket, t.status \in Tick!Active, ticket' = t PROVE Agrees(ticket)'
  BY <1>3 DEF Agrees, Tick!Active
<1> HIDE DEF seen
<1>4. CASE Tick!CreateByTechnician(r)
  <2>1. Tick!Answer(r) /\ ticket' \in {Tick!NewTicket, Tick!Assigned(Tick!NewTicket)}
        /\ (Tick!Notify({"ticket_created"}) \/ Tick!Notify({"ticket_created", "ticket_assigned"}))
    BY <1>4 DEF Tick!CreateByTechnician
  <2>2. NoticesGrow
    <3>1. {"ticket_created"} \in SUBSET Tick!Event
          /\ {"ticket_created", "ticket_assigned"} \in SUBSET Tick!Event
      BY DEF Tick!Event
    <3> QED BY <2>1, <3>1, NotifyStep
  <2> QED BY <2>1, <2>2, <1>2, <1>3, AssignedTicket, AnswerKeeps
<1>5. CASE Tick!CreateByRequester(r)
  <2>1. Tick!Answer(r) /\ ticket' = Tick!NewTicket /\ Tick!Notify({"ticket_created"})
    BY <1>5 DEF Tick!CreateByRequester
  <2>2. {"ticket_created"} \in SUBSET Tick!Event
    BY DEF Tick!Event
  <2> QED BY <2>1, <2>2, <1>2, <1>3, NotifyStep, AnswerKeeps
<1>6. CASE Tick!ChangeStatus(r) \/ Tick!Resolve(r) \/ Tick!PortalReopen(r)
  BY <1>6, TransitionStep DEF Tick!ChangeStatus, Tick!Resolve, Tick!PortalReopen
<1>7. CASE Tick!Assign(r)
  <2>1. PICK events \in SUBSET {"ticket_assigned"} : Tick!Notify(events)
    BY <1>7 DEF Tick!Assign
  <2>2. events \in SUBSET Tick!Event
    BY DEF Tick!Event
  <2>3. NoticesGrow
    BY <2>1, <2>2, NotifyStep
  <2> QED BY <1>7, <2>3, <1>1, <1>3, AssignedTicket, AnswerKeeps DEF Tick!Assign, seen
<1>8. CASE Tick!EditField(r)
  <2>1. PICK a \in {FALSE, seen.assigned} : ticket' = Tick!Stamped([seen EXCEPT !.assigned = a])
    BY <1>8 DEF Tick!EditField, seen
  <2>2. [seen EXCEPT !.assigned = a] \in Tick!Ticket /\ [seen EXCEPT !.assigned = a].status = seen.status
    BY <1>1 DEF Tick!Ticket
  <2>3. UNCHANGED <<notices, untold>> /\ Tick!Answer(r) BY <1>8 DEF Tick!EditField
  <2>4. ticket' \in Tick!Ticket /\ Agrees(ticket)'
    BY <1>1, <2>1, <2>2, <2>3, StampedTicket DEF Agrees
  <2> QED BY <2>3, <2>4, NoticesRest, AnswerKeeps
<1>9. CASE Tick!Escalate(r)
  <2>1. PICK owner \in BOOLEAN :
          ticket' = Tick!Stamped([Tick!Moved(seen, "in_progress") EXCEPT !.assigned = @ \/ owner])
    BY <1>9 DEF Tick!Escalate, seen
  <2> DEFINE t == Tick!Moved(seen, "in_progress")
  <2>2. t \in Tick!Ticket /\ t.status = "in_progress"
    BY <1>1, MovedTicket DEF Tick!TicketStatus, Tick!Active
  <2> HIDE DEF t
  <2>3. [t EXCEPT !.assigned = @ \/ owner] \in Tick!Ticket /\ [t EXCEPT !.assigned = @ \/ owner].status = "in_progress"
    BY <2>2 DEF Tick!Ticket
  <2>4. ticket' \in Tick!Ticket /\ ticket'.status = "in_progress"
    BY <2>1, <2>3, StampedTicket DEF t
  <2> QED BY <1>9, <1>2, <1>3, <2>4, NoticesRest, AnswerKeeps DEF Tick!Escalate
<1>10. CASE Tick!PortalReply(r)
  BY <1>10, <1>1, ReplyKeeps, NoticesRest, AnswerKeeps DEF Tick!PortalReply, seen
<1>11. CASE Tick!Comment(r)
  <2>1. Tick!Answer(r) /\ ticket' = ticket /\ Tick!Notify({"ticket_public_reply"})
    BY <1>11 DEF Tick!Comment
  <2>2. {"ticket_public_reply"} \in SUBSET Tick!Event
    BY DEF Tick!Event
  <2>3. NoticesGrow BY <2>1, <2>2, NotifyStep
  <2>4. Agrees(ticket)' BY <2>1, <2>3, <1>1 DEF Agrees, NoticesGrow
  <2> QED BY <2>1, <2>3, <2>4, <1>1, AnswerKeeps
<1>12. CASE Tick!NoChange(r)
  <2>1. Agrees(ticket)' BY <1>12, <1>1 DEF Tick!NoChange, Agrees
  <2> QED BY <1>12, <2>1, <1>1, NoticesRest, AnswerKeeps DEF Tick!NoChange
<1> QED BY <1>4, <1>5, <1>6, <1>7, <1>8, <1>9, <1>10, <1>11, <1>12 DEF Tick!Change

LEMMA ReadStep == ASSUME DeskInv, NEW r \in Request, Tick!Read(r) PROVE DeskInv'
<1>1. [on |-> TRUE, seen |-> ticket] \in [on : BOOLEAN, seen : Tick!Ticket]
  BY DEF DeskInv, Tick!DeskTypeOK
<1>2. Tick!DeskTypeOK'
  BY <1>1 DEF Tick!Read, DeskInv, Tick!DeskTypeOK, Tick!inboxVars, Tick!DeskAssumption
<1>3. \A q \in Request : Agrees(request[q].seen)'
  BY <1>1 DEF Tick!Read, DeskInv, Tick!DeskTypeOK, Agrees
<1>4. Agrees(ticket)' /\ Tick!RepliesOnce' /\ Tick!SeenIsRecorded' /\ \A f \in Fetcher : Agrees(fetcher[f].seen)' /\ InHand(f)'
  BY DEF Tick!Read, DeskInv, Agrees, Tick!RepliesOnce, Tick!SeenIsRecorded, Tick!InRun, InHand, Tick!inboxVars
<1> QED BY <1>2, <1>3, <1>4 DEF DeskInv

\* The run f has become the one with these parts, and no other has changed.
Ran(f, at, todo, msg, seen) ==
  /\ fetcher' \in [Fetcher -> FetcherRec]
  /\ fetcher'[f].at = at /\ fetcher'[f].todo = todo /\ fetcher'[f].msg = msg /\ fetcher'[f].seen = seen
  /\ \A g \in Fetcher \ {f} : fetcher'[g] = fetcher[g]

LEMMA RunStep ==
  ASSUME fetcher \in [Fetcher -> FetcherRec], NEW f \in Fetcher,
         NEW at, NEW todo, NEW msg, NEW seen, Tick!Run(f, at, todo, msg, seen),
         at \in {"idle", "search", "fetched", "decided", "file"},
         todo \subseteq Message, msg \subseteq Message, seen \in Tick!Ticket
  PROVE  Ran(f, at, todo, msg, seen)
<1> DEFINE rec == [at |-> at, todo |-> todo, msg |-> msg, seen |-> seen]
<1>1. rec \in FetcherRec /\ rec.at = at /\ rec.todo = todo /\ rec.msg = msg /\ rec.seen = seen
  BY DEF FetcherRec
<1>2. fetcher' = [fetcher EXCEPT ![f] = rec] BY DEF Tick!Run
<1> HIDE DEF rec
<1> QED BY <1>1, <1>2 DEF Ran

\* What is to be shown of a step of a run that leaves the ticket alone: records are not taken
\* back, and a message is let go of only when it is recorded or given up.
LEMMA FetcherStep ==
  ASSUME DeskInv, NEW f \in Fetcher, fetcher' \in [Fetcher -> FetcherRec],
         \A g \in Fetcher \ {f} : fetcher'[g] = fetcher[g],
         UNCHANGED <<notices, untold, request, deskSaves>>, ticket' \in Tick!Ticket, Agrees(ticket)',
         fetcher'[f].seen \in {Tick!NoTicket, ticket, fetcher[f].seen}, InHand(f)',
         mailbox' \in [Message -> {"unseen", "seen", "moved"}],
         record' \in [Message -> {"none", "processed", "skipped"}], replies' \in [Message -> Nat],
         \A m \in Message : record[m] # "none" => record'[m] = record[m],
         unfetched \subseteq unfetched', unfetched' \subseteq Message, deskFaults' \in 0 .. MaxDeskFaults,
         Tick!RepliesOnce',
         \A m \in Message : mailbox[m] = "unseen" /\ mailbox'[m] # "unseen" => m \in fetcher'[f].msg,
         \A m \in fetcher[f].msg : m \in fetcher'[f].msg \/ record'[m] # "none" \/ m \in unfetched'
  PROVE  DeskInv'
<1>1. Tick!DeskTypeOK'
  BY DEF DeskInv, Tick!DeskTypeOK, FetcherRec
<1>2. \A g \in Fetcher : Agrees(fetcher[g].seen)'
  BY NoTicketIsTicket DEF DeskInv, Agrees
<1>3. \A g \in Fetcher : InHand(g)'
  BY DEF DeskInv, Tick!DeskTypeOK, InHand
<1>4. \A r \in Request : Agrees(request[r].seen)'
  BY DEF DeskInv, Agrees
<1>5. Tick!SeenIsRecorded'
  <2> SUFFICES ASSUME NEW m \in Message, mailbox'[m] # "unseen", record'[m] = "none", m \notin unfetched'
               PROVE  Tick!InRun(m)'
    BY DEF Tick!SeenIsRecorded
  <2>1. CASE mailbox[m] = "unseen" BY <2>1 DEF Tick!InRun
  <2>2. CASE mailbox[m] # "unseen"
    <3>1. PICK g \in Fetcher : m \in fetcher[g].msg
      BY <2>2 DEF DeskInv, Tick!SeenIsRecorded, Tick!InRun, Tick!DeskTypeOK
    <3> QED BY <3>1 DEF Tick!InRun
  <2> QED BY <2>1, <2>2
<1> QED BY <1>1, <1>2, <1>3, <1>4, <1>5 DEF DeskInv

LEMMA FetchingStep == ASSUME DeskInv, NEW f \in Fetcher, Tick!Fetching(f) \/ Tick!FetcherDies(f) PROVE DeskInv'
<1> DEFINE run == fetcher[f]
<1>1. /\ fetcher \in [Fetcher -> FetcherRec] /\ run \in FetcherRec /\ ticket \in Tick!Ticket /\ run.seen \in Tick!Ticket /\ run.todo \in SUBSET Message
      /\ run.msg \in SUBSET Message /\ Tick!NoTicket \in Tick!Ticket /\ InHand(f) /\ Agrees(run.seen) /\ Tick!RepliesOnce
      /\ mailbox \in [Message -> {"unseen", "seen", "moved"}] /\ replies \in [Message -> Nat]
      /\ record \in [Message -> {"none", "processed", "skipped"}] /\ deskFaults \in 0 .. MaxDeskFaults
      /\ unfetched \subseteq Message /\ Tick!DeskAssumption
  BY NoTicketIsTicket DEF DeskInv, Tick!DeskTypeOK, FetcherRec
<1>2. UNCHANGED <<ticket, notices, untold>> => Agrees(ticket)'
  BY DEF DeskInv, Agrees
<1>3. record' = record /\ replies' = replies => Tick!RepliesOnce'
  BY <1>1 DEF Tick!RepliesOnce
<1>4. CASE Tick!Search(f)
  <2>1. Tick!Run(f, "search", {m \in Message : mailbox[m] = "unseen"}, {}, Tick!NoTicket) /\ run.msg = {}
    BY <1>1, <1>4 DEF Tick!Search, InHand
  <2>20. Ran(f, "search", {m \in Message : mailbox[m] = "unseen"}, {}, Tick!NoTicket) BY <2>1, <1>1, RunStep
  <2>2. InHand(f)' BY <2>20, <2>1, <1>1 DEF Ran, InHand
  <2>3. UNCHANGED <<ticket, notices, untold, request, mailbox, record, replies, unfetched, deskFaults, deskSaves>>
    BY <1>4 DEF Tick!Search
  <2> QED BY <2>20, <2>1, <2>2, <2>3, <1>1, <1>2, <1>3, FetcherStep DEF Ran
<1>5. CASE Tick!Fetch(f)
  <2>1. PICK m \in run.todo :
         IF mailbox[m] = "moved"
         THEN UNCHANGED mailbox /\ Tick!Run(f, IF run.todo \ {m} = {} THEN "idle" ELSE "search", run.todo \ {m}, {}, Tick!NoTicket)
         ELSE mailbox' = [mailbox EXCEPT ![m] = "seen"] /\ Tick!Run(f, "fetched", run.todo \ {m}, {m}, Tick!NoTicket)
    BY <1>5 DEF Tick!Fetch
  <2>2. UNCHANGED <<ticket, notices, untold, request, record, replies, unfetched, deskFaults, deskSaves>> /\ run.msg = {}
    BY <1>1, <1>5 DEF Tick!Fetch, InHand
  <2>3. CASE mailbox[m] = "moved"
    <3> DEFINE at == IF run.todo \ {m} = {} THEN "idle" ELSE "search"
    <3>1. Tick!Run(f, at, run.todo \ {m}, {}, Tick!NoTicket) /\ mailbox' = mailbox /\ at \in {"idle", "search"} BY <2>1, <2>3
    <3> HIDE DEF at
    <3>20. Ran(f, at, run.todo \ {m}, {}, Tick!NoTicket) BY <3>1, <1>1, RunStep
    <3>2. InHand(f)' BY <3>20, <3>1, <1>1 DEF Ran, InHand
    <3> QED BY <3>20, <3>1, <3>2, <2>2, <1>1, <1>2, <1>3, FetcherStep DEF Ran
  <2>4. CASE mailbox[m] # "moved"
    <3>1. Tick!Run(f, "fetched", run.todo \ {m}, {m}, Tick!NoTicket) /\ mailbox' = [mailbox EXCEPT ![m] = "seen"] /\ m \in Message
      BY <1>1, <2>1, <2>4
    <3>20. Ran(f, "fetched", run.todo \ {m}, {m}, Tick!NoTicket) BY <3>1, <1>1, RunStep
    <3>2. InHand(f)' BY <3>20, <3>1, <1>1 DEF Ran, InHand
    <3> QED BY <3>20, <3>1, <3>2, <2>2, <1>1, <1>2, <1>3, FetcherStep DEF Ran
  <2> QED BY <2>3, <2>4
<1>6. CASE Tick!Lookup(f)
  <2>1. PICK m \in run.msg :
         IF record[m] # "none" THEN Tick!Run(f, "file", run.todo, {m}, Tick!NoTicket) ELSE Tick!Run(f, "decided", run.todo, {m}, ticket)
    BY <1>6 DEF Tick!Lookup
  <2>2. UNCHANGED <<ticket, notices, untold, request, mailbox, record, replies, unfetched, deskFaults, deskSaves>>
        /\ run.msg = {m} /\ m \in Message
    BY <1>1, <1>6, <2>1 DEF Tick!Lookup, InHand
  <2>3. CASE record[m] # "none"
    <3>1. Tick!Run(f, "file", run.todo, {m}, Tick!NoTicket) BY <2>1, <2>3
    <3>20. Ran(f, "file", run.todo, {m}, Tick!NoTicket) BY <3>1, <2>2, <2>3, <1>1, RunStep
    <3>2. InHand(f)' BY <3>20, <3>1, <2>2, <2>3, <1>1 DEF Ran, InHand
    <3> QED BY <3>20, <3>1, <3>2, <2>2, <1>1, <1>2, <1>3, FetcherStep DEF Ran
  <2>4. CASE record[m] = "none"
    <3>1. Tick!Run(f, "decided", run.todo, {m}, ticket) BY <2>1, <2>4
    <3>20. Ran(f, "decided", run.todo, {m}, ticket) BY <3>1, <2>2, <2>4, <1>1, RunStep
    <3>2. InHand(f)' BY <3>20, <3>1, <2>2, <2>4, <1>1 DEF Ran, InHand
    <3> QED BY <3>20, <3>1, <3>2, <2>2, <1>1, <1>2, <1>3, FetcherStep DEF Ran
  <2> QED BY <2>3, <2>4
<1>7. CASE Tick!Process(f)
  <2>1. PICK m \in run.msg :
       /\ m \notin Foreign /\ run.seen.status \notin Tick!ReadOnly \cup {"none"}
       /\ IF record[m] # "none" THEN UNCHANGED <<ticket, record, replies>>
          ELSE /\ record' = [record EXCEPT ![m] = "processed"]
               /\ replies' = [replies EXCEPT ![m] = @ + 1]
               /\ IF run.seen.status = "resolved" THEN ticket' = Tick!Moved(run.seen, "in_progress")
                  ELSE Tick!ReplyTo(run.seen)
       /\ Tick!Run(f, "file", run.todo, {m}, Tick!NoTicket)
    BY <1>7 DEF Tick!Process
  <2>2. UNCHANGED <<request, mailbox, unfetched, notices, untold, deskFaults, deskSaves>> /\ run.msg = {m} /\ m \in Message
    BY <1>1, <1>7, <2>1 DEF Tick!Process, InHand
  <2>3. record'[m] # "none" /\ record' \in [Message -> {"none", "processed", "skipped"}]
        /\ replies' \in [Message -> Nat] /\ Tick!RepliesOnce' /\ \A n \in Message : record[n] # "none" => record'[n] = record[n]
    BY <1>1, <1>3, <2>1, <2>2 DEF Tick!RepliesOnce
  <2>20. Ran(f, "file", run.todo, {m}, Tick!NoTicket) BY <2>1, <2>2, <2>3, <1>1, RunStep
  <2>4. InHand(f)' BY <2>20, <2>1, <2>2, <2>3, <1>1 DEF Ran, InHand
  <2>5. Tick!Moved(run.seen, "in_progress") \in Tick!Ticket /\ Tick!Moved(run.seen, "in_progress").status = "in_progress"
    BY <1>1, MovedTicket DEF Tick!TicketStatus, Tick!Active
  <2>6. ticket' \in Tick!Ticket /\ Agrees(ticket)'
    <3>1. CASE ticket' = ticket BY <3>1, <1>1, <1>2, <2>2
    <3>2. CASE ticket' = Tick!Moved(run.seen, "in_progress") BY <3>2, <2>5 DEF Agrees
    <3>3. CASE Tick!ReplyTo(run.seen) BY <3>3, <1>1, <2>2, ReplyKeeps
    <3> QED BY <3>1, <3>2, <3>3, <2>1
  <2> QED BY <2>20, <2>1, <2>2, <2>3, <2>4, <2>6, <1>1, FetcherStep DEF Ran
<1>8. CASE Tick!Skip(f)
  <2>1. PICK m \in run.msg :
       IF record[m] # "none" THEN Tick!Run(f, "idle", {}, {}, Tick!NoTicket) /\ UNCHANGED record
          ELSE Tick!Run(f, "file", run.todo, {m}, Tick!NoTicket) /\ record' = [record EXCEPT ![m] = "skipped"]
    BY <1>8 DEF Tick!Skip
  <2>2. UNCHANGED <<ticket, notices, untold, request, mailbox, replies, unfetched, deskFaults, deskSaves>>
        /\ run.msg = {m} /\ m \in Message
    BY <1>1, <1>8, <2>1 DEF Tick!Skip, InHand
  <2>3. record'[m] # "none" /\ record' \in [Message -> {"none", "processed", "skipped"}] /\ Tick!RepliesOnce'
        /\ \A n \in Message : record[n] # "none" => record'[n] = record[n]
    BY <1>1, <1>3, <2>1, <2>2 DEF Tick!RepliesOnce
  <2>4. CASE record[m] # "none"
    <3>1. Tick!Run(f, "idle", {}, {}, Tick!NoTicket) BY <2>1, <2>4
    <3>20. Ran(f, "idle", {}, {}, Tick!NoTicket) BY <3>1, <1>1, RunStep
    <3>2. InHand(f)' BY <3>20, <3>1, <1>1 DEF Ran, InHand
    <3> QED BY <3>20, <3>1, <3>2, <2>2, <2>3, <1>1, <1>2, FetcherStep DEF Ran
  <2>5. CASE record[m] = "none"
    <3>1. Tick!Run(f, "file", run.todo, {m}, Tick!NoTicket) BY <2>1, <2>5
    <3>20. Ran(f, "file", run.todo, {m}, Tick!NoTicket) BY <3>1, <2>2, <2>3, <1>1, RunStep
    <3>2. InHand(f)' BY <3>20, <3>1, <2>2, <2>3, <1>1 DEF Ran, InHand
    <3> QED BY <3>20, <3>1, <3>2, <2>2, <2>3, <1>1, <1>2, FetcherStep DEF Ran
  <2> QED BY <2>4, <2>5
<1>9. CASE Tick!File(f)
  <2> DEFINE at == IF run.todo = {} THEN "idle" ELSE "search"
  <2>1. Tick!Run(f, at, run.todo, {}, Tick!NoTicket) /\ at \in {"idle", "search"}
    BY <1>9 DEF Tick!File
  <2> HIDE DEF at
  <2>20. Ran(f, at, run.todo, {}, Tick!NoTicket) BY <2>1, <1>1, RunStep
  <2>2. InHand(f)' BY <2>20, <2>1, <1>1 DEF Ran, InHand
  <2>3. /\ mailbox' = [m \in Message |-> IF m \in run.msg THEN "moved" ELSE mailbox[m]]
        /\ UNCHANGED <<ticket, notices, untold, request, record, replies, unfetched, deskFaults, deskSaves>>
        /\ \A m \in run.msg : record[m] # "none"
    BY <1>1, <1>9 DEF Tick!File, InHand
  <2>4. mailbox' \in [Message -> {"unseen", "seen", "moved"}]
    BY <1>1, <2>3
  <2>5. \A m \in Message : mailbox[m] = "unseen" => mailbox'[m] = "unseen" \/ record[m] # "none"
    BY <1>1, <2>3
  <2>6. \A m \in Message : mailbox'[m] # "unseen" => record'[m] # "none" \/ Tick!InRun(m)' \/ m \in unfetched'
    <3> SUFFICES ASSUME NEW m \in Message, mailbox'[m] # "unseen", record[m] = "none", m \notin unfetched
                 PROVE  Tick!InRun(m)'
      BY <2>3
    <3>1. mailbox[m] # "unseen" /\ m \notin run.msg BY <2>3, <2>5
    <3>2. PICK g \in Fetcher : m \in fetcher[g].msg BY <3>1 DEF DeskInv, Tick!SeenIsRecorded, Tick!InRun
    <3>3. fetcher'[g] = fetcher[g] BY <3>1, <3>2, <2>20 DEF Ran
    <3> QED BY <3>2, <3>3 DEF Tick!InRun
  <2>7. Tick!DeskTypeOK' /\ Tick!RepliesOnce' /\ \A g \in Fetcher : Agrees(fetcher[g].seen)' /\ InHand(g)'
    <3>1. /\ fetcher' \in [Fetcher -> FetcherRec] /\ fetcher'[f].seen = Tick!NoTicket
          /\ \A g \in Fetcher \ {f} : fetcher'[g] = fetcher[g]
      BY <2>20 DEF Ran
    <3>2. Tick!DeskTypeOK' BY <3>1, <2>3, <2>4 DEF DeskInv, Tick!DeskTypeOK, FetcherRec
    <3>3. \A g \in Fetcher : Agrees(fetcher[g].seen)' BY <3>1, <2>3, NoTicketIsTicket DEF DeskInv, Agrees
    <3>4. \A g \in Fetcher \ {f} : InHand(g)' BY <3>1, <2>3 DEF DeskInv, InHand
    <3> QED BY <3>2, <3>3, <3>4, <2>2, <2>3, <1>3
  <2>8. \A r \in Request : Agrees(request[r].seen)' BY <2>3 DEF DeskInv, Agrees
  <2> QED BY <1>1, <1>2, <2>3, <2>6, <2>7, <2>8 DEF DeskInv, Tick!SeenIsRecorded
<1>10. CASE Tick!FetcherDies(f)
  <2>1. Tick!Run(f, "idle", {}, {}, Tick!NoTicket) /\ unfetched' = unfetched \cup run.msg /\ deskFaults' = deskFaults + 1
        /\ deskFaults < MaxDeskFaults
        /\ UNCHANGED <<ticket, notices, untold, request, mailbox, record, replies, deskSaves>>
    BY <1>10 DEF Tick!FetcherDies
  <2>20. Ran(f, "idle", {}, {}, Tick!NoTicket) BY <2>1, <1>1, RunStep
  <2>2. InHand(f)' BY <2>20, <2>1, <1>1 DEF Ran, InHand
  <2>3. deskFaults' \in 0 .. MaxDeskFaults BY <2>1, <1>1 DEF Tick!DeskAssumption
  <2> QED BY <2>20, <2>1, <2>2, <2>3, <1>1, <1>2, <1>3, FetcherStep DEF Ran
<1> QED BY <1>4, <1>5, <1>6, <1>7, <1>8, <1>9, <1>10 DEF Tick!Fetching

LEMMA DeskStep == ASSUME DeskInv, [Tick!DeskNext]_deskV PROVE DeskInv'
<1>1. CASE UNCHANGED deskV
  BY <1>1 DEF deskV, Tick!inboxVars, DeskInv, Tick!DeskTypeOK, Agrees, InHand, Tick!RepliesOnce, Tick!SeenIsRecorded, Tick!InRun
<1> QED BY <1>1, ReadStep, ChangeStep, FetchingStep DEF Tick!DeskNext

LEMMA DeskSound == DeskInv => Tick!DeskIsSound /\ Tick!DeskTypeOK
BY DEF DeskInv, Tick!DeskIsSound, Tick!StampsAgree, Agrees

\* What changes the status of a closed ticket had read it in another status.
LEMMA ClosedTicketStays ==
  ASSUME DeskInv, [Tick!DeskNext]_deskV, ticket.status \in Tick!ReadOnly, ticket'.status # ticket.status
  PROVE  \/ \E r \in Request : request[r].on /\ ~request'[r].on /\ request[r].seen.status # ticket.status
         \/ \E f \in Fetcher : fetcher[f].at = "decided" /\ fetcher'[f].at = "file"
                                 /\ fetcher[f].seen.status # ticket.status
<1>1. ASSUME NEW r \in Request, Tick!Change(r)
      PROVE  request[r].on /\ ~request'[r].on /\ request[r].seen.status # ticket.status
  <2> DEFINE seen == request[r].seen
  <2>1. seen \in Tick!Ticket /\ seen.status \in Tick!TicketStatus /\ ticket.status # "none"
        /\ ticket.status \notin Tick!Active \cup {"resolved"}
    BY DEF DeskInv, Tick!DeskTypeOK, Tick!Ticket, Tick!ReadOnly, Tick!Active
  <2>2. Tick!Answer(r) BY <1>1 DEF Tick!Change, Tick!CreateByTechnician, Tick!CreateByRequester, Tick!ChangeStatus, Tick!Resolve, Tick!PortalReopen,
          Tick!Transition, Tick!Assign, Tick!EditField, Tick!Escalate, Tick!PortalReply, Tick!Comment, Tick!NoChange
  <2>3. request[r].on /\ ~request'[r].on
    BY <2>2 DEF Tick!Answer, Tick!NotReading, DeskInv, Tick!DeskTypeOK
  <2>4. ASSUME NEW s, Tick!Transition(r, s) PROVE seen.status # ticket.status
    BY <2>1, <2>4, AllowedFrom DEF Tick!Transition
  <2>5. CASE Tick!EditField(r)
    <3>1. PICK a \in {FALSE, seen.assigned} : ticket' = Tick!Stamped([seen EXCEPT !.assigned = a])
      BY <2>5 DEF Tick!EditField
    <3>2. [seen EXCEPT !.assigned = a] \in Tick!Ticket /\ [seen EXCEPT !.assigned = a].status = seen.status
      BY <2>1 DEF Tick!Ticket
    <3>3. ticket'.status = seen.status BY <3>1, <3>2, StampedTicket
    <3> QED BY <3>3, <2>3
  <2>6. CASE Tick!PortalReply(r)
    BY <2>6, <2>1, <2>3 DEF Tick!PortalReply, Tick!ReplyTo, Tick!Active, DeskInv, Tick!DeskTypeOK, Tick!Ticket
  <2>7. CASE Tick!CreateByTechnician(r) \/ Tick!CreateByRequester(r)
    BY <2>7, <2>1, <2>3, NoTicketIsTicket DEF Tick!CreateByTechnician, Tick!CreateByRequester
  <2>8. CASE Tick!Assign(r) \/ Tick!Escalate(r)
    BY <2>8, <2>1, <2>3 DEF Tick!Assign, Tick!Escalate
  <2>9. CASE Tick!Comment(r) \/ Tick!NoChange(r)
    BY <2>9, <2>3 DEF Tick!Comment, Tick!NoChange
  <2> QED BY <1>1, <2>3, <2>4, <2>5, <2>6, <2>7, <2>8, <2>9 DEF Tick!Change, Tick!ChangeStatus, Tick!Resolve, Tick!PortalReopen
<1>2. ASSUME NEW f \in Fetcher, Tick!Process(f)
      PROVE  fetcher[f].at = "decided" /\ fetcher'[f].at = "file" /\ fetcher[f].seen.status # ticket.status
  <2>1. fetcher[f].at = "decided" /\ fetcher'[f].at = "file" /\ fetcher[f].seen.status \notin Tick!ReadOnly
    BY <1>2 DEF Tick!Process, Tick!Run, DeskInv, Tick!DeskTypeOK
  <2> QED BY <2>1
<1>3. ASSUME ticket' # ticket
      PROVE  (\E r \in Request : Tick!Change(r)) \/ (\E f \in Fetcher : Tick!Process(f))
  BY <1>3 DEF Tick!DeskNext, Tick!Read, Tick!Fetching, Tick!Search, Tick!Fetch, Tick!Lookup, Tick!Skip, Tick!File, Tick!FetcherDies, deskV
<1> QED BY <1>1, <1>2, <1>3

-----------------------------------------------------------------------------
(* Together.                                                                *)

LEMMA MailMoves ==
  /\ Init => Mail!MailInit
  /\ [Next]_Vars => [Mail!MailNext]_mailV
BY DEF Init, Next, OthersRest, Vars

LEMMA TickMoves ==
  /\ Init => Tick!DeskInit
  /\ [Next]_Vars => [Tick!DeskNext]_deskV
BY DEF Init, Next, OthersRest, Vars

\* The strengthening holds of the composition, for every value of its constants.
THEOREM TicketsInvariant == Spec => [](MailInv /\ NoticeInv /\ DeskInv)
<1>1. Init => MailInv /\ NoticeInv /\ DeskInv
  BY ComponentsAssumption, MailMoves, TickMoves, MailInitInv, NoticeInitInv, DeskInitInv
<1>2. MailInv /\ NoticeInv /\ DeskInv /\ [Next]_Vars => (MailInv /\ NoticeInv /\ DeskInv)'
  BY MailMoves, TickMoves, MailStep, NoticeStep, DeskStep
<1> QED
  BY <1>1, <1>2, PTL DEF Spec

\* What the outbox says of a message is so: sent means the mail server accepted it,
\* twice only if there was reason to doubt the first; an event has one recent row, except
\* by requests that overlap or after a failure; and a ticket is answered once by a message,
\* has the stamps of its status, and a notice of its resolution was prepared unless no
\* template was active: however senders, operators, requests and mailbox runs interleave.
THEOREM TicketsSound == Spec => []TicketsAreSound
<1>1. MailInv /\ NoticeInv /\ DeskInv => TicketsAreSound
  BY MailSound, DeskSound DEF TicketsAreSound
<1> QED
  BY <1>1, TicketsInvariant, PTL

\* A closed or cancelled ticket changes its status only by a save of a request or of a
\* run that had read it in another status.
THEOREM ClosedTickets == Spec => Tick!ClosedTicketIsFinal
<1>1. ASSUME MailInv /\ DeskInv, [Next]_Vars
      PROVE  [(ticket.status \in Tick!ReadOnly /\ ticket'.status # ticket.status) =>
                 \/ \E r \in Request : request[r].on /\ ~request'[r].on
                                         /\ request[r].seen.status # ticket.status
                 \/ \E f \in Fetcher : fetcher[f].at = "decided" /\ fetcher'[f].at = "file"
                                         /\ fetcher[f].seen.status # ticket.status]_Tick!deskVars
  BY <1>1, TickMoves, ClosedTicketStays
<1> QED
  BY <1>1, TicketsInvariant, PTL DEF Spec, Tick!ClosedTicketIsFinal
=============================================================================
