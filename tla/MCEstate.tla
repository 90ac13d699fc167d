------------------------------ MODULE MCEstate ------------------------------
(***************************************************************************)
(* What the server knows of the estate, checked as in MCComponents: the    *)
(* computers that enroll, the removal of one, what it reports of itself,   *)
(* the alerts about it and the review of access share no state, and        *)
(* `focus` is the one that moves.                                          *)
(***************************************************************************)
EXTENDS Integers

CONSTANTS
  PC, InDomain, SpareName, LastDeployment, LinkKind, BatchUses, IssueRequest, TokenUses, MaxRuns, MaxTroubles,
  MaxOrders, Operator, Purger, Editor, OtherJob, MaxIncidents,
  HeartbeatField, MaxWishes, MaxSetbacks,
  Maintenance, MaxAlerts, MaxInventories, MaxMishaps,
  User, Group, AdminGroup, Hidden, NameOf, World, Reviewed, SeedUser, SyncGroup,
  Limit, MaxRows, MaxUploads, MaxEvents

VARIABLES
  focus,
  pc, rows, tokens, deployment, proof, late, reading, enrollToken, manualUsed, lot, reconciling, taken, spent,
  everBeat, runs, troubles,
  order, removal, lapsed, authorization, receipt, reported, others, edit, lifecycle, status, fresh, sweep, disk,
  delivered, runner, did, installing, incidents,
  clock, expired, checkpoint, saved, worker, posting, sent, column, evidence, dated, cpuDated, tried, basis, full,
  proven, received, wishes, setbacks,
  facts, latest, audits, alerts, violation, excepted, maintenance, runRow, console, calm, overlapped, revived,
  mishaps,
  world, known, members, acl, upload, run, seeded, principal, rule, current, granted, uploads, events

enrollmentV == <<pc, rows, tokens, deployment, proof, late, reading, enrollToken, manualUsed, lot, reconciling, taken,
  spent, everBeat, runs, troubles>>
removalV == <<order, removal, lapsed, authorization, receipt, reported, others, edit, lifecycle, status, fresh, sweep,
  disk, delivered, runner, did, installing, incidents>>
inventoryV == <<clock, expired, checkpoint, saved, worker, posting, sent, column, evidence, dated, cpuDated, tried, basis,
  full, proven, received, wishes, setbacks>>
alertV == <<facts, latest, audits, alerts, violation, excepted, maintenance, runRow, console, calm, overlapped,
  revived, mishaps>>
reviewV == <<world, known, members, acl, upload, run, seeded, principal, rule, current, granted, uploads, events>>

\* Values for NameOf and World: three people of whom two have the same name and one is hidden, a
\* group and Domain Admins.
Names == [i \in {1, 2, 3, 11, 12} |->
  IF i \in {1, 3} THEN "same name" ELSE IF i = 2 THEN "partner" ELSE IF i = 11 THEN "group" ELSE "admins"]
Worlds ==
  {[members |-> {<<1, 11>>, <<2, 11>>}, acl |-> {1, 11}],
   [members |-> {<<1, 11>>, <<2, 11>>, <<3, 11>>, <<3, 12>>}, acl |-> {2, 11, 12}]}

Enr == INSTANCE Enrollment
Rem == INSTANCE Removal
Inv == INSTANCE Inventory
Ale == INSTANCE Alerts
Rev == INSTANCE AccessReview

ASSUME EstateAssumption ==
  /\ Enr!EnrollmentAssumption /\ Rem!RemovalAssumption /\ Inv!InventoryAssumption /\ Ale!AlertAssumption
  /\ Rev!ReviewAssumption

Init ==
  /\ focus \in {"enrollment", "removal", "inventory", "alerts", "review"}
  /\ Enr!EnrollmentInit /\ Rem!RemovalInit /\ Inv!InventoryInit /\ Ale!AlertsInit /\ Rev!ReviewInit
  /\ focus # "enrollment" => \A p \in PC : pc[p].id = p
  /\ focus # "removal" => lifecycle = "installed"
  /\ focus # "alerts" => facts[0] = {}
  /\ focus # "review" => world = CHOOSE w \in World : TRUE

OthersRest(c) ==
  /\ focus' = focus
  /\ c # "enrollment" => UNCHANGED enrollmentV
  /\ c # "removal" => UNCHANGED removalV
  /\ c # "inventory" => UNCHANGED inventoryV
  /\ c # "alerts" => UNCHANGED alertV
  /\ c # "review" => UNCHANGED reviewV
Next ==
  \/ focus = "enrollment" /\ Enr!EnrollmentNext /\ OthersRest("enrollment")
  \/ focus = "removal" /\ Rem!RemovalNext /\ OthersRest("removal")
  \/ focus = "inventory" /\ Inv!InventoryNext /\ OthersRest("inventory")
  \/ focus = "alerts" /\ Ale!AlertsNext /\ OthersRest("alerts")
  \/ focus = "review" /\ Rev!ReviewNext /\ OthersRest("review")
Vars == <<focus, enrollmentV, removalV, inventoryV, alertV, reviewV>>

\* Of the component that moves, the fairness its module states; nothing forces a review to go on.
Step(c, A) == focus = c /\ A
Fairness ==
  /\ \A p \in PC : WF_enrollmentV(Step("enrollment", Enr!Heartbeat(p)))
  /\ \A k \in 1 .. MaxRuns + MaxTroubles : WF_enrollmentV(Step("enrollment", Enr!Reconcile(k)))
  /\ WF_removalV(Step("removal", Rem!SweepRead)) /\ WF_removalV(Step("removal", Rem!SweepSave))
  /\ WF_inventoryV(Step("inventory", Inv!Collect \/ Inv!RecordCheckpoint \/ Inv!SaveState))
  /\ WF_inventoryV(Step("inventory", Inv!ServePosted))
  /\ \A m \in Maintenance :
       /\ WF_alertV(Step("alerts", Ale!RunStep(m)))
       /\ WF_alertV(Step("alerts", ~Ale!Working(m) /\ Ale!GrowsOld(m)))
  /\ WF_alertV(Step("alerts", \E m \in Maintenance : Ale!CheckRunning(m)))
Spec == Init /\ [][Next]_Vars /\ Fairness

(* The variables of the five components have their types. *)
EstateTypeOK == Enr!EnrollmentTypeOK /\ Rem!RemovalTypeOK /\ Inv!InventoryTypeOK /\ Ale!AlertsTypeOK /\ Rev!ReviewTypeOK

(* Rows, names and credentials are unique and on one computer, links and tokens admit as many as   *)
(* they were made for, and a deployment is completed only after its own endpoint was heard from,   *)
(* however computers are cloned, renamed and installed anew (AgentEnrollView, identity.py).        *)
EnrollmentIsSound == Enr!EnrollmentIsSound

(* An endpoint is removed by one order at a time and not next to an update, only what was ordered  *)
(* and granted is deleted, and what counts as removed was removed (views.py, Uninstaller).         *)
RemovalsAreTrue ==
  Rem!OneRemoval /\ Rem!RemovalExcludesUpdate /\ Rem!RemovalIsJustified /\ Rem!RecordIsTrue

(* An order that was cancelled or has expired is not given to the agent later, and nothing takes a *)
(* removed endpoint back but an installation, or the completion of one that was removed since      *)
(* (DEPLOY.md:953 and 958; mark_machine_installed_from_deployment).                                *)
EndedRemovalsStay == Rem!NeverGivenLater /\ Rem!OnlyInstallationRevives

(* What was reported once is not forgotten, dates and checkpoints are those of readings the server *)
(* has, whatever is lost, late, partial or out of order (record_collection, record_heartbeat and   *)
(* the agent's RecordInventoryCheckpoint).                                                         *)
InventoryIsKept == Inv!InventoryIsKept

(* Alerts are not doubled unless maintenance runs overlap, and after an undisturbed run they say   *)
(* what the inventory says (run_maintenance_tasks and the four tasks it starts).                   *)
AlertsAreTrue == Ale!AlertsAreTrue

(* The page of a folder shows the imported access, tells who loses it, and shows what was granted; *)
(* principals are not doubled and a successful upload is stored (access_review.py, the importers). *)
AccessIsReviewed == Rev!AccessIsReviewed

(* Again and again the alerts agree with the inventory, no reported installation waits for a       *)
(* heartbeat, no group of the inventory is due, and an endpoint that was removed looks so: crashed, *)
(* overlapping or given up runs, lost calls and overtaken sweeps only delay it.                    *)
Unfinished ==
  \/ focus = "alerts" /\ Ale!AlertPending
  \/ focus = "enrollment" /\ \E d \in Enr!Deployment : Enr!InstallationOpen(d)
  \/ focus = "removal" /\ ~Rem!StatusSettled
  \/ focus = "inventory" /\ Inv!InventoryPending
EstateProgresses == []<>~Unfinished
=============================================================================
