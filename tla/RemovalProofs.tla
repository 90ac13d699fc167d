---------------------------- MODULE RemovalProofs ----------------------------
(***************************************************************************)
(* An endpoint is removed by one order at a time, only what was ordered is *)
(* deleted, and what the server records of it is true, for any number of   *)
(* orders, operators, unlocked requests and incidents.                     *)
(*                                                                         *)
(* Three things change independently: the order with its job, the process  *)
(* that uninstalls, and the agent on the disk.  RowsSound relates order    *)
(* and job, RunnerTells the process to what it was granted and did, and    *)
(* AgentIsGone the process to the disk; the last is why two uninstallers   *)
(* cannot meet unless a job was closed over the head of one.               *)
(***************************************************************************)
EXTENDS MCEstate, TLAPS

\* What the removal needs of its constants.
LEMMA Assumed == Rem!RemovalAssumption
BY EstateAssumption


\* An order that does not exist left no trace.
Traceless ==
  \A o \in Rem!Order : removal[o] = "none" =>
    /\ order[o].status = "none" /\ order[o].mode = "uninstall" /\ order[o].source = "panel" /\ authorization[o] = "none"
    /\ runner[o] = "none" /\ receipt[o] = "none" /\ o \notin delivered

\* An ended order's job is over.
EndsTogether == \A o \in Rem!Order : order[o].status \in Rem!Ended => removal[o] \in Rem!JobOver

\* Only the tray's orders have a token, and only who may purge has ordered one.
Authorized ==
  \A o \in Rem!Order :
    /\ authorization[o] # "none" => order[o].source = "tray"
    /\ order[o].mode = "purge" => order[o].by \in Purger /\ order[o].source = "panel"

RowsSound == Traceless /\ EndsTogether /\ Authorized

Granted(o) == IF order[o].source = "tray" THEN authorization[o] = "consumed" ELSE o \in delivered

\* Where an uninstaller is says what it was allowed and what it did.
RunnerTells ==
  \A o \in Rem!Order :
    /\ runner[o] \in {"none", "started", "authorized", "stopped"} => did[o] = "nothing"
    /\ runner[o] = "started" => order[o].source = "tray" \/ o \in delivered
    /\ runner[o] \in {"authorized", "stopped", "removed", "reporting"} => Granted(o)
    /\ runner[o] = "removed" => did[o] = "binaries"
    /\ runner[o] = "reporting" => Rem!Did(o)
    /\ receipt[o] # "none" => runner[o] \in {"failing", "done"}

\* While an uninstaller is past the point where it stops the agent, or has completed its order, there is no agent;
\* and a completion of the present installation means that its binaries are there.
AgentIsGone ==
  /\ \A o \in Rem!Order :
       runner[o] \in {"stopped", "removed", "reporting"} \/ (runner[o] \in Rem!AtWork /\ removal[o] = "completed") => disk # "whole"
  /\ \A o \in Rem!Order : runner[o] = "removed" => "present" \notin installing
  /\ "present" \in installing => disk \in {"whole", "stopped"}

RemovalInv ==
  /\ Rem!RemovalTypeOK /\ RowsSound /\ RunnerTells /\ AgentIsGone
  /\ Rem!OneRemoval /\ Rem!RemovalExcludesUpdate /\ Rem!RemovalIsJustified /\ Rem!RecordIsTrue

-----------------------------------------------------------------------------
\* What a result does to the rows, and what an unlocked save does.
SameOrder(o) == order'[o].source = order[o].source /\ order'[o].mode = order[o].mode /\ order'[o].by = order[o].by

RowTypes == /\ order \in [Rem!Order -> [status : Rem!Active \cup Rem!Ended \cup {"none", "absent"}, source : {"panel", "tray", "form"},
                                    mode : {"uninstall", "purge"}, by : Operator]]
            /\ removal \in [Rem!Order -> Rem!JobOpen \cup Rem!JobOver \cup {"none"}]
            /\ lifecycle \in Rem!Terminal \cup {"unknown", "installed"}
            /\ status \in {"online", "offline", "unknown", "uninstalled"}

Effect(o, outcome) ==
  /\ RowTypes' /\ \A p \in Rem!Order : SameOrder(p)
  /\ \A p \in Rem!Order :
       \/ order'[p].status = order[p].status /\ removal'[p] = removal[p]
       \/ /\ p = o /\ removal[o] \in Rem!JobOpen /\ removal'[o] = outcome
          /\ (order[o].status = "absent" /\ order'[o].status = "absent") \/ order'[o].status = outcome
  /\ \/ lifecycle' = lifecycle
     \/ outcome = "completed" /\ lifecycle' = IF order[o].mode = "purge" THEN "purged" ELSE "uninstalled"

LEMMA NoEffect ==
  ASSUME Rem!RemovalTypeOK, UNCHANGED <<order, removal, Rem!machine>> PROVE \A o \in Rem!Order, outcome \in {"completed", "failed"} : Effect(o, outcome)
BY DEF Rem!RemovalTypeOK, Rem!machine, Effect, RowTypes, SameOrder

LEMMA ResultTaken ==
  ASSUME Rem!RemovalTypeOK, NEW o \in Rem!Order, NEW outcome \in {"completed", "failed"}, Rem!TakeResult(o, outcome)
  PROVE  Effect(o, outcome)
<1>1. CASE removal[o] \notin Rem!JobOpen
  BY <1>1, NoEffect DEF Rem!TakeResult
<1>2. CASE removal[o] \in Rem!JobOpen
  <2> DEFINE s == IF order[o].status = "absent" THEN "absent" ELSE outcome
  <2>1. order' = [order EXCEPT ![o].status = s] /\ removal' = [removal EXCEPT ![o] = outcome]
    BY <1>2 DEF Rem!TakeResult, Rem!Accept, Rem!RemovalTypeOK
  <2>2. s \in Rem!Active \cup Rem!Ended \cup {"none", "absent"}
    BY DEF Rem!Ended
  <2>3. /\ lifecycle' \in Rem!Terminal \cup {"unknown", "installed"}
        /\ status' \in {"online", "offline", "unknown", "uninstalled"}
        /\ \/ lifecycle' = lifecycle
           \/ outcome = "completed" /\ lifecycle' = IF order[o].mode = "purge" THEN "purged" ELSE "uninstalled"
    BY <1>2 DEF Rem!TakeResult, Rem!Accept, Rem!RemovalTypeOK, Rem!machine, Rem!Terminal
  <2> HIDE DEF s
  <2>4. order' \in [Rem!Order -> [status : Rem!Active \cup Rem!Ended \cup {"none", "absent"}, source : {"panel", "tray", "form"},
                              mode : {"uninstall", "purge"}, by : Operator]]
        /\ (\A p \in Rem!Order : SameOrder(p)) /\ \A p \in Rem!Order : order'[p].status = IF p = o THEN s ELSE order[p].status
    BY <2>1, <2>2 DEF Rem!RemovalTypeOK, SameOrder
  <2>5. removal' \in [Rem!Order -> Rem!JobOpen \cup Rem!JobOver \cup {"none"}]
        /\ \A p \in Rem!Order : removal'[p] = IF p = o THEN outcome ELSE removal[p]
    BY <2>1 DEF Rem!RemovalTypeOK, Rem!JobOver
  <2> QED BY <1>2, <2>3, <2>4, <2>5 DEF s, Effect, RowTypes
<1> QED BY <1>1, <1>2

LEMMA EditSaved ==
  ASSUME Rem!RemovalTypeOK, NEW e \in Editor, Rem!SaveEdit(e)
  PROVE  /\ Rem!RemovalTypeOK' /\ UNCHANGED <<authorization, receipt, delivered, runner, did, disk, others, lifecycle, installing>>
         /\ \A p \in Rem!Order :
              order'[p].source = order[p].source /\ order'[p].mode = order[p].mode /\ order'[p].by = order[p].by
         /\ \A p \in Rem!Order :
              \/ removal'[p] = removal[p] /\ order'[p].status = order[p].status
              \/ /\ removal'[p] \in Rem!JobOver \ {"completed"}
                 /\ order'[p].status = order[p].status \/ order'[p].status \in {"cancelled", "expired"}
<1> DEFINE o == edit[e].order
<1>1. o \in Rem!Order /\ edit[e].kind \in {"none", "cancel", "fail", "expire"}
  BY DEF Rem!RemovalTypeOK
<1>2. Rem!NoEdit \in [kind : {"none", "cancel", "fail", "expire"}, order : Rem!Order]
  BY Assumed DEF Rem!NoEdit, Rem!Order, Rem!RemovalAssumption
<1>3. PICK j \in {"cancelled", "failed", "expired"}, s \in {order[o].status, "cancelled", "expired"} :
        removal' = [removal EXCEPT ![o] = j] /\ order' = [order EXCEPT ![o].status = s]
  <2>1. CASE edit[e].kind = "cancel"
    BY <2>1, <1>1 DEF Rem!SaveEdit, Rem!RemovalTypeOK
  <2>2. CASE edit[e].kind = "fail"
    <3>1. removal' = [removal EXCEPT ![o] = "failed"] /\ order' = order
      BY <2>2 DEF Rem!SaveEdit
    <3>2. order = [order EXCEPT ![o].status = order[o].status]
      BY <1>1 DEF Rem!RemovalTypeOK
    <3> QED BY <3>1, <3>2
  <2>3. CASE edit[e].kind = "expire"
    <3>1. removal' = [removal EXCEPT ![o] = "expired"]
          /\ order' = [order EXCEPT ![o].status = IF @ = "waiting_for_agent" THEN "expired" ELSE @]
      BY <2>3 DEF Rem!SaveEdit
    <3>2. order' = [order EXCEPT ![o].status = IF order[o].status = "waiting_for_agent" THEN "expired" ELSE order[o].status]
      BY <3>1
    <3> QED BY <3>1, <3>2
  <2> QED BY <1>1, <2>1, <2>2, <2>3 DEF Rem!SaveEdit
<1> HIDE DEF o
<1>4. order' \in [Rem!Order -> [status : Rem!Active \cup Rem!Ended \cup {"none", "absent"}, source : {"panel", "tray", "form"},
                            mode : {"uninstall", "purge"}, by : Operator]]
      /\ (\A p \in Rem!Order : SameOrder(p)) /\ \A p \in Rem!Order : order'[p].status = IF p = o THEN s ELSE order[p].status
  BY <1>1, <1>3 DEF Rem!RemovalTypeOK, SameOrder, Rem!Ended
<1>5. removal' \in [Rem!Order -> Rem!JobOpen \cup Rem!JobOver \cup {"none"}]
      /\ \A p \in Rem!Order : removal'[p] = IF p = o THEN j ELSE removal[p]
  BY <1>1, <1>3 DEF Rem!RemovalTypeOK, Rem!JobOver
<1>6. edit' \in [Editor -> [kind : {"none", "cancel", "fail", "expire"}, order : Rem!Order]]
  BY <1>2 DEF Rem!SaveEdit, Rem!RemovalTypeOK
<1>7. Rem!RemovalTypeOK'
  BY <1>4, <1>5, <1>6 DEF Rem!RemovalTypeOK, Rem!SaveEdit, Rem!machine, Rem!computer
<1>8. UNCHANGED <<authorization, receipt, delivered, runner, did, disk, others, lifecycle, installing>>
  BY DEF Rem!SaveEdit, Rem!machine, Rem!computer
<1>9. s = order[o].status \/ s \in {"cancelled", "expired"}
  OBVIOUS
<1> QED BY <1>1, <1>4, <1>5, <1>7, <1>8, <1>9 DEF Rem!JobOver, SameOrder

\* Of the reports, only the uninstaller's leave a receipt, and a lifecycle changes only with one.
ReportEffect(o, outcome) ==
  /\ Effect(o, outcome)
  /\ \/ receipt' = receipt /\ lifecycle' = lifecycle
     \/ receipt[o] = "none" /\ receipt' = [receipt EXCEPT ![o] = outcome]
  /\ \/ runner' = [runner EXCEPT ![o] = "done"]
     \/ runner[o] = "reporting" /\ runner' = [runner EXCEPT ![o] = "failing"]
     \/ runner[o] # "none" /\ receipt' = receipt /\ runner' = runner
  /\ incidents' \in 0 .. MaxIncidents
  /\ UNCHANGED <<lapsed, authorization, reported, others, edit, fresh, sweep, disk, delivered, did, installing>>

LEMMA Reports ==
  ASSUME Rem!RemovalTypeOK, NEW o \in Rem!Order
  PROVE  /\ Rem!ReportFailure(o) => ReportEffect(o, "failed") /\ receipt' = receipt /\ (runner[o] = "none" \/ runner' = runner)
         /\ Rem!ReportSuccess(o) => ReportEffect(o, "completed") /\ runner[o] = "reporting" /\ runner'[o] \in {"done", "failing"}
         /\ Rem!ReportRunnerFailure(o) => ReportEffect(o, "failed") /\ runner[o] = "failing" /\ runner'[o] = "done"
<1> USE Assumed DEF Rem!RemovalAssumption
<1>1. ASSUME Rem!Incident PROVE incidents' \in 0 .. MaxIncidents
  BY <1>1 DEF Rem!Incident, Rem!RemovalTypeOK
<1>2. ASSUME NEW outcome \in {"completed", "failed"}, Rem!Receive(o, outcome)
      PROVE  /\ Effect(o, outcome)
             /\ \/ receipt' = receipt /\ lifecycle' = lifecycle
                \/ receipt[o] = "none" /\ receipt' = [receipt EXCEPT ![o] = outcome]
  BY <1>2, NoEffect, ResultTaken DEF Rem!Receive, Rem!machine
<1>3. ASSUME Rem!ReportFailure(o)
      PROVE  ReportEffect(o, "failed") /\ receipt' = receipt /\ (runner[o] = "none" \/ runner' = runner)
  <2>1. Effect(o, "failed") /\ lifecycle' = lifecycle
    BY <1>3, ResultTaken DEF Rem!ReportFailure, Effect
  <2>2. \/ runner' = [runner EXCEPT ![o] = "done"] /\ runner[o] = "none"
        \/ runner' = runner /\ runner[o] # "none"
    <3>1. runner' = [runner EXCEPT ![o] = IF runner[o] = "none" THEN "done" ELSE runner[o]]
      BY <1>3 DEF Rem!ReportFailure
    <3>2. runner = [runner EXCEPT ![o] = runner[o]]
      BY DEF Rem!RemovalTypeOK
    <3>3. CASE runner[o] = "none"
      BY <3>1, <3>3
    <3>4. CASE runner[o] # "none"
      BY <3>1, <3>2, <3>4
    <3> QED BY <3>3, <3>4
  <2> QED BY <1>1, <1>3, <2>1, <2>2 DEF Rem!ReportFailure, ReportEffect
<1>4. ASSUME Rem!ReportSuccess(o)
      PROVE  ReportEffect(o, "completed") /\ runner[o] = "reporting" /\ runner'[o] \in {"done", "failing"}
  <2>1. incidents' \in 0 .. MaxIncidents
    BY <1>1, <1>4 DEF Rem!ReportSuccess, Rem!RemovalTypeOK
  <2>2. /\ Effect(o, "completed")
        /\ \/ receipt' = receipt /\ lifecycle' = lifecycle
           \/ receipt[o] = "none" /\ receipt' = [receipt EXCEPT ![o] = "completed"]
    BY <1>2, <1>4, NoEffect DEF Rem!ReportSuccess, Rem!machine
  <2>3. /\ runner[o] = "reporting"
        /\ runner' = [runner EXCEPT ![o] = "done"] \/ runner' = [runner EXCEPT ![o] = "failing"]
    BY <1>4 DEF Rem!ReportSuccess, Rem!Move
  <2> QED BY <1>4, <2>1, <2>2, <2>3 DEF Rem!ReportSuccess, ReportEffect, Rem!RemovalTypeOK
<1>5. ASSUME Rem!ReportRunnerFailure(o)
      PROVE  ReportEffect(o, "failed") /\ runner[o] = "failing" /\ runner'[o] = "done"
  <2>1. incidents' \in 0 .. MaxIncidents
    BY <1>1, <1>5 DEF Rem!ReportRunnerFailure, Rem!RemovalTypeOK
  <2>2. /\ Effect(o, "failed")
        /\ \/ receipt' = receipt /\ lifecycle' = lifecycle
           \/ receipt[o] = "none" /\ receipt' = [receipt EXCEPT ![o] = "failed"]
    BY <1>2, <1>5, NoEffect DEF Rem!ReportRunnerFailure, Rem!machine
  <2> QED BY <1>5, <2>1, <2>2 DEF Rem!ReportRunnerFailure, ReportEffect, Rem!RemovalTypeOK, Rem!Move
<1> QED BY <1>3, <1>4, <1>5
LEMMA ReportTypes ==
  ASSUME Rem!RemovalTypeOK, NEW o \in Rem!Order, NEW outcome \in {"completed", "failed"}, ReportEffect(o, outcome)
  PROVE  Rem!RemovalTypeOK'
<1>1. receipt' \in [Rem!Order -> {"none", "completed", "failed"}]
  BY DEF ReportEffect, Rem!RemovalTypeOK
<1>2. runner' \in [Rem!Order -> Rem!AtWork \cup {"none", "done"}]
  BY DEF ReportEffect, Rem!RemovalTypeOK, Rem!AtWork
<1> QED BY <1>1, <1>2 DEF ReportEffect, Effect, RowTypes, Rem!RemovalTypeOK

\* The rows after a report, without the machinery of the report.
LEMMA ReportRows ==
  ASSUME Rem!RemovalTypeOK, NEW o \in Rem!Order, NEW outcome \in {"completed", "failed"}, ReportEffect(o, outcome)
  PROVE  \A p \in Rem!Order :
           /\ order'[p].source = order[p].source /\ order'[p].mode = order[p].mode /\ order'[p].by = order[p].by
           /\ \/ order'[p].status = order[p].status /\ removal'[p] = removal[p]
              \/ /\ p = o /\ removal[o] \in Rem!JobOpen /\ removal'[o] = outcome
                 /\ (order[o].status = "absent" /\ order'[o].status = "absent") \/ order'[o].status = outcome
           /\ receipt'[p] = receipt[p] \/ (p = o /\ receipt[o] = "none" /\ receipt'[o] = outcome)
           /\ \/ runner'[p] = runner[p]
              \/ p = o /\ runner'[o] = "done"
              \/ p = o /\ runner[o] = "reporting" /\ runner'[o] = "failing"
BY DEF ReportEffect, Effect, SameOrder, Rem!RemovalTypeOK
LEMMA ReportStep ==
  ASSUME Rem!RemovalTypeOK, NEW o \in Rem!Order, Rem!ReportFailure(o) \/ Rem!ReportSuccess(o) \/ Rem!ReportRunnerFailure(o)
  PROVE  /\ UNCHANGED <<authorization, delivered, did, disk, others, installing>>
         /\ \E outcome \in {"completed", "failed"} :
              /\ outcome = "completed" => runner[o] = "reporting"
              /\ runner[o] # "none" \/ o \in delivered
              /\ \A p \in Rem!Order :
                   /\ order'[p].source = order[p].source /\ order'[p].mode = order[p].mode /\ order'[p].by = order[p].by
                   /\ \/ order'[p].status = order[p].status /\ removal'[p] = removal[p]
                      \/ /\ p = o /\ removal[o] \in Rem!JobOpen /\ removal'[o] = outcome
                         /\ order'[o].status \in {"absent", outcome}
                   /\ \/ receipt'[p] = receipt[p]
                      \/ /\ p = o /\ receipt[o] = "none" /\ receipt'[o] = outcome
                         /\ runner'[o] \in {"done", "failing"}
                   /\ \/ runner'[p] = runner[p]
                      \/ p = o /\ runner'[o] = "done"
                      \/ p = o /\ runner[o] = "reporting" /\ runner'[o] = "failing"
              /\ \/ lifecycle' = lifecycle
                 \/ /\ outcome = "completed" /\ receipt'[o] = "completed"
                    /\ lifecycle' = IF order[o].mode = "purge" THEN "purged" ELSE "uninstalled"
<1>1. PICK outcome \in {"completed", "failed"} :
        /\ ReportEffect(o, outcome)
        /\ outcome = "completed" => runner[o] = "reporting"
        /\ runner[o] # "none" \/ o \in delivered
        /\ receipt' = receipt \/ runner'[o] \in {"done", "failing"}
  BY Reports DEF Rem!ReportFailure
<1>2. receipt[o] = "none" /\ receipt' = [receipt EXCEPT ![o] = outcome] => receipt'[o] = outcome
  BY DEF Rem!RemovalTypeOK
<1>3. \/ lifecycle' = lifecycle
      \/ /\ outcome = "completed" /\ receipt'[o] = "completed"
         /\ lifecycle' = IF order[o].mode = "purge" THEN "purged" ELSE "uninstalled"
  BY <1>1, <1>2 DEF ReportEffect, Effect
<1>4. \A p \in Rem!Order : receipt'[p] = receipt[p] \/ (p = o /\ receipt[o] = "none" /\ receipt'[o] = outcome /\ runner'[o] \in {"done", "failing"})
  BY <1>1, <1>2, ReportRows
<1>5. UNCHANGED <<authorization, delivered, did, disk, others, installing>>
  BY <1>1 DEF ReportEffect
<1> QED BY <1>1, <1>3, <1>4, <1>5, ReportRows
LEMMA Pulled ==
  ASSUME Rem!RemovalTypeOK, NEW o \in Rem!Order, Rem!Pull(o)
  PROVE  /\ Rem!RemovalTypeOK'
         /\ UNCHANGED <<authorization, receipt, runner, did, disk, others, lifecycle, installing>>
         /\ removal[o] \in {"queued", "sent"} /\ removal'[o] = "sent"
         /\ delivered \subseteq delivered' /\ delivered' \subseteq delivered \cup {o}
         /\ \A p \in Rem!Order :
              /\ order'[p].source = order[p].source /\ order'[p].mode = order[p].mode /\ order'[p].by = order[p].by
              /\ p # o => removal'[p] = removal[p]
              /\ \/ order'[p].status = order[p].status
                 \/ p = o /\ order[o].status = "waiting_for_agent" /\ order'[o].status = "dispatched"
<1> DEFINE s == IF order[o].status = "waiting_for_agent" THEN "dispatched" ELSE order[o].status
<1>1. order' = [order EXCEPT ![o].status = s]
  BY DEF Rem!Pull
<1>2. s \in Rem!Active \cup Rem!Ended \cup {"none", "absent"}
  BY DEF Rem!RemovalTypeOK, Rem!Active
<1>3. s = order[o].status \/ (order[o].status = "waiting_for_agent" /\ s = "dispatched")
  OBVIOUS
<1> HIDE DEF s
<1>4. /\ order' \in [Rem!Order -> [status : Rem!Active \cup Rem!Ended \cup {"none", "absent"}, source : {"panel", "tray", "form"},
                               mode : {"uninstall", "purge"}, by : Operator]]
      /\ \A p \in Rem!Order :
           /\ order'[p].source = order[p].source /\ order'[p].mode = order[p].mode /\ order'[p].by = order[p].by
           /\ order'[p].status = IF p = o THEN s ELSE order[p].status
  BY <1>1, <1>2 DEF Rem!RemovalTypeOK
<1>5. /\ removal' \in [Rem!Order -> Rem!JobOpen \cup Rem!JobOver \cup {"none"}]
      /\ \A p \in Rem!Order : removal'[p] = IF p = o THEN "sent" ELSE removal[p]
  BY DEF Rem!Pull, Rem!RemovalTypeOK, Rem!JobOpen
<1>6. incidents' \in 0 .. MaxIncidents
  BY Assumed DEF Rem!Pull, Rem!Incident, Rem!RemovalTypeOK, Rem!RemovalAssumption
<1>7. Rem!RemovalTypeOK'
  BY <1>4, <1>5, <1>6 DEF Rem!RemovalTypeOK, Rem!Pull, Rem!machine
<1> QED BY <1>3, <1>4, <1>5, <1>7 DEF Rem!Pull, Rem!machine

LEMMA Created ==
  ASSUME Rem!RemovalTypeOK, NEW o \in Rem!Order, NEW u \in Operator, NEW mode \in {"uninstall", "purge"}, NEW source, NEW s, NEW j,
         Rem!Create(o, source, mode, u, s, j)
  PROVE  /\ removal[o] = "none" /\ Rem!OpenRemovals = {}
         /\ \A p \in Rem!Order : /\ order'[p].status = IF p = o THEN s ELSE order[p].status
                             /\ removal'[p] = IF p = o THEN j ELSE removal[p]
BY DEF Rem!Create, Rem!RemovalTypeOK-----------------------------------------------------------------------------
\* Steps that touch no order, job, authorization, receipt or uninstaller.
Quiet == UNCHANGED <<order, removal, authorization, receipt, delivered, runner, did>>

LEMMA QuietSteps ==
  /\ \A k \in OtherJob : Rem!CreateOther(k) \/ Rem!EndOther(k) => Quiet /\ UNCHANGED <<disk, lifecycle, installing>>
  /\ \A o \in Rem!Order : Rem!Lapse(o) => Quiet /\ UNCHANGED <<disk, lifecycle, installing>>
  /\ \A o \in Rem!Order, e \in Editor, kind \in {"cancel", "fail", "expire"} :
       Rem!ReadToEdit(e, kind, o) => Quiet /\ UNCHANGED <<disk, lifecycle, installing>>
  /\ Rem!Heartbeat \/ Rem!SweepRead \/ Rem!SweepSave \/ Rem!GrowsStale => Quiet /\ UNCHANGED <<disk, lifecycle, installing>>
  /\ Rem!ReconcileLegacy \/ Rem!ConfirmInstall =>
       Quiet /\ UNCHANGED disk /\ lifecycle' = "installed" /\ installing' \subseteq installing
  /\ Rem!InstallAnew => Quiet /\ UNCHANGED lifecycle
  /\ UNCHANGED removalV => Quiet /\ UNCHANGED <<disk, lifecycle, installing>>
BY DEF Quiet, Rem!CreateOther, Rem!EndOther, Rem!Lapse, Rem!ReadToEdit, Rem!Heartbeat, Rem!SweepRead, Rem!SweepSave, Rem!GrowsStale, Rem!ReconcileLegacy,
       Rem!ConfirmInstall, Rem!InstallAnew, removalV, Rem!rows, Rem!machine, Rem!computer

\* Types are kept.
LEMMA TypeStep ==
  ASSUME Rem!RemovalTypeOK, [Rem!RemovalNext]_removalV
  PROVE  Rem!RemovalTypeOK'
<1> USE Assumed DEF Rem!RemovalAssumption, Rem!Order, Rem!Active, Rem!Ended, Rem!JobOpen, Rem!JobOver, Rem!Terminal, Rem!AtWork, Rem!NoOrder, Rem!NoEdit,
      Rem!rows, Rem!machine, Rem!computer, Rem!RemovalTypeOK
<1>1. ASSUME NEW o \in Rem!Order, NEW u \in Operator, NEW mode \in {"uninstall", "purge"}, Rem!OrderOnPanel(o, mode, u) PROVE Rem!RemovalTypeOK'
  BY <1>1 DEF Rem!OrderOnPanel, Rem!Create, Rem!MayRemove, Rem!ActiveOrders, Rem!OpenRemovals
<1>2. ASSUME NEW o \in Rem!Order, NEW u \in Operator, Rem!AuthorizeAtTray(o, u) PROVE Rem!RemovalTypeOK'
  BY <1>2 DEF Rem!AuthorizeAtTray, Rem!Create, Rem!ActiveOrders, Rem!OpenRemovals
<1>3. ASSUME NEW o \in Rem!Order, NEW u \in Operator, Rem!OrderAsJob(o, u) PROVE Rem!RemovalTypeOK'
  BY <1>3 DEF Rem!OrderAsJob, Rem!Create, Rem!OpenRemovals
<1>4. ASSUME NEW k \in OtherJob, Rem!CreateOther(k) PROVE Rem!RemovalTypeOK'
  BY <1>4 DEF Rem!CreateOther, Rem!OpenRemovals
<1>5. ASSUME NEW k \in OtherJob, Rem!EndOther(k) PROVE Rem!RemovalTypeOK'
  BY <1>5 DEF Rem!EndOther
<1>6. ASSUME NEW o \in Rem!Order, Rem!Lapse(o) PROVE Rem!RemovalTypeOK'
  BY <1>6 DEF Rem!Lapse
<1>7. ASSUME NEW o \in Rem!Order, Rem!Pull(o) PROVE Rem!RemovalTypeOK'
  BY <1>7, Pulled
<1>8. ASSUME NEW o \in Rem!Order, Rem!StartRunner(o) PROVE Rem!RemovalTypeOK'
  BY <1>8 DEF Rem!StartRunner
<1>9. ASSUME NEW o \in Rem!Order, Rem!StartAtTray(o) PROVE Rem!RemovalTypeOK'
  BY <1>9 DEF Rem!StartAtTray
<1>10. ASSUME NEW o \in Rem!Order, Rem!ReportRunning(o) PROVE Rem!RemovalTypeOK'
  BY <1>10 DEF Rem!ReportRunning
<1>11. ASSUME NEW o \in Rem!Order, Rem!ReportFailure(o) PROVE Rem!RemovalTypeOK'
  BY <1>11, Reports, ReportTypes
<1>12. ASSUME NEW o \in Rem!Order, Rem!ConsumeAuthorization(o) PROVE Rem!RemovalTypeOK'
  <2>1. incidents' \in 0 .. MaxIncidents
    BY <1>12 DEF Rem!ConsumeAuthorization, Rem!Incident
  <2>2. authorization' \in [Rem!Order -> {"none", "active", "consumed", "expired"}]
    BY <1>12 DEF Rem!ConsumeAuthorization
  <2>3. runner' \in [Rem!Order -> Rem!AtWork \cup {"none", "done"}]
    BY <1>12 DEF Rem!ConsumeAuthorization, Rem!Move
  <2> QED BY <1>12, <2>1, <2>2, <2>3 DEF Rem!ConsumeAuthorization
<1>13. ASSUME NEW o \in Rem!Order, Rem!StopAgent(o) PROVE Rem!RemovalTypeOK'
  BY <1>13 DEF Rem!StopAgent, Rem!Move
<1>14. ASSUME NEW o \in Rem!Order, Rem!RemoveBinaries(o) PROVE Rem!RemovalTypeOK'
  BY <1>14 DEF Rem!RemoveBinaries, Rem!Move
<1>15. ASSUME NEW o \in Rem!Order, Rem!FinishRemoval(o) PROVE Rem!RemovalTypeOK'
  BY <1>15 DEF Rem!FinishRemoval, Rem!Move
<1>16. ASSUME NEW o \in Rem!Order, Rem!RunnerFails(o) PROVE Rem!RemovalTypeOK'
  BY <1>16 DEF Rem!RunnerFails, Rem!Incident
<1>17. ASSUME NEW o \in Rem!Order, Rem!RunnerDies(o) PROVE Rem!RemovalTypeOK'
  BY <1>17 DEF Rem!RunnerDies, Rem!Incident
<1>18. ASSUME NEW o \in Rem!Order, Rem!ReportSuccess(o) PROVE Rem!RemovalTypeOK'
  BY <1>18, Reports, ReportTypes
<1>19. ASSUME NEW o \in Rem!Order, Rem!ReportRunnerFailure(o) PROVE Rem!RemovalTypeOK'
  BY <1>19, Reports, ReportTypes
<1>20. ASSUME NEW o \in Rem!Order, Rem!TimeOut(o) PROVE Rem!RemovalTypeOK'
  BY <1>20 DEF Rem!TimeOut
<1>21. ASSUME NEW o \in Rem!Order, NEW e \in Editor, NEW kind \in {"cancel", "fail", "expire"}, Rem!ReadToEdit(e, kind, o) PROVE Rem!RemovalTypeOK'
  BY <1>21 DEF Rem!ReadToEdit, Rem!Incident
<1>22. ASSUME NEW e \in Editor, Rem!SaveEdit(e) PROVE Rem!RemovalTypeOK'
  BY <1>22, EditSaved
<1>23. ASSUME Rem!Heartbeat PROVE Rem!RemovalTypeOK'
  BY <1>23 DEF Rem!Heartbeat
<1>24. ASSUME Rem!SweepRead PROVE Rem!RemovalTypeOK'
  BY <1>24 DEF Rem!SweepRead, Rem!StatusFor
<1>25. ASSUME Rem!SweepSave PROVE Rem!RemovalTypeOK'
  BY <1>25 DEF Rem!SweepSave
<1>26. ASSUME Rem!GrowsStale PROVE Rem!RemovalTypeOK'
  <2>1. incidents' \in 0 .. MaxIncidents
    BY <1>26 DEF Rem!GrowsStale, Rem!Incident
  <2>2. UNCHANGED <<Rem!rows, edit, Rem!machine, sweep, Rem!computer>> /\ fresh' = FALSE
    BY <1>26 DEF Rem!GrowsStale
  <2> QED BY <2>1, <2>2
<1>27. ASSUME Rem!ReconcileLegacy PROVE Rem!RemovalTypeOK'
  BY <1>27 DEF Rem!ReconcileLegacy
<1>28. ASSUME Rem!InstallAnew PROVE Rem!RemovalTypeOK'
  BY <1>28 DEF Rem!InstallAnew, Rem!Incident
<1>29. ASSUME Rem!ConfirmInstall PROVE Rem!RemovalTypeOK'
  BY <1>29 DEF Rem!ConfirmInstall
<1>30. CASE UNCHANGED removalV
  BY <1>30 DEF removalV
<1> HIDE DEF Rem!RemovalAssumption, Rem!Order, Rem!Active, Rem!Ended, Rem!JobOpen, Rem!JobOver, Rem!Terminal, Rem!AtWork, Rem!NoOrder, Rem!NoEdit,
      Rem!rows, Rem!machine, Rem!computer, Rem!RemovalTypeOK
<1> QED
  BY <1>1, <1>2, <1>3, <1>4, <1>5, <1>6, <1>7, <1>8, <1>9, <1>10, <1>11, <1>12, <1>13, <1>14, <1>15,
     <1>16, <1>17, <1>18, <1>19, <1>20, <1>21, <1>22, <1>23, <1>24, <1>25, <1>26, <1>27, <1>28, <1>29,
     <1>30 DEF Rem!RemovalNext

\* Orders and their jobs begin together and end together.
LEMMA RowsStep ==
  ASSUME RemovalInv, [Rem!RemovalNext]_removalV
  PROVE  RowsSound'
<1> USE Assumed DEF Rem!RemovalAssumption, Rem!Order, Rem!Active, Rem!Ended, Rem!JobOpen, Rem!JobOver, Rem!Terminal, Rem!AtWork, Rem!NoOrder, Rem!NoEdit,
      Rem!rows, Rem!machine, Rem!computer, RemovalInv, RowsSound, Traceless, EndsTogether, Authorized
<1>1. ASSUME NEW o \in Rem!Order, NEW u \in Operator, NEW mode \in {"uninstall", "purge"}, Rem!OrderOnPanel(o, mode, u) PROVE RowsSound'
  BY <1>1 DEF Rem!OrderOnPanel, Rem!Create, Rem!MayRemove, Rem!ActiveOrders, Rem!OpenRemovals, Rem!RemovalTypeOK
<1>2. ASSUME NEW o \in Rem!Order, NEW u \in Operator, Rem!AuthorizeAtTray(o, u) PROVE RowsSound'
  BY <1>2 DEF Rem!AuthorizeAtTray, Rem!Create, Rem!ActiveOrders, Rem!OpenRemovals, Rem!RemovalTypeOK
<1>3. ASSUME NEW o \in Rem!Order, NEW u \in Operator, Rem!OrderAsJob(o, u) PROVE RowsSound'
  BY <1>3 DEF Rem!OrderAsJob, Rem!Create, Rem!OpenRemovals, Rem!RemovalTypeOK
<1>4. ASSUME NEW o \in Rem!Order, Rem!Pull(o) PROVE RowsSound'
  BY <1>4, Pulled
<1>5. ASSUME NEW o \in Rem!Order, Rem!StartRunner(o) PROVE RowsSound'
  BY <1>5 DEF Rem!StartRunner, Rem!RemovalTypeOK
<1>6. ASSUME NEW o \in Rem!Order, Rem!StartAtTray(o) PROVE RowsSound'
  BY <1>6 DEF Rem!StartAtTray, Rem!RemovalTypeOK
<1>7. ASSUME NEW o \in Rem!Order, Rem!ReportRunning(o) PROVE RowsSound'
  BY <1>7 DEF Rem!ReportRunning, Rem!RemovalTypeOK
<1>8. ASSUME NEW o \in Rem!Order, Rem!ReportFailure(o) PROVE RowsSound'
  BY <1>8, ReportStep
<1>9. ASSUME NEW o \in Rem!Order, Rem!ConsumeAuthorization(o) PROVE RowsSound'
  BY <1>9 DEF Rem!ConsumeAuthorization, Rem!Move, Rem!Incident, Rem!RemovalTypeOK
<1>10. ASSUME NEW o \in Rem!Order, Rem!StopAgent(o) PROVE RowsSound'
  BY <1>10 DEF Rem!StopAgent, Rem!Move, Rem!RemovalTypeOK
<1>11. ASSUME NEW o \in Rem!Order, Rem!RemoveBinaries(o) PROVE RowsSound'
  BY <1>11 DEF Rem!RemoveBinaries, Rem!Move, Rem!RemovalTypeOK
<1>12. ASSUME NEW o \in Rem!Order, Rem!FinishRemoval(o) PROVE RowsSound'
  BY <1>12 DEF Rem!FinishRemoval, Rem!Move, Rem!RemovalTypeOK
<1>13. ASSUME NEW o \in Rem!Order, Rem!RunnerFails(o) PROVE RowsSound'
  BY <1>13 DEF Rem!RunnerFails, Rem!Incident, Rem!RemovalTypeOK
<1>14. ASSUME NEW o \in Rem!Order, Rem!RunnerDies(o) PROVE RowsSound'
  BY <1>14 DEF Rem!RunnerDies, Rem!Incident, Rem!RemovalTypeOK
<1>15. ASSUME NEW o \in Rem!Order, Rem!ReportSuccess(o) PROVE RowsSound'
  BY <1>15, ReportStep
<1>16. ASSUME NEW o \in Rem!Order, Rem!ReportRunnerFailure(o) PROVE RowsSound'
  BY <1>16, ReportStep
<1>17. ASSUME NEW o \in Rem!Order, Rem!TimeOut(o) PROVE RowsSound'
  BY <1>17 DEF Rem!TimeOut, Rem!RemovalTypeOK
<1>18. ASSUME NEW e \in Editor, Rem!SaveEdit(e) PROVE RowsSound'
  BY <1>18, EditSaved
<1>19. CASE Quiet
  BY <1>19 DEF Quiet
<1> HIDE DEF Rem!RemovalAssumption, Rem!Order, Rem!Active, Rem!Ended, Rem!JobOpen, Rem!JobOver, Rem!Terminal, Rem!AtWork, Rem!NoOrder, Rem!NoEdit,
      Rem!rows, Rem!machine, Rem!computer, RemovalInv, RowsSound, Traceless, EndsTogether, Authorized
<1> QED
  BY <1>1, <1>2, <1>3, <1>4, <1>5, <1>6, <1>7, <1>8, <1>9, <1>10, <1>11, <1>12, <1>13, <1>14, <1>15,
     <1>16, <1>17, <1>18, <1>19, QuietSteps DEF Rem!RemovalNext

\* An uninstaller goes on only as it was allowed, and what it did is known from where it is.
LEMMA RunnerStep ==
  ASSUME RemovalInv, RowsSound', [Rem!RemovalNext]_removalV
  PROVE  RunnerTells'
<1> USE Assumed DEF Rem!RemovalAssumption, Rem!Order, Rem!Active, Rem!Ended, Rem!JobOpen, Rem!JobOver, Rem!Terminal, Rem!AtWork, Rem!NoOrder, Rem!NoEdit,
      Rem!rows, Rem!machine, Rem!computer, RemovalInv, RowsSound, Traceless, Authorized, RunnerTells, Granted, Rem!Did
<1>1. ASSUME NEW o \in Rem!Order, NEW u \in Operator, NEW mode \in {"uninstall", "purge"}, Rem!OrderOnPanel(o, mode, u) PROVE RunnerTells'
  BY <1>1 DEF Rem!OrderOnPanel, Rem!Create, Rem!MayRemove, Rem!ActiveOrders, Rem!OpenRemovals, Rem!RemovalTypeOK
<1>2. ASSUME NEW o \in Rem!Order, NEW u \in Operator, Rem!AuthorizeAtTray(o, u) PROVE RunnerTells'
  BY <1>2 DEF Rem!AuthorizeAtTray, Rem!Create, Rem!ActiveOrders, Rem!OpenRemovals, Rem!RemovalTypeOK
<1>3. ASSUME NEW o \in Rem!Order, NEW u \in Operator, Rem!OrderAsJob(o, u) PROVE RunnerTells'
  BY <1>3 DEF Rem!OrderAsJob, Rem!Create, Rem!OpenRemovals, Rem!RemovalTypeOK
<1>4. ASSUME NEW o \in Rem!Order, Rem!Pull(o) PROVE RunnerTells'
  BY <1>4, Pulled
<1>5. ASSUME NEW o \in Rem!Order, Rem!StartRunner(o) PROVE RunnerTells'
  <2>1. /\ o \in delivered /\ runner[o] = "none" /\ runner' = [runner EXCEPT ![o] = "started"]
        /\ UNCHANGED <<order, authorization, receipt, delivered, did>>
    BY <1>5 DEF Rem!StartRunner
  <2>2. did[o] = "nothing" /\ receipt[o] = "none"
    BY <2>1
  <2>3. \A p \in Rem!Order : runner'[p] = IF p = o THEN "started" ELSE runner[p]
    BY <2>1 DEF Rem!RemovalTypeOK
  <2> QED BY <2>1, <2>2, <2>3
<1>6. ASSUME NEW o \in Rem!Order, Rem!StartAtTray(o) PROVE RunnerTells'
  BY <1>6 DEF Rem!StartAtTray, Rem!RemovalTypeOK
<1>7. ASSUME NEW o \in Rem!Order, Rem!ReportRunning(o) PROVE RunnerTells'
  BY <1>7 DEF Rem!ReportRunning, Rem!RemovalTypeOK
<1>8. ASSUME NEW o \in Rem!Order, Rem!ReportFailure(o) PROVE RunnerTells'
  BY <1>8, ReportStep
<1>9. ASSUME NEW o \in Rem!Order, Rem!ConsumeAuthorization(o) PROVE RunnerTells'
  <2>1. /\ runner[o] = "started" /\ runner'[o] \in {"authorized", "failing"}
        /\ \A p \in Rem!Order : p # o => runner'[p] = runner[p] /\ authorization'[p] = authorization[p]
        /\ UNCHANGED <<order, delivered, did, receipt>>
    BY <1>9 DEF Rem!ConsumeAuthorization, Rem!Move, Rem!RemovalTypeOK
  <2>2. runner'[o] = "authorized" /\ order[o].source = "tray" => authorization'[o] = "consumed"
    BY <1>9 DEF Rem!ConsumeAuthorization, Rem!Move, Rem!RemovalTypeOK
  <2> QED BY <2>1, <2>2
<1>10. ASSUME NEW o \in Rem!Order, Rem!StopAgent(o) PROVE RunnerTells'
  BY <1>10 DEF Rem!StopAgent, Rem!Move, Rem!RemovalTypeOK
<1>11. ASSUME NEW o \in Rem!Order, Rem!RemoveBinaries(o) PROVE RunnerTells'
  BY <1>11 DEF Rem!RemoveBinaries, Rem!Move, Rem!RemovalTypeOK
<1>12. ASSUME NEW o \in Rem!Order, Rem!FinishRemoval(o) PROVE RunnerTells'
  <2>1. /\ runner[o] = "removed" /\ runner'[o] = "reporting"
        /\ did'[o] = IF order[o].mode = "purge" THEN "all" ELSE did[o]
        /\ \A p \in Rem!Order : p # o => runner'[p] = runner[p] /\ did'[p] = did[p]
        /\ UNCHANGED <<order, delivered, authorization, receipt>>
    BY <1>12 DEF Rem!FinishRemoval, Rem!Move, Rem!RemovalTypeOK
  <2> QED BY <2>1
<1>13. ASSUME NEW o \in Rem!Order, Rem!RunnerFails(o) PROVE RunnerTells'
  BY <1>13 DEF Rem!RunnerFails, Rem!Incident, Rem!RemovalTypeOK
<1>14. ASSUME NEW o \in Rem!Order, Rem!RunnerDies(o) PROVE RunnerTells'
  BY <1>14 DEF Rem!RunnerDies, Rem!Incident, Rem!RemovalTypeOK
<1>15. ASSUME NEW o \in Rem!Order, Rem!ReportSuccess(o) PROVE RunnerTells'
  BY <1>15, ReportStep
<1>16. ASSUME NEW o \in Rem!Order, Rem!ReportRunnerFailure(o) PROVE RunnerTells'
  BY <1>16, ReportStep
<1>17. ASSUME NEW o \in Rem!Order, Rem!TimeOut(o) PROVE RunnerTells'
  BY <1>17 DEF Rem!TimeOut, Rem!RemovalTypeOK
<1>18. ASSUME NEW e \in Editor, Rem!SaveEdit(e) PROVE RunnerTells'
  BY <1>18, EditSaved
<1>19. CASE Quiet
  BY <1>19 DEF Quiet
<1> HIDE DEF Rem!RemovalAssumption, Rem!Order, Rem!Active, Rem!Ended, Rem!JobOpen, Rem!JobOver, Rem!Terminal, Rem!AtWork, Rem!NoOrder, Rem!NoEdit,
      Rem!rows, Rem!machine, Rem!computer, RemovalInv, RowsSound, Traceless, Authorized, RunnerTells, Granted, Rem!Did
<1> QED
  BY <1>1, <1>2, <1>3, <1>4, <1>5, <1>6, <1>7, <1>8, <1>9, <1>10, <1>11, <1>12, <1>13, <1>14, <1>15,
     <1>16, <1>17, <1>18, <1>19, QuietSteps DEF Rem!RemovalNext

\* An installation waits for every uninstaller, so none that has stopped the agent meets a whole one.
LEMMA GoneStep ==
  ASSUME RemovalInv, [Rem!RemovalNext]_removalV
  PROVE  AgentIsGone'
<1> USE Assumed DEF Rem!RemovalAssumption, Rem!Order, Rem!Active, Rem!Ended, Rem!JobOpen, Rem!JobOver, Rem!Terminal, Rem!AtWork, Rem!NoOrder, Rem!NoEdit,
      Rem!rows, Rem!machine, Rem!computer, RemovalInv, RowsSound, Traceless, RunnerTells, AgentIsGone, Rem!RecordIsTrue, Rem!Did
<1>1. ASSUME NEW o \in Rem!Order, NEW u \in Operator, NEW mode \in {"uninstall", "purge"}, Rem!OrderOnPanel(o, mode, u) PROVE AgentIsGone'
  BY <1>1 DEF Rem!OrderOnPanel, Rem!Create, Rem!MayRemove, Rem!ActiveOrders, Rem!OpenRemovals, Rem!RemovalTypeOK
<1>2. ASSUME NEW o \in Rem!Order, NEW u \in Operator, Rem!AuthorizeAtTray(o, u) PROVE AgentIsGone'
  BY <1>2 DEF Rem!AuthorizeAtTray, Rem!Create, Rem!ActiveOrders, Rem!OpenRemovals, Rem!RemovalTypeOK
<1>3. ASSUME NEW o \in Rem!Order, NEW u \in Operator, Rem!OrderAsJob(o, u) PROVE AgentIsGone'
  BY <1>3 DEF Rem!OrderAsJob, Rem!Create, Rem!OpenRemovals, Rem!RemovalTypeOK
<1>4. ASSUME NEW o \in Rem!Order, Rem!Pull(o) PROVE AgentIsGone'
  BY <1>4, Pulled
<1>5. ASSUME NEW o \in Rem!Order, Rem!StartRunner(o) PROVE AgentIsGone'
  BY <1>5 DEF Rem!StartRunner, Rem!RemovalTypeOK
<1>6. ASSUME NEW o \in Rem!Order, Rem!StartAtTray(o) PROVE AgentIsGone'
  BY <1>6 DEF Rem!StartAtTray, Rem!RemovalTypeOK
<1>7. ASSUME NEW o \in Rem!Order, Rem!ReportRunning(o) PROVE AgentIsGone'
  BY <1>7 DEF Rem!ReportRunning, Rem!RemovalTypeOK
<1>8. ASSUME NEW o \in Rem!Order, Rem!ReportFailure(o) PROVE AgentIsGone'
  BY <1>8, ReportStep
<1>9. ASSUME NEW o \in Rem!Order, Rem!ConsumeAuthorization(o) PROVE AgentIsGone'
  BY <1>9 DEF Rem!ConsumeAuthorization, Rem!Move, Rem!Incident, Rem!RemovalTypeOK
<1>10. ASSUME NEW o \in Rem!Order, Rem!StopAgent(o) PROVE AgentIsGone'
  BY <1>10 DEF Rem!StopAgent, Rem!Move, Rem!RemovalTypeOK
<1>11. ASSUME NEW o \in Rem!Order, Rem!RemoveBinaries(o) PROVE AgentIsGone'
  BY <1>11 DEF Rem!RemoveBinaries, Rem!Move, Rem!RemovalTypeOK
<1>12. ASSUME NEW o \in Rem!Order, Rem!FinishRemoval(o) PROVE AgentIsGone'
  BY <1>12 DEF Rem!FinishRemoval, Rem!Move, Rem!RemovalTypeOK
<1>13. ASSUME NEW o \in Rem!Order, Rem!RunnerFails(o) PROVE AgentIsGone'
  BY <1>13 DEF Rem!RunnerFails, Rem!Incident, Rem!RemovalTypeOK
<1>14. ASSUME NEW o \in Rem!Order, Rem!RunnerDies(o) PROVE AgentIsGone'
  BY <1>14 DEF Rem!RunnerDies, Rem!Incident, Rem!RemovalTypeOK
<1>15. ASSUME NEW o \in Rem!Order, Rem!ReportSuccess(o) PROVE AgentIsGone'
  BY <1>15, ReportStep
<1>16. ASSUME NEW o \in Rem!Order, Rem!ReportRunnerFailure(o) PROVE AgentIsGone'
  BY <1>16, ReportStep
<1>17. ASSUME NEW o \in Rem!Order, Rem!TimeOut(o) PROVE AgentIsGone'
  BY <1>17 DEF Rem!TimeOut, Rem!RemovalTypeOK
<1>18. ASSUME NEW e \in Editor, Rem!SaveEdit(e) PROVE AgentIsGone'
  BY <1>18, EditSaved
<1>19. ASSUME Rem!InstallAnew PROVE AgentIsGone'
  BY <1>19 DEF Rem!InstallAnew
<1>20. CASE Quiet /\ disk' = disk /\ installing' \subseteq installing
  BY <1>20 DEF Quiet
<1> HIDE DEF Rem!RemovalAssumption, Rem!Order, Rem!Active, Rem!Ended, Rem!JobOpen, Rem!JobOver, Rem!Terminal, Rem!AtWork, Rem!NoOrder, Rem!NoEdit,
      Rem!rows, Rem!machine, Rem!computer, RemovalInv, RowsSound, Traceless, RunnerTells, AgentIsGone, Rem!RecordIsTrue, Rem!Did
<1> QED
  BY <1>1, <1>2, <1>3, <1>4, <1>5, <1>6, <1>7, <1>8, <1>9, <1>10, <1>11, <1>12, <1>13, <1>14, <1>15,
     <1>16, <1>17, <1>18, <1>19, <1>20, QuietSteps DEF Rem!RemovalNext

\* A second uninstaller starts where an agent is whole: no other can have completed its order and be at work.
LEMMA OneStep ==
  ASSUME RemovalInv, RowsSound', AgentIsGone', [Rem!RemovalNext]_removalV
  PROVE  Rem!OneRemoval'
<1> USE Assumed DEF Rem!RemovalAssumption, Rem!Order, Rem!Active, Rem!Ended, Rem!JobOpen, Rem!JobOver, Rem!Terminal, Rem!AtWork, Rem!NoOrder, Rem!NoEdit,
      Rem!rows, Rem!machine, Rem!computer, RemovalInv, RowsSound, Rem!OneRemoval, Traceless, AgentIsGone
<1>1. ASSUME NEW o \in Rem!Order, NEW u \in Operator, NEW mode \in {"uninstall", "purge"}, Rem!OrderOnPanel(o, mode, u) PROVE Rem!OneRemoval'
  BY <1>1, Created DEF Rem!OrderOnPanel, Rem!ActiveOrders, Rem!OpenRemovals, Rem!computer
<1>2. ASSUME NEW o \in Rem!Order, NEW u \in Operator, Rem!AuthorizeAtTray(o, u) PROVE Rem!OneRemoval'
  BY <1>2, Created DEF Rem!AuthorizeAtTray, Rem!ActiveOrders, Rem!OpenRemovals, Rem!computer
<1>3. ASSUME NEW o \in Rem!Order, NEW u \in Operator, Rem!OrderAsJob(o, u) PROVE Rem!OneRemoval'
  BY <1>3, Created DEF Rem!OrderAsJob, Rem!OpenRemovals, Rem!computer
<1>4. ASSUME NEW o \in Rem!Order, Rem!Pull(o) PROVE Rem!OneRemoval'
  BY <1>4, Pulled
<1>5. ASSUME NEW o \in Rem!Order, Rem!StartRunner(o) PROVE Rem!OneRemoval'
  BY <1>5 DEF Rem!StartRunner, Rem!RemovalTypeOK
<1>6. ASSUME NEW o \in Rem!Order, Rem!StartAtTray(o) PROVE Rem!OneRemoval'
  <2>1. /\ disk = "whole" /\ disk' = disk /\ UNCHANGED <<order, removal>> /\ runner'[o] = "started"
        /\ \A p \in Rem!Order : p # o => runner'[p] = runner[p]
    BY <1>6 DEF Rem!StartAtTray, Rem!RemovalTypeOK
  <2>2. \A p \in Rem!Order : runner'[p] \in Rem!AtWork => removal[p] # "none" /\ removal[p] # "completed"
    BY <1>6, <2>1 DEF Rem!StartAtTray
  <2>3. \A p \in Rem!Order : removal[p] \in Rem!JobOpen \cup Rem!JobOver \cup {"none"}
    BY DEF Rem!RemovalTypeOK
  <2> QED BY <2>1, <2>2, <2>3
<1>7. ASSUME NEW o \in Rem!Order, Rem!ReportRunning(o) PROVE Rem!OneRemoval'
  BY <1>7 DEF Rem!ReportRunning, Rem!RemovalTypeOK
<1>8. ASSUME NEW o \in Rem!Order, Rem!ReportFailure(o) PROVE Rem!OneRemoval'
  BY <1>8, ReportStep
<1>9. ASSUME NEW o \in Rem!Order, Rem!ConsumeAuthorization(o) PROVE Rem!OneRemoval'
  BY <1>9 DEF Rem!ConsumeAuthorization, Rem!Move, Rem!Incident, Rem!RemovalTypeOK
<1>10. ASSUME NEW o \in Rem!Order, Rem!StopAgent(o) PROVE Rem!OneRemoval'
  BY <1>10 DEF Rem!StopAgent, Rem!Move, Rem!RemovalTypeOK
<1>11. ASSUME NEW o \in Rem!Order, Rem!RemoveBinaries(o) PROVE Rem!OneRemoval'
  BY <1>11 DEF Rem!RemoveBinaries, Rem!Move, Rem!RemovalTypeOK
<1>12. ASSUME NEW o \in Rem!Order, Rem!FinishRemoval(o) PROVE Rem!OneRemoval'
  BY <1>12 DEF Rem!FinishRemoval, Rem!Move, Rem!RemovalTypeOK
<1>13. ASSUME NEW o \in Rem!Order, Rem!RunnerFails(o) PROVE Rem!OneRemoval'
  BY <1>13 DEF Rem!RunnerFails, Rem!Incident, Rem!RemovalTypeOK
<1>14. ASSUME NEW o \in Rem!Order, Rem!RunnerDies(o) PROVE Rem!OneRemoval'
  BY <1>14 DEF Rem!RunnerDies, Rem!Incident, Rem!RemovalTypeOK
<1>15. ASSUME NEW o \in Rem!Order, Rem!ReportSuccess(o) PROVE Rem!OneRemoval'
  BY <1>15, ReportStep
<1>16. ASSUME NEW o \in Rem!Order, Rem!ReportRunnerFailure(o) PROVE Rem!OneRemoval'
  BY <1>16, ReportStep
<1>17. ASSUME NEW o \in Rem!Order, Rem!TimeOut(o) PROVE Rem!OneRemoval'
  BY <1>17 DEF Rem!TimeOut, Rem!RemovalTypeOK
<1>18. ASSUME NEW e \in Editor, Rem!SaveEdit(e) PROVE Rem!OneRemoval'
  BY <1>18, EditSaved
<1>19. CASE Quiet
  BY <1>19 DEF Quiet
<1> HIDE DEF Rem!RemovalAssumption, Rem!Order, Rem!Active, Rem!Ended, Rem!JobOpen, Rem!JobOver, Rem!Terminal, Rem!AtWork, Rem!NoOrder, Rem!NoEdit,
      Rem!rows, Rem!machine, Rem!computer, RemovalInv, RowsSound, Rem!OneRemoval, Traceless, AgentIsGone
<1> QED
  BY <1>1, <1>2, <1>3, <1>4, <1>5, <1>6, <1>7, <1>8, <1>9, <1>10, <1>11, <1>12, <1>13, <1>14, <1>15,
     <1>16, <1>17, <1>18, <1>19, QuietSteps DEF Rem!RemovalNext

\* Whoever opens a job that removes the agent, or an update, finds none of the other kind.
LEMMA ExcludesStep ==
  ASSUME RemovalInv, [Rem!RemovalNext]_removalV
  PROVE  Rem!RemovalExcludesUpdate'
<1> USE Assumed DEF Rem!RemovalAssumption, Rem!Order, Rem!Active, Rem!Ended, Rem!JobOpen, Rem!JobOver, Rem!Terminal, Rem!AtWork, Rem!NoOrder, Rem!NoEdit,
      Rem!rows, Rem!machine, Rem!computer, RemovalInv, Rem!RemovalExcludesUpdate, Rem!OpenRemovals
<1>1. ASSUME NEW o \in Rem!Order, NEW u \in Operator, NEW mode \in {"uninstall", "purge"}, Rem!OrderOnPanel(o, mode, u) PROVE Rem!RemovalExcludesUpdate'
  BY <1>1 DEF Rem!OrderOnPanel, Rem!Create, Rem!MayRemove, Rem!ActiveOrders, Rem!OpenRemovals, Rem!RemovalTypeOK
<1>2. ASSUME NEW o \in Rem!Order, NEW u \in Operator, Rem!AuthorizeAtTray(o, u) PROVE Rem!RemovalExcludesUpdate'
  BY <1>2 DEF Rem!AuthorizeAtTray, Rem!Create, Rem!ActiveOrders, Rem!OpenRemovals, Rem!RemovalTypeOK
<1>3. ASSUME NEW o \in Rem!Order, NEW u \in Operator, Rem!OrderAsJob(o, u) PROVE Rem!RemovalExcludesUpdate'
  BY <1>3 DEF Rem!OrderAsJob, Rem!Create, Rem!OpenRemovals, Rem!RemovalTypeOK
<1>4. ASSUME NEW k \in OtherJob, Rem!CreateOther(k) PROVE Rem!RemovalExcludesUpdate'
  BY <1>4 DEF Rem!CreateOther, Rem!OpenRemovals, Rem!RemovalTypeOK
<1>5. ASSUME NEW k \in OtherJob, Rem!EndOther(k) PROVE Rem!RemovalExcludesUpdate'
  BY <1>5 DEF Rem!EndOther, Rem!RemovalTypeOK
<1>6. ASSUME NEW o \in Rem!Order, Rem!Lapse(o) PROVE Rem!RemovalExcludesUpdate'
  BY <1>6 DEF Rem!Lapse, Rem!RemovalTypeOK
<1>7. ASSUME NEW o \in Rem!Order, Rem!Pull(o) PROVE Rem!RemovalExcludesUpdate'
  BY <1>7, Pulled
<1>8. ASSUME NEW o \in Rem!Order, Rem!StartRunner(o) PROVE Rem!RemovalExcludesUpdate'
  BY <1>8 DEF Rem!StartRunner, Rem!RemovalTypeOK
<1>9. ASSUME NEW o \in Rem!Order, Rem!StartAtTray(o) PROVE Rem!RemovalExcludesUpdate'
  BY <1>9 DEF Rem!StartAtTray, Rem!RemovalTypeOK
<1>10. ASSUME NEW o \in Rem!Order, Rem!ReportRunning(o) PROVE Rem!RemovalExcludesUpdate'
  BY <1>10 DEF Rem!ReportRunning, Rem!RemovalTypeOK
<1>11. ASSUME NEW o \in Rem!Order, Rem!ReportFailure(o) PROVE Rem!RemovalExcludesUpdate'
  BY <1>11, ReportStep
<1>12. ASSUME NEW o \in Rem!Order, Rem!ConsumeAuthorization(o) PROVE Rem!RemovalExcludesUpdate'
  BY <1>12 DEF Rem!ConsumeAuthorization, Rem!Move, Rem!Incident, Rem!RemovalTypeOK
<1>13. ASSUME NEW o \in Rem!Order, Rem!StopAgent(o) PROVE Rem!RemovalExcludesUpdate'
  BY <1>13 DEF Rem!StopAgent, Rem!Move, Rem!RemovalTypeOK
<1>14. ASSUME NEW o \in Rem!Order, Rem!RemoveBinaries(o) PROVE Rem!RemovalExcludesUpdate'
  BY <1>14 DEF Rem!RemoveBinaries, Rem!Move, Rem!RemovalTypeOK
<1>15. ASSUME NEW o \in Rem!Order, Rem!FinishRemoval(o) PROVE Rem!RemovalExcludesUpdate'
  BY <1>15 DEF Rem!FinishRemoval, Rem!Move, Rem!RemovalTypeOK
<1>16. ASSUME NEW o \in Rem!Order, Rem!RunnerFails(o) PROVE Rem!RemovalExcludesUpdate'
  BY <1>16 DEF Rem!RunnerFails, Rem!Incident, Rem!RemovalTypeOK
<1>17. ASSUME NEW o \in Rem!Order, Rem!RunnerDies(o) PROVE Rem!RemovalExcludesUpdate'
  BY <1>17 DEF Rem!RunnerDies, Rem!Incident, Rem!RemovalTypeOK
<1>18. ASSUME NEW o \in Rem!Order, Rem!ReportSuccess(o) PROVE Rem!RemovalExcludesUpdate'
  BY <1>18, ReportStep
<1>19. ASSUME NEW o \in Rem!Order, Rem!ReportRunnerFailure(o) PROVE Rem!RemovalExcludesUpdate'
  BY <1>19, ReportStep
<1>20. ASSUME NEW o \in Rem!Order, Rem!TimeOut(o) PROVE Rem!RemovalExcludesUpdate'
  BY <1>20 DEF Rem!TimeOut, Rem!RemovalTypeOK
<1>21. ASSUME NEW o \in Rem!Order, NEW e \in Editor, NEW kind \in {"cancel", "fail", "expire"}, Rem!ReadToEdit(e, kind, o) PROVE Rem!RemovalExcludesUpdate'
  BY <1>21 DEF Rem!ReadToEdit, Rem!RemovalTypeOK
<1>22. ASSUME NEW e \in Editor, Rem!SaveEdit(e) PROVE Rem!RemovalExcludesUpdate'
  BY <1>22, EditSaved
<1>23. ASSUME Rem!Heartbeat PROVE Rem!RemovalExcludesUpdate'
  BY <1>23 DEF Rem!Heartbeat, Rem!RemovalTypeOK
<1>24. ASSUME Rem!SweepRead PROVE Rem!RemovalExcludesUpdate'
  BY <1>24 DEF Rem!SweepRead, Rem!StatusFor, Rem!RemovalTypeOK
<1>25. ASSUME Rem!SweepSave PROVE Rem!RemovalExcludesUpdate'
  BY <1>25 DEF Rem!SweepSave, Rem!RemovalTypeOK
<1>26. ASSUME Rem!GrowsStale PROVE Rem!RemovalExcludesUpdate'
  BY <1>26 DEF Rem!GrowsStale, Rem!RemovalTypeOK
<1>27. ASSUME Rem!ReconcileLegacy PROVE Rem!RemovalExcludesUpdate'
  BY <1>27 DEF Rem!ReconcileLegacy, Rem!RemovalTypeOK
<1>28. ASSUME Rem!InstallAnew PROVE Rem!RemovalExcludesUpdate'
  BY <1>28 DEF Rem!InstallAnew, Rem!RemovalTypeOK
<1>29. ASSUME Rem!ConfirmInstall PROVE Rem!RemovalExcludesUpdate'
  BY <1>29 DEF Rem!ConfirmInstall, Rem!RemovalTypeOK
<1>30. CASE UNCHANGED removalV
  BY <1>30 DEF removalV
<1> HIDE DEF Rem!RemovalAssumption, Rem!Order, Rem!Active, Rem!Ended, Rem!JobOpen, Rem!JobOver, Rem!Terminal, Rem!AtWork, Rem!NoOrder, Rem!NoEdit,
      Rem!rows, Rem!machine, Rem!computer, RemovalInv, Rem!RemovalExcludesUpdate, Rem!OpenRemovals
<1> QED
  BY <1>1, <1>2, <1>3, <1>4, <1>5, <1>6, <1>7, <1>8, <1>9, <1>10, <1>11, <1>12, <1>13, <1>14, <1>15,
     <1>16, <1>17, <1>18, <1>19, <1>20, <1>21, <1>22, <1>23, <1>24, <1>25, <1>26, <1>27, <1>28, <1>29,
     <1>30 DEF Rem!RemovalNext

\* What is deleted was granted.
LEMMA JustifiedStep ==
  ASSUME RemovalInv, [Rem!RemovalNext]_removalV
  PROVE  Rem!RemovalIsJustified'
<1> USE Assumed DEF Rem!RemovalAssumption, Rem!Order, Rem!Active, Rem!Ended, Rem!JobOpen, Rem!JobOver, Rem!Terminal, Rem!AtWork, Rem!NoOrder, Rem!NoEdit,
      Rem!rows, Rem!machine, Rem!computer, RemovalInv, Rem!RemovalIsJustified, RowsSound, RunnerTells, Granted, Traceless, Authorized, Rem!Did
<1>1. ASSUME NEW o \in Rem!Order, NEW u \in Operator, NEW mode \in {"uninstall", "purge"}, Rem!OrderOnPanel(o, mode, u) PROVE Rem!RemovalIsJustified'
  BY <1>1 DEF Rem!OrderOnPanel, Rem!Create, Rem!MayRemove, Rem!ActiveOrders, Rem!OpenRemovals, Rem!RemovalTypeOK
<1>2. ASSUME NEW o \in Rem!Order, NEW u \in Operator, Rem!AuthorizeAtTray(o, u) PROVE Rem!RemovalIsJustified'
  BY <1>2 DEF Rem!AuthorizeAtTray, Rem!Create, Rem!ActiveOrders, Rem!OpenRemovals, Rem!RemovalTypeOK
<1>3. ASSUME NEW o \in Rem!Order, NEW u \in Operator, Rem!OrderAsJob(o, u) PROVE Rem!RemovalIsJustified'
  BY <1>3 DEF Rem!OrderAsJob, Rem!Create, Rem!OpenRemovals, Rem!RemovalTypeOK
<1>4. ASSUME NEW o \in Rem!Order, Rem!Pull(o) PROVE Rem!RemovalIsJustified'
  BY <1>4, Pulled
<1>5. ASSUME NEW o \in Rem!Order, Rem!StartRunner(o) PROVE Rem!RemovalIsJustified'
  BY <1>5 DEF Rem!StartRunner, Rem!RemovalTypeOK
<1>6. ASSUME NEW o \in Rem!Order, Rem!StartAtTray(o) PROVE Rem!RemovalIsJustified'
  BY <1>6 DEF Rem!StartAtTray, Rem!RemovalTypeOK
<1>7. ASSUME NEW o \in Rem!Order, Rem!ReportRunning(o) PROVE Rem!RemovalIsJustified'
  BY <1>7 DEF Rem!ReportRunning, Rem!RemovalTypeOK
<1>8. ASSUME NEW o \in Rem!Order, Rem!ReportFailure(o) PROVE Rem!RemovalIsJustified'
  BY <1>8, ReportStep
<1>9. ASSUME NEW o \in Rem!Order, Rem!ConsumeAuthorization(o) PROVE Rem!RemovalIsJustified'
  BY <1>9 DEF Rem!ConsumeAuthorization, Rem!Move, Rem!Incident, Rem!RemovalTypeOK
<1>10. ASSUME NEW o \in Rem!Order, Rem!StopAgent(o) PROVE Rem!RemovalIsJustified'
  BY <1>10 DEF Rem!StopAgent, Rem!Move, Rem!RemovalTypeOK
<1>11. ASSUME NEW o \in Rem!Order, Rem!RemoveBinaries(o) PROVE Rem!RemovalIsJustified'
  BY <1>11 DEF Rem!RemoveBinaries, Rem!Move, Rem!RemovalTypeOK
<1>12. ASSUME NEW o \in Rem!Order, Rem!FinishRemoval(o) PROVE Rem!RemovalIsJustified'
  BY <1>12 DEF Rem!FinishRemoval, Rem!Move, Rem!RemovalTypeOK
<1>13. ASSUME NEW o \in Rem!Order, Rem!RunnerFails(o) PROVE Rem!RemovalIsJustified'
  BY <1>13 DEF Rem!RunnerFails, Rem!Incident, Rem!RemovalTypeOK
<1>14. ASSUME NEW o \in Rem!Order, Rem!RunnerDies(o) PROVE Rem!RemovalIsJustified'
  BY <1>14 DEF Rem!RunnerDies, Rem!Incident, Rem!RemovalTypeOK
<1>15. ASSUME NEW o \in Rem!Order, Rem!ReportSuccess(o) PROVE Rem!RemovalIsJustified'
  BY <1>15, ReportStep
<1>16. ASSUME NEW o \in Rem!Order, Rem!ReportRunnerFailure(o) PROVE Rem!RemovalIsJustified'
  BY <1>16, ReportStep
<1>17. ASSUME NEW o \in Rem!Order, Rem!TimeOut(o) PROVE Rem!RemovalIsJustified'
  BY <1>17 DEF Rem!TimeOut, Rem!RemovalTypeOK
<1>18. ASSUME NEW e \in Editor, Rem!SaveEdit(e) PROVE Rem!RemovalIsJustified'
  BY <1>18, EditSaved
<1>19. ASSUME Rem!InstallAnew PROVE Rem!RemovalIsJustified'
  BY <1>19 DEF Rem!InstallAnew
<1>20. CASE Quiet /\ disk' = disk /\ installing' \subseteq installing
  BY <1>20 DEF Quiet
<1> HIDE DEF Rem!RemovalAssumption, Rem!Order, Rem!Active, Rem!Ended, Rem!JobOpen, Rem!JobOver, Rem!Terminal, Rem!AtWork, Rem!NoOrder, Rem!NoEdit,
      Rem!rows, Rem!machine, Rem!computer, RemovalInv, Rem!RemovalIsJustified, RowsSound, RunnerTells, Granted, Traceless, Authorized, Rem!Did
<1> QED
  BY <1>1, <1>2, <1>3, <1>4, <1>5, <1>6, <1>7, <1>8, <1>9, <1>10, <1>11, <1>12, <1>13, <1>14, <1>15,
     <1>16, <1>17, <1>18, <1>19, <1>20, QuietSteps DEF Rem!RemovalNext

\* A success is reported, and received, only past the deletion.
LEMMA RecordStep ==
  ASSUME RemovalInv, [Rem!RemovalNext]_removalV
  PROVE  Rem!RecordIsTrue'
<1> USE Assumed DEF Rem!RemovalAssumption, Rem!Order, Rem!Active, Rem!Ended, Rem!JobOpen, Rem!JobOver, Rem!Terminal, Rem!AtWork, Rem!NoOrder, Rem!NoEdit,
      Rem!rows, Rem!machine, Rem!computer, RemovalInv, Rem!RecordIsTrue, RowsSound, RunnerTells, Traceless, Rem!Did
<1>1. ASSUME NEW o \in Rem!Order, NEW u \in Operator, NEW mode \in {"uninstall", "purge"}, Rem!OrderOnPanel(o, mode, u) PROVE Rem!RecordIsTrue'
  BY <1>1 DEF Rem!OrderOnPanel, Rem!Create, Rem!MayRemove, Rem!ActiveOrders, Rem!OpenRemovals, Rem!RemovalTypeOK
<1>2. ASSUME NEW o \in Rem!Order, NEW u \in Operator, Rem!AuthorizeAtTray(o, u) PROVE Rem!RecordIsTrue'
  BY <1>2 DEF Rem!AuthorizeAtTray, Rem!Create, Rem!ActiveOrders, Rem!OpenRemovals, Rem!RemovalTypeOK
<1>3. ASSUME NEW o \in Rem!Order, NEW u \in Operator, Rem!OrderAsJob(o, u) PROVE Rem!RecordIsTrue'
  BY <1>3 DEF Rem!OrderAsJob, Rem!Create, Rem!OpenRemovals, Rem!RemovalTypeOK
<1>4. ASSUME NEW o \in Rem!Order, Rem!Pull(o) PROVE Rem!RecordIsTrue'
  BY <1>4, Pulled
<1>5. ASSUME NEW o \in Rem!Order, Rem!StartRunner(o) PROVE Rem!RecordIsTrue'
  BY <1>5 DEF Rem!StartRunner, Rem!RemovalTypeOK
<1>6. ASSUME NEW o \in Rem!Order, Rem!StartAtTray(o) PROVE Rem!RecordIsTrue'
  BY <1>6 DEF Rem!StartAtTray, Rem!RemovalTypeOK
<1>7. ASSUME NEW o \in Rem!Order, Rem!ReportRunning(o) PROVE Rem!RecordIsTrue'
  BY <1>7 DEF Rem!ReportRunning, Rem!RemovalTypeOK
<1>8. ASSUME NEW o \in Rem!Order, Rem!ReportFailure(o) PROVE Rem!RecordIsTrue'
  BY <1>8, ReportStep
<1>9. ASSUME NEW o \in Rem!Order, Rem!ConsumeAuthorization(o) PROVE Rem!RecordIsTrue'
  BY <1>9 DEF Rem!ConsumeAuthorization, Rem!Move, Rem!Incident, Rem!RemovalTypeOK
<1>10. ASSUME NEW o \in Rem!Order, Rem!StopAgent(o) PROVE Rem!RecordIsTrue'
  BY <1>10 DEF Rem!StopAgent, Rem!Move, Rem!RemovalTypeOK
<1>11. ASSUME NEW o \in Rem!Order, Rem!RemoveBinaries(o) PROVE Rem!RecordIsTrue'
  BY <1>11 DEF Rem!RemoveBinaries, Rem!Move, Rem!RemovalTypeOK
<1>12. ASSUME NEW o \in Rem!Order, Rem!FinishRemoval(o) PROVE Rem!RecordIsTrue'
  BY <1>12 DEF Rem!FinishRemoval, Rem!Move, Rem!RemovalTypeOK
<1>13. ASSUME NEW o \in Rem!Order, Rem!RunnerFails(o) PROVE Rem!RecordIsTrue'
  BY <1>13 DEF Rem!RunnerFails, Rem!Incident, Rem!RemovalTypeOK
<1>14. ASSUME NEW o \in Rem!Order, Rem!RunnerDies(o) PROVE Rem!RecordIsTrue'
  BY <1>14 DEF Rem!RunnerDies, Rem!Incident, Rem!RemovalTypeOK
<1>15. ASSUME NEW o \in Rem!Order, Rem!ReportSuccess(o) PROVE Rem!RecordIsTrue'
  BY <1>15, ReportStep
<1>16. ASSUME NEW o \in Rem!Order, Rem!ReportRunnerFailure(o) PROVE Rem!RecordIsTrue'
  BY <1>16, ReportStep
<1>17. ASSUME NEW o \in Rem!Order, Rem!TimeOut(o) PROVE Rem!RecordIsTrue'
  BY <1>17 DEF Rem!TimeOut, Rem!RemovalTypeOK
<1>18. ASSUME NEW e \in Editor, Rem!SaveEdit(e) PROVE Rem!RecordIsTrue'
  BY <1>18, EditSaved
<1>19. CASE Quiet /\ lifecycle' \in {lifecycle, "installed"}
  BY <1>19 DEF Quiet
<1> HIDE DEF Rem!RemovalAssumption, Rem!Order, Rem!Active, Rem!Ended, Rem!JobOpen, Rem!JobOver, Rem!Terminal, Rem!AtWork, Rem!NoOrder, Rem!NoEdit,
      Rem!rows, Rem!machine, Rem!computer, RemovalInv, Rem!RecordIsTrue, RowsSound, RunnerTells, Traceless, Rem!Did
<1> QED
  BY <1>1, <1>2, <1>3, <1>4, <1>5, <1>6, <1>7, <1>8, <1>9, <1>10, <1>11, <1>12, <1>13, <1>14, <1>15,
     <1>16, <1>17, <1>18, <1>19, QuietSteps DEF Rem!RemovalNext

-----------------------------------------------------------------------------
LEMMA RemovalInitInv == Rem!RemovalInit => RemovalInv
<1> SUFFICES ASSUME Rem!RemovalInit PROVE RemovalInv
  OBVIOUS
<1>1. Rem!NoOrder.status = "none" /\ Rem!NoOrder.mode = "uninstall" /\ Rem!NoOrder.source = "panel"
  BY DEF Rem!NoOrder
<1>2. Rem!RemovalTypeOK
  <2>1. Rem!NoOrder \in [status : {"none"}, source : {"panel"}, mode : {"uninstall"}, by : Operator]
    BY Assumed DEF Rem!RemovalAssumption, Rem!NoOrder
  <2>2. Rem!NoEdit \in [kind : {"none"}, order : Rem!Order]
    BY Assumed DEF Rem!RemovalAssumption, Rem!NoEdit, Rem!Order
  <2>3. order \in [Rem!Order -> [status : Rem!Active \cup Rem!Ended \cup {"none", "absent"}, source : {"panel", "tray", "form"},
                             mode : {"uninstall", "purge"}, by : Operator]]
    BY <2>1 DEF Rem!RemovalInit
  <2>4. edit \in [Editor -> [kind : {"none", "cancel", "fail", "expire"}, order : Rem!Order]]
    BY <2>2 DEF Rem!RemovalInit
  <2>5. /\ removal \in [Rem!Order -> Rem!JobOpen \cup Rem!JobOver \cup {"none"}]
        /\ authorization \in [Rem!Order -> {"none", "active", "consumed", "expired"}]
        /\ receipt \in [Rem!Order -> {"none", "completed", "failed"}]
        /\ runner \in [Rem!Order -> Rem!AtWork \cup {"none", "done"}] /\ did \in [Rem!Order -> {"nothing", "binaries", "all"}]
    BY DEF Rem!RemovalInit
  <2>6. incidents \in 0 .. MaxIncidents
    BY Assumed DEF Rem!RemovalInit, Rem!RemovalAssumption
  <2>7. /\ lapsed = {} /\ reported = {} /\ others = {} /\ delivered = {} /\ lifecycle \in {"unknown", "installed"}
        /\ status = "online" /\ fresh = TRUE /\ sweep = "none" /\ disk = "whole" /\ installing = {}
    BY DEF Rem!RemovalInit
  <2> QED BY <2>3, <2>4, <2>5, <2>6, <2>7 DEF Rem!RemovalTypeOK
<1>3. RowsSound /\ RunnerTells /\ AgentIsGone
  BY <1>1 DEF Rem!RemovalInit, RowsSound, Traceless, EndsTogether, Authorized, RunnerTells, AgentIsGone, Rem!Ended, Rem!AtWork
<1>4. Rem!OneRemoval /\ Rem!RemovalExcludesUpdate
  BY <1>1 DEF Rem!RemovalInit, Rem!OneRemoval, Rem!RemovalExcludesUpdate, Rem!OpenRemovals, Rem!Active, Rem!JobOpen, Rem!AtWork
<1>5. Rem!RemovalIsJustified /\ Rem!RecordIsTrue
  BY <1>1 DEF Rem!RemovalInit, Rem!RemovalIsJustified, Rem!RecordIsTrue, Rem!Terminal
<1> QED BY <1>2, <1>3, <1>4, <1>5 DEF RemovalInv

LEMMA RemovalStep == ASSUME RemovalInv, [Rem!RemovalNext]_removalV PROVE RemovalInv'
<1>1. Rem!RemovalTypeOK' /\ RowsSound' /\ AgentIsGone'
  BY TypeStep, RowsStep, GoneStep DEF RemovalInv
<1>2. RunnerTells' /\ Rem!OneRemoval' /\ Rem!RemovalExcludesUpdate' /\ Rem!RemovalIsJustified' /\ Rem!RecordIsTrue'
  BY <1>1, RunnerStep, OneStep, ExcludesStep, JustifiedStep, RecordStep
<1> QED BY <1>1, <1>2 DEF RemovalInv

\* An order that has ended is not given to the agent: delivery takes an open job, and an ended order has none.
LEMMA EndedOrdersStay ==
  ASSUME RemovalInv, Rem!RemovalNext, NEW o \in Rem!Order, removal[o] \in Rem!JobOver \/ order[o].status \in Rem!Ended, o \notin delivered
  PROVE  o \notin delivered'
<1> SUFFICES ASSUME removal[o] \in Rem!JobOver PROVE o \notin delivered'
  BY DEF RemovalInv, RowsSound, EndsTogether
<1>1. ASSUME NEW p \in Rem!Order, Rem!Pull(p) PROVE o \notin delivered'
  BY <1>1, Pulled DEF RemovalInv, Rem!JobOver
<1>2. ASSUME NEW p \in Rem!Order, Rem!ReportFailure(p) \/ Rem!ReportSuccess(p) \/ Rem!ReportRunnerFailure(p) PROVE o \notin delivered'
  BY <1>2, ReportStep DEF RemovalInv
<1>3. ASSUME NEW e \in Editor, Rem!SaveEdit(e) PROVE o \notin delivered'
  BY <1>3, EditSaved DEF RemovalInv
<1>4. CASE Quiet
  BY <1>4 DEF Quiet
<1>5. ASSUME NEW p \in Rem!Order, NEW u \in Operator,
             Rem!AuthorizeAtTray(p, u) \/ Rem!OrderAsJob(p, u) \/ \E mode \in {"uninstall", "purge"} : Rem!OrderOnPanel(p, mode, u)
      PROVE  o \notin delivered'
  BY <1>5 DEF Rem!AuthorizeAtTray, Rem!OrderAsJob, Rem!OrderOnPanel, Rem!computer
<1>6. ASSUME NEW p \in Rem!Order,
             \/ Rem!StartRunner(p) \/ Rem!StartAtTray(p) \/ Rem!ReportRunning(p) \/ Rem!ConsumeAuthorization(p) \/ Rem!StopAgent(p)
             \/ Rem!RemoveBinaries(p) \/ Rem!FinishRemoval(p) \/ Rem!RunnerFails(p) \/ Rem!RunnerDies(p) \/ Rem!TimeOut(p)
      PROVE  o \notin delivered'
  BY <1>6 DEF Rem!StartRunner, Rem!StartAtTray, Rem!ReportRunning, Rem!ConsumeAuthorization, Rem!StopAgent, Rem!RemoveBinaries,
              Rem!FinishRemoval, Rem!RunnerFails, Rem!RunnerDies, Rem!TimeOut, Rem!computer
<1> QED BY <1>1, <1>2, <1>3, <1>4, <1>5, <1>6, QuietSteps DEF Rem!RemovalNext

\* Only the completion of an installation takes a terminal lifecycle back, and the present one has its binaries.
LEMMA OnlyRevives ==
  ASSUME RemovalInv, Rem!RemovalNext, lifecycle \in Rem!Terminal, lifecycle' \notin Rem!Terminal
  PROVE  disk \in {"whole", "stopped"} \/ "removed" \in installing \ installing'
<1>1. ASSUME NEW p \in Rem!Order, Rem!Pull(p) PROVE lifecycle' = lifecycle
  BY <1>1, Pulled DEF RemovalInv
<1>2. ASSUME NEW p \in Rem!Order, Rem!ReportFailure(p) \/ Rem!ReportSuccess(p) \/ Rem!ReportRunnerFailure(p)
      PROVE  lifecycle' = lifecycle \/ lifecycle' \in Rem!Terminal
  BY <1>2, ReportStep DEF RemovalInv, Rem!Terminal
<1>3. ASSUME NEW e \in Editor, Rem!SaveEdit(e) PROVE lifecycle' = lifecycle
  BY <1>3, EditSaved DEF RemovalInv
<1>4. CASE Rem!ConfirmInstall \/ Rem!ReconcileLegacy
  BY <1>4 DEF Rem!ConfirmInstall, Rem!ReconcileLegacy, Rem!Terminal, RemovalInv, Rem!RemovalTypeOK, AgentIsGone
<1>5. ASSUME NEW p \in Rem!Order, NEW u \in Operator,
             Rem!AuthorizeAtTray(p, u) \/ Rem!OrderAsJob(p, u) \/ \E mode \in {"uninstall", "purge"} : Rem!OrderOnPanel(p, mode, u)
      PROVE  lifecycle' = lifecycle
  BY <1>5 DEF Rem!AuthorizeAtTray, Rem!OrderAsJob, Rem!OrderOnPanel, Rem!machine
<1>6. ASSUME NEW p \in Rem!Order,
             \/ Rem!StartRunner(p) \/ Rem!StartAtTray(p) \/ Rem!ReportRunning(p) \/ Rem!ConsumeAuthorization(p) \/ Rem!StopAgent(p)
             \/ Rem!RemoveBinaries(p) \/ Rem!FinishRemoval(p) \/ Rem!RunnerFails(p) \/ Rem!RunnerDies(p) \/ Rem!TimeOut(p)
      PROVE  lifecycle' = lifecycle
  BY <1>6 DEF Rem!StartRunner, Rem!StartAtTray, Rem!ReportRunning, Rem!ConsumeAuthorization, Rem!StopAgent, Rem!RemoveBinaries,
              Rem!FinishRemoval, Rem!RunnerFails, Rem!RunnerDies, Rem!TimeOut, Rem!machine
<1> QED BY <1>1, <1>2, <1>3, <1>4, <1>5, <1>6, QuietSteps DEF Rem!RemovalNext
=============================================================================
