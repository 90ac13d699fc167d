------------------------------- MODULE Alerts -------------------------------
(***************************************************************************)
(* The maintenance runs that turn an endpoint's inventory into alerts: the *)
(* evaluator of conditions, the detector of changes, the expiry of         *)
(* temporary alerts and the software policies, in this order, beside the   *)
(* console.  The inventory is what it says of one condition, "disk", and   *)
(* of one prohibited program, "tool".                                      *)
(***************************************************************************)
EXTENDS Integers, FiniteSets

CONSTANTS
  Maintenance,                       \* processes cron starts, which may overlap
  MaxAlerts, MaxInventories, MaxMishaps \* bounds: rows, snapshots, and what the console and faults do

AlertAssumption ==
  /\ MaxAlerts \in Nat /\ MaxInventories \in Nat /\ MaxMishaps \in Nat
  /\ IsFiniteSet(Maintenance) /\ Maintenance \cap {"disturbed", "settled"} = {}

Fact == {"disk", "tool"}
Alert == 1 .. MaxAlerts
Snapshot == 0 .. MaxInventories
NoAlert == 0

VARIABLES
  facts,      \* InventorySnapshot: what each snapshot says
  latest,     \* its number
  audits,     \* per snapshot, the audit events of the change from the one before
  alerts,     \* EndpointAlert
  violation,  \* SoftwarePolicyViolation: whether one is open, and its alert
  excepted,   \* SoftwarePolicyException
  maintenance,\* per process: its phase and what it read
  runRow,     \* MaintenanceRun
  console,    \* the row a request read, and what it wants
  calm,       \* history: the run nothing has disturbed, or "settled" after it
  overlapped, \* history: two runs were at work at once
  revived,    \* history: an alert resolved meanwhile was acknowledged
  mishaps

alertVars == <<facts, latest, audits, alerts, violation, excepted, maintenance, runRow, console, calm, overlapped,
  revived, mishaps>>

Idle == [phase |-> "idle", snapshot |-> 0, rows |-> {}, old |-> NoAlert, seen |-> FALSE, spared |-> FALSE]
Unused == [kind |-> "none", status |-> "resolved", over |-> FALSE]
Nobody == [alert |-> NoAlert, wants |-> "nothing"]

AlertsInit ==
  /\ \E f \in {{}, Fact} : facts = [s \in Snapshot |-> IF s = 0 THEN f ELSE {}]
  /\ latest = 0 /\ audits = [s \in Snapshot |-> 0]
  /\ alerts = [a \in Alert |-> Unused] /\ violation = [open |-> FALSE, alert |-> NoAlert]
  /\ excepted = FALSE /\ maintenance = [m \in Maintenance |-> Idle]
  /\ runRow = [m \in Maintenance |-> "ended"] /\ console = Nobody
  /\ calm = "disturbed" /\ overlapped = FALSE /\ revived = FALSE /\ mishaps = 0

Mishap == mishaps < MaxMishaps /\ mishaps' = mishaps + 1
Disturb == calm' = "disturbed"
Working(m) == maintenance[m].phase \notin {"idle", "checked"}
Active(kind) == {a \in Alert : alerts[a].kind = kind /\ alerts[a].status # "resolved"}
To(m, phase) == maintenance' = [maintenance EXCEPT ![m] = [Idle EXCEPT !.phase = phase]]

\* Nothing looks again at a resolved alert of a policy or a change that nobody holds.
Held == {violation.alert, console.alert} \cup UNION {maintenance[m].rows : m \in Maintenance}
Reusable ==
  {a \in Alert : \/ alerts[a].kind = "none"
                 \/ alerts[a].kind # "condition" /\ alerts[a].status = "resolved" /\ a \notin Held}
Fresh == CHOOSE a \in Reusable : \A b \in Reusable : a <= b
NewAlert(kind) ==
  Reusable # {} /\ alerts' = [alerts EXCEPT ![Fresh] = [kind |-> kind, status |-> "open", over |-> FALSE]]
Resolved(a) == [alerts[a] EXCEPT !.status = "resolved", !.over = FALSE]

---------------------------------------------------------------------------
\* What happens beside the runs.

NewInventory(f) ==
  /\ latest < MaxInventories /\ latest' = latest + 1 /\ facts' = [facts EXCEPT ![latest + 1] = f]
  /\ Disturb
  /\ UNCHANGED <<audits, alerts, violation, excepted, maintenance, runRow, console, overlapped, revived, mishaps>>

ChangeException ==
  /\ Mishap /\ excepted' = ~excepted /\ Disturb
  /\ UNCHANGED <<facts, latest, audits, alerts, violation, maintenance, runRow, console, overlapped, revived>>

\* The 72 hours of a temporary alert.
Lapse(a) ==
  /\ alerts[a].kind = "change" /\ alerts[a].status # "resolved" /\ ~alerts[a].over
  /\ alerts' = [alerts EXCEPT ![a].over = TRUE]
  /\ UNCHANGED <<facts, latest, audits, violation, excepted, maintenance, runRow, console, calm, overlapped,
                 revived, mishaps>>

\* alert_acknowledge, alert_resolve: the row is read, checked and saved without a lock.
ConsoleReads(a, wants) ==
  /\ console = Nobody /\ alerts[a].status # "resolved" /\ Mishap
  /\ console' = [alert |-> a, wants |-> wants]
  /\ UNCHANGED <<facts, latest, audits, alerts, violation, excepted, maintenance, runRow, calm, overlapped, revived>>
ConsoleSaves ==
  /\ console # Nobody /\ console' = Nobody /\ Disturb
  /\ alerts' = [alerts EXCEPT ![console.alert].status = console.wants]
  /\ revived' = (revived \/ (console.wants = "acknowledged" /\ alerts[console.alert].status = "resolved"))
  /\ UNCHANGED <<facts, latest, audits, violation, excepted, maintenance, runRow, overlapped, mishaps>>

---------------------------------------------------------------------------
\* run_maintenance_tasks: it looks for a run in progress, then makes its own row.

\* As a mutant: a run that was given up still counts.
CheckEnded(m) ==
  /\ maintenance[m] = Idle /\ \A n \in Maintenance : runRow[n] = "ended" /\ To(m, "checked")
  /\ UNCHANGED <<facts, latest, audits, alerts, violation, excepted, runRow, console, calm, overlapped, revived,
                 mishaps>>
CheckRunning(m) ==
  /\ maintenance[m] = Idle /\ \A n \in Maintenance : runRow[n] # "running" /\ To(m, "checked")
  /\ UNCHANGED <<facts, latest, audits, alerts, violation, excepted, runRow, console, calm, overlapped, revived,
                 mishaps>>

\* A run of more than thirty minutes is given up.
StartRun(m) ==
  LET stale == {n \in Maintenance : runRow[n] = "stale"}
      alone == \A n \in Maintenance : ~Working(n) IN
    /\ maintenance[m].phase = "checked" /\ To(m, "evaluate")
    /\ \E given \in IF stale = {} THEN {m} ELSE stale :
         runRow' = [n \in Maintenance |->
           IF n = m THEN "running" ELSE IF n = given THEN "ended" ELSE runRow[n]]
    /\ calm' = IF alone THEN m ELSE "disturbed"
    /\ overlapped' = (overlapped \/ ~alone) /\ IF alone THEN UNCHANGED mishaps ELSE Mishap
    /\ UNCHANGED <<facts, latest, audits, alerts, violation, excepted, console, revived>>

GrowsOld(m) ==
  /\ runRow[m] = "running" /\ runRow' = [runRow EXCEPT ![m] = "stale"]
  /\ IF Working(m) THEN Mishap ELSE UNCHANGED mishaps
  /\ UNCHANGED <<facts, latest, audits, alerts, violation, excepted, maintenance, console, calm, overlapped, revived>>

Die(m) ==
  /\ Working(m) /\ Mishap /\ maintenance' = [maintenance EXCEPT ![m] = Idle] /\ Disturb
  /\ UNCHANGED <<facts, latest, audits, alerts, violation, excepted, runRow, console, overlapped, revived>>

---------------------------------------------------------------------------
\* evaluate_alerts: the latest snapshot and the rows are read once, and saved one by one.

Evaluated == Active("condition") \cup Active("policy")   \* neither temporary nor telemetry's
ReadForAlerts(m) ==
  /\ maintenance[m].phase = "evaluate"
  /\ \E old \in {a \in Alert : alerts[a].kind = "condition" /\ alerts[a].status = "resolved"} \cup {NoAlert} :
       /\ old = NoAlert => \A a \in Alert : alerts[a].kind = "condition" => alerts[a].status # "resolved"
       /\ maintenance' = [maintenance EXCEPT ![m] =
            [phase |-> "save", snapshot |-> latest, rows |-> Evaluated, old |-> old,
             seen |-> Active("condition") # {}, spared |-> FALSE]]
  /\ UNCHANGED <<facts, latest, audits, alerts, violation, excepted, runRow, console, calm, overlapped, revived,
                 mishaps>>

Desired(m) == "disk" \in facts[maintenance[m].snapshot]
\* The condition's row is kept, opened again, or made.
SaveDesired(m) ==
  /\ maintenance[m].phase = "save" /\ maintenance' = [maintenance EXCEPT ![m].phase = "resolve"]
  /\ \/ (~Desired(m) \/ maintenance[m].seen) /\ UNCHANGED alerts
     \/ /\ Desired(m) /\ ~maintenance[m].seen /\ maintenance[m].old # NoAlert
        /\ alerts' = [alerts EXCEPT ![maintenance[m].old].status = "open"]
     \/ Desired(m) /\ ~maintenance[m].seen /\ maintenance[m].old = NoAlert /\ NewAlert("condition")
  /\ UNCHANGED <<facts, latest, audits, violation, excepted, runRow, console, calm, overlapped, revived, mishaps>>

\* A row whose key is not desired; the key of a policy's alert never is.
Undesired(m, a) == alerts[a].kind = "policy" \/ ~Desired(m)
ResolveOne(m, a) ==
  /\ maintenance[m].phase = "resolve" /\ a \in maintenance[m].rows
  /\ maintenance' = [maintenance EXCEPT ![m].rows = @ \ {a}]
  /\ alerts' = IF Undesired(m, a) THEN [alerts EXCEPT ![a] = Resolved(a)] ELSE alerts
  /\ UNCHANGED <<facts, latest, audits, violation, excepted, runRow, console, calm, overlapped, revived, mishaps>>
---------------------------------------------------------------------------
\* detect_changes: the last two snapshots, one transaction; expire_temporary_alerts.

\* As a mutant: without audit_exists.
ReadForChangesAgain(m) ==
  /\ \/ maintenance[m].phase = "resolve" /\ maintenance[m].rows = {}
     \/ maintenance[m].phase = "detect"
  /\ maintenance' = [maintenance EXCEPT ![m] = [Idle EXCEPT !.phase = "commit", !.snapshot = latest]]
  /\ UNCHANGED <<facts, latest, audits, alerts, violation, excepted, runRow, console, calm, overlapped, revived,
                 mishaps>>
ReadForChanges(m) ==
  /\ \/ maintenance[m].phase = "resolve" /\ maintenance[m].rows = {}
     \/ maintenance[m].phase = "detect"
  /\ maintenance' = [maintenance EXCEPT ![m] =
       [Idle EXCEPT !.phase = "commit", !.snapshot = latest, !.seen = (audits[latest] > 0)]]
  /\ UNCHANGED <<facts, latest, audits, alerts, violation, excepted, runRow, console, calm, overlapped, revived,
                 mishaps>>

Appeared(s) == s > 0 /\ "disk" \in facts[s] \ facts[s - 1]
CommitChanges(m) ==
  LET s == maintenance[m].snapshot IN
    /\ maintenance[m].phase = "commit" /\ To(m, "expire")
    /\ IF Appeared(s) /\ ~maintenance[m].seen
         THEN /\ audits' = [audits EXCEPT ![s] = @ + 1]
              /\ IF Active("change") = {} THEN NewAlert("change") ELSE UNCHANGED alerts
         ELSE UNCHANGED <<audits, alerts>>
    /\ UNCHANGED <<facts, latest, violation, excepted, runRow, console, calm, overlapped, revived, mishaps>>

\* The last task begins by reading, too.
ExpireTemporary(m) ==
  /\ maintenance[m].phase = "expire"
  /\ alerts' = [a \in Alert |-> IF a \in Active("change") /\ alerts[a].over THEN Resolved(a) ELSE alerts[a]]
  /\ maintenance' = [maintenance EXCEPT ![m] =
       [Idle EXCEPT !.phase = "judge", !.snapshot = latest, !.seen = violation.open, !.spared = excepted]]
  /\ UNCHANGED <<facts, latest, audits, violation, excepted, runRow, console, calm, overlapped, revived, mishaps>>

---------------------------------------------------------------------------
\* evaluate_software_policies: the snapshots are read, then one transaction.

AlertIsActive == violation.alert # NoAlert /\ alerts[violation.alert].status # "resolved"
\* As a mutant: a violation that is open keeps its alert, whatever became of it.
DetectOnce(seen) ==
  IF seen THEN UNCHANGED <<alerts, violation>>
  ELSE NewAlert("policy") /\ violation' = [open |-> TRUE, alert |-> Fresh]
\* A violation found open is not opened again, even if it was closed since.
Detect(seen) ==
  IF seen /\ AlertIsActive THEN UNCHANGED <<alerts, violation>>
  ELSE NewAlert("policy") /\ violation' = [open |-> violation.open \/ ~seen, alert |-> Fresh]
Clear ==
  /\ violation' = [violation EXCEPT !.open = FALSE]
  /\ alerts' = IF violation.open /\ AlertIsActive THEN [alerts EXCEPT ![violation.alert].status = "resolved"]
               ELSE alerts
EndRun(m) ==
  /\ To(m, "idle") /\ runRow' = [runRow EXCEPT ![m] = "ended"]
  /\ calm' = IF calm = m THEN "settled" ELSE calm
\* Two that create the same violation: the second one's whole evaluation is rolled back.
CommitPolicies(m) ==
  LET seen == maintenance[m].seen
      due == "tool" \in facts[maintenance[m].snapshot] /\ ~maintenance[m].spared IN
    /\ maintenance[m].phase = "judge" /\ EndRun(m)
    /\ \/ due /\ (violation.open => seen) /\ Detect(seen)
       \/ ~due /\ seen /\ Clear
       \/ ~seen /\ (due => violation.open) /\ UNCHANGED <<alerts, violation>>
    /\ UNCHANGED <<facts, latest, audits, excepted, console, overlapped, revived, mishaps>>

---------------------------------------------------------------------------
\* A task that raises leaves what it saved, and the run goes on with the next one.
TaskFails(m) ==
  /\ Mishap /\ Disturb
  /\ \/ maintenance[m].phase \in {"save", "resolve"} /\ To(m, "detect") /\ UNCHANGED runRow
     \/ maintenance[m].phase = "commit" /\ To(m, "expire") /\ UNCHANGED runRow
     \/ maintenance[m].phase = "judge" /\ To(m, "idle") /\ runRow' = [runRow EXCEPT ![m] = "ended"]
  /\ UNCHANGED <<facts, latest, audits, alerts, violation, excepted, console, overlapped, revived>>

RunStep(m) ==
  \/ StartRun(m) \/ ReadForAlerts(m) \/ SaveDesired(m) \/ \E a \in Alert : ResolveOne(m, a)
  \/ ReadForChanges(m) \/ CommitChanges(m) \/ ExpireTemporary(m) \/ CommitPolicies(m)
AlertsNext ==
  \/ \E f \in SUBSET Fact : NewInventory(f)
  \/ ChangeException
  \/ \E a \in Alert : Lapse(a) \/ \E wants \in {"acknowledged", "resolved"} : ConsoleReads(a, wants)
  \/ ConsoleSaves
  \/ \E m \in Maintenance : CheckRunning(m) \/ RunStep(m) \/ GrowsOld(m) \/ Die(m) \/ TaskFails(m)

\* cron starts a run every five minutes, and time passes.
AlertsFairness ==
  /\ \A m \in Maintenance : WF_alertVars(RunStep(m)) /\ WF_alertVars(~Working(m) /\ GrowsOld(m))
  /\ WF_alertVars(\E m \in Maintenance : CheckRunning(m))
AlertsSpec == AlertsInit /\ [][AlertsNext]_alertVars /\ AlertsFairness

---------------------------------------------------------------------------
AlertsTypeOK ==
  /\ facts \in [Snapshot -> SUBSET Fact] /\ latest \in Snapshot
  /\ audits \in [Snapshot -> 0 .. Cardinality(Maintenance)]
  /\ alerts \in [Alert -> [kind : {"none", "condition", "policy", "change"},
                           status : {"open", "acknowledged", "resolved"}, over : BOOLEAN]]
  /\ violation \in [open : BOOLEAN, alert : Alert \cup {NoAlert}]
  /\ \A m \in Maintenance : maintenance[m].rows \subseteq Alert /\ maintenance[m].snapshot \in Snapshot
  /\ runRow \in [Maintenance -> {"running", "stale", "ended"}]
  /\ console \in [alert : Alert \cup {NoAlert}, wants : {"nothing", "acknowledged", "resolved"}]
  /\ calm \in Maintenance \cup {"disturbed", "settled"}

(* As long as no two maintenance runs were at work at once, a condition has one active alert and   *)
(* a change of inventory is audited once; changes and a violation have one alert each, too, unless *)
(* an acknowledgement brought an older one back (apply_alerts_for_endpoint,                        *)
(* create_temporary_alert, audit_exists: none of them is guarded by a constraint).                 *)
OneAlertEach ==
  ~overlapped =>
    /\ Cardinality(Active("condition")) <= 1 /\ \A s \in Snapshot : audits[s] <= 1
    /\ revived \/ (Cardinality(Active("change")) <= 1 /\ Cardinality(Active("policy")) <= 1)

(* After a run that nothing disturbed, whatever runs and requests left before it, the alerts say   *)
(* what the inventory says: the condition has an active alert if it is there and none if it is     *)
(* not, a change was audited, a violation is open if the program is there without an exception,    *)
(* and an open violation's own alert is active, although the evaluator resolved it on the way.     *)
PassIsTrue ==
  calm = "settled" =>
    /\ (Active("condition") # {}) = ("disk" \in facts[latest])
    /\ Appeared(latest) => audits[latest] > 0
    /\ violation.open = ("tool" \in facts[latest] /\ ~excepted)
    /\ IF violation.open THEN violation.alert \in Active("policy") ELSE Active("policy") = {}
AlertsAreTrue == OneAlertEach /\ PassIsTrue

(* What the inventory says reaches the alerts even when runs die or overlap.                       *)
AlertPending ==
  \/ (Active("condition") # {}) # ("disk" \in facts[latest])
  \/ violation.open # ("tool" \in facts[latest] /\ ~excepted)
  \/ violation.open /\ ~AlertIsActive
AlertsCatchUp == []<>~AlertPending
=============================================================================
