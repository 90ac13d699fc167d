------------------------------ MODULE Automations ------------------------------
(***************************************************************************)
(* Scheduled jobs: definitions with a calendar, the occurrences they       *)
(* materialize and the jobs of these.  Operators edit and control          *)
(* definitions, several schedulers run rounds at once, agents fetch jobs.  *)
(*                                                                         *)
(* A transaction is a step: it locks the definition, then the endpoints.   *)
(* A round is several transactions, all with the time at which the round   *)
(* began.  Of the calendars "once" and "interval" are modelled; time zones *)
(* and weekdays only say where the slots lie.                              *)
(***************************************************************************)
EXTENDS FiniteSets, FiniteSetsExt, Naturals

CONSTANTS
  Definition,
  Patient,            \* the definitions whose jobs wait for an endpoint that is offline
  Endpoint,
  Request,            \* request ids of run_now
  Scheduler,
  Period,             \* the interval between two slots
  Validity,           \* how long a job may start after its slot
  MaxTime,            \* bound on the clock, and the end of every calendar
  MaxRetries,         \* failures in a row that pause a definition
  MaxOperations,      \* bound on what operators do
  MaxAutomationFaults \* bound: transactions that fail, endpoints that change

AutomationAssumption ==
  /\ {Period, Validity, MaxTime, MaxRetries} \subseteq Nat \ {0}
  /\ Patient \subseteq Definition /\ {MaxOperations, MaxAutomationFaults} \subseteq Nat /\ "scheduled" \notin Request

VARIABLES
  time,
  definition,   \* AutomationDefinition rows
  occurrences,  \* AutomationOccurrence rows, with the status of their job
  endpoint,     \* online, offline, barred (identity, rights or protocol), gone
  round,        \* scheduler_round by scheduler
  reopened,     \* history: closed definitions that a scheduler has paused
  operations,
  automationFaults

automationVars == <<time, definition, occurrences, endpoint, round, reopened, operations, automationFaults>>

Time == 1..MaxTime
ActiveJob == {"queued", "sent"}
ClosedState == {"cancelled", "finished"}
NoDefinition == [state |-> "none", revision |-> 1, kind |-> "once", start |-> 0, next |-> 0, retries |-> 0, retryAt |-> 0]
NoRound == [at |-> "walk", now |-> 0, list |-> {}, failed |-> {}]

AutomationInit ==
  /\ time = 1 /\ definition = [d \in Definition |-> NoDefinition] /\ occurrences = {}
  /\ endpoint = [e \in Endpoint |-> "online"] /\ round = [s \in Scheduler |-> NoRound]
  /\ reopened = {} /\ operations = 0 /\ automationFaults = 0

AutomationFault == automationFaults < MaxAutomationFaults /\ automationFaults' = automationFaults + 1

\* slot and latest_due: backlog is reduced to the last slot that has passed.
Slots(row) == IF row.kind = "once" THEN {row.start}
              ELSE {t \in row.start..MaxTime : (t - row.start) % Period = 0}
Slot(row, from) ==
  LET rest == {t \in Slots(row) : t >= from} IN IF rest = {} THEN 0 ELSE Min(rest)
LatestDue(row, now) ==
  LET past == {t \in Slots(row) : t <= now} IN
  IF row.kind = "once" \/ past = {} THEN row.next ELSE Max(past)

----------------------------------------------------------------------------
(* Materializing.                                                          *)

Key(d, due, run, e) ==
  [definition |-> d, revision |-> definition[d].revision, due |-> due, run |-> run, endpoint |-> e]
KeyOf(o) == [definition |-> o.definition, revision |-> o.revision, due |-> o.due, run |-> o.run,
             endpoint |-> o.endpoint]
Known(key) == \E o \in occurrences : KeyOf(o) = key
\* Mutant: jobs that were not sent yet are not counted.
BusyWithSent(e) == \E o \in occurrences : o.endpoint = e /\ o.job = "sent"
Busy(e) == \E o \in occurrences : o.endpoint = e /\ o.job \in ActiveJob
\* What becomes of one endpoint, under its lock.
Outcome(d, due, now, e) ==
  CASE endpoint[e] = "barred" -> "blocked"
    [] endpoint[e] # "barred" /\ now >= due + Validity -> "missed"
    [] endpoint[e] = "offline" /\ now < due + Validity /\ d \notin Patient -> "missed"
    [] endpoint[e] # "barred" /\ now < due + Validity /\ (endpoint[e] = "online" \/ d \in Patient) ->
         IF Busy(e) THEN "skipped" ELSE "enqueued"
Occurrence(key, now) ==
  LET status == Outcome(key.definition, key.due, now, key.endpoint) IN
  [definition |-> key.definition, revision |-> key.revision, due |-> key.due, run |-> key.run,
   endpoint |-> key.endpoint, status |-> status, job |-> IF status = "enqueued" THEN "queued" ELSE "none"]
Materialized(d, due, run, now) ==
  occurrences \cup {Occurrence(key, now) :
    key \in {k \in {Key(d, due, run, e) : e \in Endpoint} : ~Known(k)}}
TargetsExist == \A e \in Endpoint : endpoint[e] # "gone"

----------------------------------------------------------------------------
(* Operators.                                                              *)

Is(d, states) == definition[d].state \in states
Save(d, row) == definition' = [definition EXCEPT ![d] = row]
Quiet == UNCHANGED <<time, endpoint, round, reopened, automationFaults>>
Operate == operations < MaxOperations /\ operations' = operations + 1 /\ Quiet

\* save_definition: created, or edited under a new revision; "immediate" runs at once.
SaveDefinition(d, kind, start) ==
  LET old == definition[d]
      row == [NoDefinition EXCEPT !.state = IF Is(d, {"none"}) THEN "active" ELSE old.state,
                !.revision = IF Is(d, {"none"}) THEN 1 ELSE old.revision + 1,
                !.kind = kind, !.start = start] IN
  /\ start >= time /\ TargetsExist
  /\ Is(d, {"none", "active", "paused"})
  /\ Save(d, [row EXCEPT !.next = Slot(row, start)]) /\ UNCHANGED occurrences /\ Operate
RunImmediately(d) ==
  /\ Is(d, {"none"}) /\ TargetsExist
  /\ Save(d, [NoDefinition EXCEPT !.state = "finished", !.start = time])
  /\ occurrences' = Materialized(d, time, "scheduled", time) /\ Operate
RunNow(d, request) ==
  /\ Is(d, {"active"}) /\ TargetsExist
  /\ occurrences' = Materialized(d, time, request, time)
  /\ UNCHANGED definition /\ Operate

\* The next slot is cancelled before it is materialized.
CancelNext(d) ==
  LET row == definition[d]
      keys == {k \in {Key(d, row.next, "scheduled", e) : e \in Endpoint} : ~Known(k)} IN
  /\ Is(d, {"active", "paused"}) /\ row.next # 0
  /\ occurrences' = occurrences \cup
       {[definition |-> k.definition, revision |-> k.revision, due |-> k.due, run |-> k.run,
         endpoint |-> k.endpoint, status |-> "cancelled", job |-> "none"] : k \in keys}
  /\ UNCHANGED definition /\ Operate
Pause(d) ==
  /\ Is(d, {"active"}) /\ Save(d, [definition[d] EXCEPT !.state = "paused"])
  /\ UNCHANGED occurrences /\ Operate
\* The slots that passed meanwhile are left out.
Resume(d) ==
  LET next == Slot(definition[d], time) IN
  /\ Is(d, {"paused"})
  /\ Save(d, [definition[d] EXCEPT !.state = IF next = 0 THEN "finished" ELSE "active",
                !.next = next, !.retries = 0, !.retryAt = 0])
  /\ UNCHANGED occurrences /\ Operate
CancelDefinition(d) ==
  /\ Is(d, {"active", "paused"})
  /\ Save(d, [definition[d] EXCEPT !.state = "cancelled", !.next = 0])
  /\ occurrences' = {IF o.definition = d /\ o.job = "queued"
                     THEN [o EXCEPT !.status = "cancelled", !.job = "cancelled"] ELSE o : o \in occurrences}
  /\ Operate

\* Work that was sent is never claimed cancelled.
CancelOccurrence(o) ==
  /\ o.status = "enqueued" /\ o.job = "queued"
  /\ occurrences' = (occurrences \ {o}) \cup {[o EXCEPT !.status = "cancelled", !.job = "cancelled"]}
  /\ UNCHANGED definition /\ Operate

----------------------------------------------------------------------------
(* Schedulers.                                                             *)

\* The first transaction closes jobs whose window is over; then what is due is listed
\* without a lock.
Due(d, now) == Is(d, {"active"}) /\ definition[d].next \in 1..now /\ definition[d].retryAt <= now
\* A round that has nothing left to walk over is at its end.
Walk(s, next) == round' = [round EXCEPT ![s] = IF next.at = "walk" /\ next.list = {} THEN NoRound ELSE next]
BeginRound(s) ==
  /\ round[s] = NoRound
  /\ occurrences' = {IF o.job \in ActiveJob /\ time >= o.due + Validity
                     THEN [o EXCEPT !.job = "ended"] ELSE o : o \in occurrences}
  /\ Walk(s, [NoRound EXCEPT !.now = time, !.list = {d \in Definition : Due(d, time)}])
  /\ UNCHANGED <<time, definition, endpoint, reopened, operations, automationFaults>>

\* One definition: what was listed is looked at again under the lock.
Process(s, d) ==
  LET now == round[s].now row == definition[d]
      due == LatestDue(row, now) next == Slot(row, due + 1) IN
  /\ round[s].at = "walk" /\ d \in round[s].list
  /\ Walk(s, [round[s] EXCEPT !.list = @ \ {d}])
  /\ IF Due(d, now)
     THEN /\ TargetsExist
          /\ occurrences' = Materialized(d, due, "scheduled", now)
          /\ Save(d, [row EXCEPT !.next = next, !.retries = 0, !.retryAt = 0,
                        !.state = IF next = 0 THEN "finished" ELSE @])
     ELSE UNCHANGED <<definition, occurrences>>
  /\ UNCHANGED <<time, endpoint, reopened, operations, automationFaults>>

\* The transaction is rolled back: a target is gone, or the database refused.
ProcessFails(s, d) ==
  /\ round[s].at = "walk" /\ d \in round[s].list /\ Due(d, round[s].now)
  /\ \/ ~TargetsExist /\ Walk(s, [round[s] EXCEPT !.list = @ \ {d}, !.failed = {d}, !.at = "lost"])
        /\ UNCHANGED automationFaults
     \/ AutomationFault /\ Walk(s, [round[s] EXCEPT !.list = @ \ {d}, !.failed = {d}, !.at = "refused"])
  /\ UNCHANGED <<time, definition, occurrences, endpoint, reopened, operations>>

\* Another transaction notes the failure.  A definition whose target is gone is paused
\* whatever its state has become.
NoteLost(s) ==
  /\ round[s].at = "lost" /\ Walk(s, [round[s] EXCEPT !.at = "walk", !.failed = {}])
  /\ definition' = [d \in Definition |->
       IF d \in round[s].failed THEN [definition[d] EXCEPT !.state = "paused"] ELSE definition[d]]
  /\ reopened' = reopened \cup {d \in round[s].failed : Is(d, ClosedState)}
  /\ UNCHANGED <<time, occurrences, endpoint, operations, automationFaults>>
NoteRefused(s) ==
  LET Refused(row) == [row EXCEPT !.retries = @ + 1, !.retryAt = round[s].now + 1,
                         !.state = IF row.retries + 1 >= MaxRetries THEN "paused" ELSE @] IN
  /\ round[s].at = "refused" /\ Walk(s, [round[s] EXCEPT !.at = "walk", !.failed = {}])
  /\ definition' = [d \in Definition |->
       IF d \in round[s].failed /\ Is(d, {"active"}) /\ definition[d].next \in 1..round[s].now
       THEN Refused(definition[d]) ELSE definition[d]]
  /\ UNCHANGED <<time, occurrences, endpoint, reopened, operations, automationFaults>>

----------------------------------------------------------------------------
(* Agents, the clock and the fleet.                                        *)

\* A pull delivers what validate_scheduled_dispatch accepts and refuses the rest.
Deliver(o) ==
  /\ o.job = "queued" /\ time < o.due + Validity /\ endpoint[o.endpoint] # "offline"
  /\ occurrences' = (occurrences \ {o}) \cup
       {[o EXCEPT !.job = IF endpoint[o.endpoint] = "online" THEN "sent" ELSE "ended"]}
  /\ UNCHANGED <<definition, operations>> /\ Quiet
EndJob(o) ==
  /\ o.job = "sent" /\ occurrences' = (occurrences \ {o}) \cup {[o EXCEPT !.job = "ended"]}
  /\ UNCHANGED <<definition, operations>> /\ Quiet
TimePasses ==
  /\ time < MaxTime /\ time' = time + 1
  /\ UNCHANGED <<definition, occurrences, endpoint, round, reopened, operations, automationFaults>>
\* A row can be deleted as long as no occurrence refers to it.
EndpointChanges(e) ==
  /\ AutomationFault /\ endpoint[e] # "gone"
  /\ \E condition \in {"online", "offline", "barred", "gone"} \ {endpoint[e]} :
       /\ condition = "gone" => \A o \in occurrences : o.endpoint # e
       /\ endpoint' = [endpoint EXCEPT ![e] = condition]
  /\ UNCHANGED <<time, definition, occurrences, round, reopened, operations>>

AutomationNext ==
  \/ TimePasses \/ \E e \in Endpoint : EndpointChanges(e)
  \/ \E d \in Definition :
       \/ \E kind \in {"once", "interval"}, start \in Time : SaveDefinition(d, kind, start)
       \/ RunImmediately(d) \/ (\E request \in Request : RunNow(d, request))
       \/ CancelNext(d) \/ Pause(d) \/ Resume(d) \/ CancelDefinition(d)
       \/ \E s \in Scheduler : Process(s, d) \/ ProcessFails(s, d)
  \/ \E o \in occurrences : CancelOccurrence(o) \/ Deliver(o) \/ EndJob(o)
  \/ \E s \in Scheduler : BeginRound(s) \/ NoteLost(s) \/ NoteRefused(s)

\* The command is run again and again, and walks over everything it has listed.
AutomationFairness ==
  /\ WF_automationVars(TimePasses)
  /\ \A s \in Scheduler :
       /\ WF_automationVars(BeginRound(s)) /\ WF_automationVars(NoteLost(s))
       /\ WF_automationVars(NoteRefused(s))
       /\ \A d \in Definition : WF_automationVars(Process(s, d) \/ ProcessFails(s, d))

AutomationSpec == AutomationInit /\ [][AutomationNext]_automationVars /\ AutomationFairness

----------------------------------------------------------------------------
(* Properties.                                                             *)

AutomationTypeOK ==
  /\ time \in Time
  /\ \A d \in Definition :
       /\ definition[d].state \in {"none", "active", "paused"} \cup ClosedState
       /\ definition[d].next \in {0} \cup Time /\ definition[d].retries \in 0..MaxRetries
  /\ \A o \in occurrences :
       /\ o.due \in Time /\ o.status \in {"enqueued", "skipped", "missed", "blocked", "cancelled"}
       /\ o.job \in {"none", "queued", "sent", "ended", "cancelled"}

\* However many schedulers and operators act, an endpoint has one unfinished job at most.
NoOverlap ==
  \A e \in Endpoint : Cardinality({o \in occurrences : o.endpoint = e /\ o.job \in ActiveJob}) <= 1
\* A slot of a revision gives an endpoint one job at most, two rounds or not.
OncePerSlot ==
  \A o, p \in occurrences : KeyOf(o) = KeyOf(p) => o = p
\* What is called cancelled was never sent.
CancelledWasNotSent ==
  \A o \in occurrences : o.status = "cancelled" => o.job \in {"none", "cancelled"}
\* An active definition has a slot to come, so that no scheduler passes it by for ever.
ActiveHasNext == \A d \in Definition : definition[d].state = "active" => definition[d].next # 0
\* The calendar is kept.
CalendarIsKept == NoOverlap /\ OncePerSlot /\ CancelledWasNotSent /\ ActiveHasNext

\* Schedulers go forward: no job for a slot before one that already has its job; and a
\* definition that is closed stays so, unless a scheduler reopens it by pausing it.
SlotsGoForward ==
  [][\A o \in occurrences' : KeyOf(o) \notin {KeyOf(p) : p \in occurrences} /\ o.run = "scheduled" /\ o.job = "queued" =>
       \A p \in occurrences : p.definition = o.definition /\ p.revision = o.revision /\ p.run = "scheduled"
         => p.due <= o.due]_automationVars
ClosedDefinitionIsFinal ==
  [][\A d \in Definition : definition[d].state \in ClosedState /\ d \notin reopened'
       => definition'[d].state = definition[d].state]_automationVars

\* What is due is materialized, or no longer due; a retry that lies beyond the bound of
\* the clock is not waited for.
DueOpen(d) ==
  definition[d].state = "active" /\ definition[d].next \in 1..time /\ definition[d].retryAt <= MaxTime
DueIsProcessed == \A d \in Definition : []<>~DueOpen(d)
=============================================================================
