------------------------------ MODULE Inventory ------------------------------
(***************************************************************************)
(* How a computer's inventory reaches the server: the agent's worker reads *)
(* the groups that are due and posts them, a job reads all of them and its *)
(* result may be delivered much later, and heartbeats go out beside both.  *)
(* The server merges what arrives, in whatever order, into columns and     *)
(* dated evidence.  A value stands for the reading it comes from, so that  *)
(* it is its own true date; 0 is "never".                                  *)
(***************************************************************************)
EXTENDS Integers

CONSTANTS
  HeartbeatField,  \* fields that heartbeats carry
  MaxWishes,       \* bound on cadences that pass, inventories that are ordered and heartbeats
  MaxSetbacks      \* bound on incomplete readings, lost or late calls, failed saves and stops

Field == {"os", "memory", "cpu", "ip"}
Section == {"system", "hardware", "network"}
InventoryGroup == {"basic", "detailed", "network"}
SectionOf(f) == IF f = "os" THEN "system" ELSE IF f = "ip" THEN "network" ELSE "hardware"
InventoryAssumption == HeartbeatField \subseteq Field /\ MaxWishes \in Nat /\ MaxSetbacks \in Nat

VARIABLES
  clock,       \* number of readings so far
  expired,     \* groups whose cadence has passed since their checkpoint
  checkpoint,  \* the reading of each group that was acknowledged: AgentState in memory
  saved,       \* and on disk
  worker,      \* "idle", "posting", "answered" or "saving"
  posting,     \* the reading the worker posts
  sent,        \* messages on their way, job results in the agent's queue among them
  column,      \* columns of the latest InventorySnapshot (and of AgentMachine)
  evidence,    \* the same fields in collections of its raw_payload
  dated,       \* collected_at of each section there
  cpuDated,    \* collected_at of the cpu, which keeps its own
  tried,       \* inventory_observations: status and last_success_at of each section
  basis,       \* snapshot_source, latest_collection_type, and whether there is a scheduled_inventory
  full,        \* the snapshot that the last inventory of a job has made: its columns and evidence
  proven,      \* heartbeat_inventory: what the last heartbeat observed, and the origin of the rest
  received,    \* history: messages the server has recorded
  wishes, setbacks

agent == <<clock, expired, checkpoint, saved, worker, posting>>
server == <<column, evidence, dated, cpuDated, tried, basis, full, proven, received>>
inventoryVars == <<agent, sent, server, wishes, setbacks>>

InventoryInit ==
  /\ clock = 0 /\ expired = {} /\ checkpoint = [g \in InventoryGroup |-> 0] /\ saved = checkpoint
  /\ worker = "idle" /\ posting = 0 /\ sent = {}
  /\ column = [f \in Field |-> 0] /\ evidence = column /\ dated = [s \in Section |-> 0] /\ cpuDated = 0
  /\ tried = [s \in Section |-> [status |-> "none", success |-> 0]]
  /\ basis = [source |-> "none", scope |-> "none", scheduled |-> FALSE] /\ full = [column |-> column, evidence |-> evidence]
  /\ proven = [observed |-> {}, at |-> 0, inherited |-> {}, origin |-> column]
  /\ received = {} /\ wishes = 0 /\ setbacks = 0

Wish == wishes < MaxWishes /\ wishes' = wishes + 1
Setback == setbacks < MaxSetbacks /\ setbacks' = setbacks + 1

---------------------------------------------------------------------------
\* Readings.

\* The platform is read once for system and hardware; only a detailed reading has the cpu, and it has the details
\* of the hardware even if it does not have the platform.
Read(plan, failed) ==
  {s \in Section :
     \/ s = "system" /\ "basic" \in plan /\ "platform" \notin failed
     \/ s = "hardware" /\ plan \cap {"basic", "detailed"} # {} /\ "platform" \notin failed
     \/ s = "hardware" /\ "detailed" \in plan /\ "details" \notin failed
     \/ s = "network" /\ "network" \in plan /\ "network" \notin failed}
Asked(plan) == Read(plan, {})
Missing(failed, unknown) == IF "platform" \in failed THEN unknown \cup {"os", "memory", "cpu"} ELSE unknown
Knows(plan, sections, unknown) ==
  {f \in Field \ unknown : SectionOf(f) \in sections /\ (f = "cpu" => "detailed" \in plan)}
\* What a reading of the groups of a plan may bring, of which some queries fail and some succeed without a value.
\* whole: all queries of a detailed reading have succeeded, so that it carries detailed_collected_at.
Yield(plan, failed, unknown, whole) ==
  LET sections == Read(plan, failed)
      knows == Knows(plan, sections, Missing(failed, unknown))
  IN [sections |-> sections, knows |-> knows, whole |-> whole /\ "details" \notin failed /\ "cpu" \in knows]
Yields == [plan \in SUBSET InventoryGroup |->
  {Yield(plan, failed, unknown, whole) :
     failed \in SUBSET {"platform", "details", "network"}, unknown \in SUBSET {"cpu", "ip"}, whole \in BOOLEAN}]
Complete(m) == m.knows = Knows(m.plan, Asked(m.plan), {}) /\ ("detailed" \in m.plan => m.whole)
Reads(scope, plan) ==
  /\ clock' = clock + 1
  /\ \E y \in Yields[plan] :
       LET m == [at |-> clock + 1, scope |-> scope, plan |-> plan, sections |-> y.sections, knows |-> y.knows,
                 whole |-> y.whole] IN
         /\ sent' = sent \cup {m}
         /\ IF Complete(m) THEN UNCHANGED setbacks ELSE Setback

Due == {g \in InventoryGroup : checkpoint[g] = 0 \/ g \in expired}
Passes(g) ==
  /\ Wish /\ g \notin Due /\ expired' = expired \cup {g}
  /\ UNCHANGED <<clock, checkpoint, saved, worker, posting, sent, server, setbacks>>
\* SendCollectionAsync: reading and posting exclude the inventory of a job, waiting for the answer does not.
Collect ==
  /\ worker = "idle" /\ Due # {} /\ worker' = "posting" /\ posting' = clock + 1
  /\ UNCHANGED <<expired, checkpoint, saved, server, wishes>> /\ Reads("scheduled", Due)
\* A job force_inventory; its result waits in the queue until the server has it.
CollectForJob ==
  /\ Wish /\ Reads("full", InventoryGroup)
  /\ UNCHANGED <<expired, checkpoint, saved, worker, posting, server>>
\* RunHeartbeatLoopAsync: observes what can be had without a collection.
Beat ==
  /\ Wish /\ clock' = clock + 1
  /\ \E knows \in SUBSET HeartbeatField :
       sent' = sent \cup {[at |-> clock + 1, scope |-> "heartbeat", plan |-> {}, sections |-> {},
                           knows |-> knows, whole |-> FALSE]}
  /\ UNCHANGED <<expired, checkpoint, saved, worker, posting, server, setbacks>>

\* RecordInventoryCheckpoint: only groups that were read, and only after the acknowledgement.
Satisfied(m) ==
  {g \in m.plan : \/ g = "basic" /\ "system" \in m.sections
                  \/ g = "detailed" /\ m.whole
                  \/ g = "network" /\ "network" \in m.sections}
RecordCheckpoint ==
  /\ worker = "answered" /\ worker' = "saving"
  /\ \E m \in received :
       /\ m.at = posting
       /\ checkpoint' = [g \in InventoryGroup |-> IF g \in Satisfied(m) THEN m.at ELSE checkpoint[g]]
       /\ expired' = expired \ Satisfied(m)
  /\ UNCHANGED <<clock, saved, posting, sent, server, wishes, setbacks>>
\* The call fails, before it reached the server, on its way back, or because it is late.
GiveUp ==
  /\ worker \in {"posting", "answered"} /\ Setback /\ worker' = "saving"
  /\ sent' \in {sent, {m \in sent : m.at # posting}}
  /\ UNCHANGED <<clock, expired, checkpoint, saved, posting, server, wishes>>
SaveState ==
  /\ worker = "saving" /\ worker' = "idle" /\ posting' = 0
  /\ \/ saved' = checkpoint /\ UNCHANGED setbacks
     \/ UNCHANGED saved /\ Setback
  /\ UNCHANGED <<clock, expired, checkpoint, sent, server, wishes>>
Stop ==
  /\ Setback /\ worker' = "idle" /\ posting' = 0 /\ checkpoint' = saved
  /\ expired' = expired \cup {g \in InventoryGroup : saved[g] # checkpoint[g]}
  /\ UNCHANGED <<clock, saved, sent, server, wishes>>

---------------------------------------------------------------------------
\* The server; both handlers hold the row's lock.

\* Mutant: a reading that did not succeed counts.
LearnedFromAll(m, old) == [f \in Field |-> IF SectionOf(f) \in Asked(m.plan) \/ f \in m.knows
                                           THEN IF f \in m.knows THEN m.at ELSE 0 ELSE old[f]]
\* Unknown readings never replace what is known.
Learned(m, old) == [f \in Field |-> IF f \in m.knows THEN m.at ELSE old[f]]
RecordCollection(m) ==
  /\ column' = Learned(m, column) /\ evidence' = Learned(m, evidence)
  /\ dated' = [s \in Section |-> IF s \in m.sections THEN m.at ELSE dated[s]]
  /\ cpuDated' = IF "cpu" \in m.knows THEN m.at ELSE cpuDated
  /\ tried' = [s \in Section |->
       IF s \in m.sections THEN [status |-> "available", success |-> m.at]
       ELSE IF s \in Asked(m.plan) THEN [tried[s] EXCEPT !.status = "failed"] ELSE tried[s]]
  /\ basis' = [source |-> "collection", scope |-> m.scope, scheduled |-> basis.scheduled \/ m.scope = "scheduled"]
  /\ full' = IF m.scope = "full" THEN [column |-> column', evidence |-> evidence'] ELSE full
  /\ UNCHANGED proven
\* Where a heartbeat says that a value it did not observe comes from: from where the last one said, unless a
\* collection that was not a scheduled one came in between.
Refreshed == basis.source = "collection" /\ basis.scope = "full"
Origin(f) ==
  IF ~Refreshed /\ f \in proven.inherited THEN proven.origin[f]
  ELSE IF ~Refreshed /\ f \in proven.observed THEN proven.at
  ELSE dated[SectionOf(f)]
RecordHeartbeat(m) ==
  LET inherited == {f \in Field \ m.knows : column[f] # 0} IN
    /\ column' = Learned(m, column)
    /\ basis' = [basis EXCEPT !.source = "heartbeat"]
    /\ proven' = [observed |-> m.knows, at |-> m.at, inherited |-> inherited,
                  origin |-> [f \in Field |-> IF f \in inherited THEN Origin(f) ELSE 0]]
    /\ UNCHANGED <<evidence, dated, cpuDated, tried, full>>
Serve(m) ==
  /\ m \in sent /\ sent' = sent \ {m} /\ received' = received \cup {m}
  /\ IF m.scope = "heartbeat" THEN RecordHeartbeat(m) ELSE RecordCollection(m)
  /\ worker' = IF worker = "posting" /\ posting = m.at THEN "answered" ELSE worker
  /\ UNCHANGED <<clock, expired, checkpoint, saved, posting, wishes, setbacks>>
\* A heartbeat that is lost, or a job's inventory that cannot be recorded: the job is completed all the same.
Drop(m) ==
  /\ m \in sent /\ m.at # posting /\ Setback /\ sent' = sent \ {m}
  /\ UNCHANGED <<agent, server, wishes>>

InventoryNext ==
  \/ \E g \in InventoryGroup : Passes(g)
  \/ Collect \/ CollectForJob \/ Beat \/ RecordCheckpoint \/ GiveUp \/ SaveState \/ Stop
  \/ \E m \in sent : Serve(m) \/ Drop(m)
ServePosted == \E m \in sent : m.at = posting /\ Serve(m)
\* The worker is a loop, and the call it waits for is answered or given up.
InventorySpec ==
  /\ InventoryInit /\ [][InventoryNext]_inventoryVars
  /\ WF_inventoryVars(Collect \/ RecordCheckpoint \/ SaveState) /\ WF_inventoryVars(ServePosted)

\* What two pages show of it: the endpoint's takes the evidence first and the columns if there is none, the one
\* about capacity does so with the snapshot it chooses.
OnPage(f) ==
  IF \A s \in Section : dated[s] = 0 THEN 0
  ELSE IF evidence[f] # 0 \/ f = "ip" THEN evidence[f] ELSE column[f]
Chosen == IF basis.scheduled /\ dated["hardware"] # 0 THEN [column |-> column, evidence |-> evidence] ELSE full
InCapacity(f) == IF Chosen.evidence[f] # 0 THEN Chosen.evidence[f] ELSE Chosen.column[f]

---------------------------------------------------------------------------
Message == [at : Nat, scope : {"scheduled", "full", "heartbeat"}, plan : SUBSET InventoryGroup, sections : SUBSET Section,
            knows : SUBSET Field, whole : BOOLEAN]
InventoryTypeOK ==
  /\ clock \in Nat /\ expired \subseteq InventoryGroup /\ checkpoint \in [InventoryGroup -> Nat] /\ saved \in [InventoryGroup -> Nat]
  /\ worker \in {"idle", "posting", "answered", "saving"} /\ posting \in Nat
  /\ sent \subseteq Message /\ received \subseteq Message
  /\ column \in [Field -> Nat] /\ evidence \in [Field -> Nat] /\ dated \in [Section -> Nat] /\ cpuDated \in Nat
  /\ tried \in [Section -> [status : {"none", "available", "failed"}, success : Nat]]
  /\ basis \in [source : {"none", "collection", "heartbeat"}, scope : {"none", "scheduled", "full"}, scheduled : BOOLEAN]
  /\ full \in [column : [Field -> Nat], evidence : [Field -> Nat]]
  /\ proven \in [observed : SUBSET Field, at : Nat, inherited : SUBSET Field, origin : [Field -> Nat]]
  /\ wishes \in 0 .. MaxWishes /\ setbacks \in 0 .. MaxSetbacks

\* Nothing that was ever reported is forgotten, whatever failed or partial readings follow and in whatever order
\* they arrive, and nothing is shown that was not reported.
Reported(f, readings) == {m \in received : f \in m.knows /\ m.scope \in readings}
EvidenceIsKept ==
  \A f \in Field :
    /\ column[f] = 0 <=> Reported(f, {"scheduled", "full", "heartbeat"}) = {}
    /\ evidence[f] = 0 <=> Reported(f, {"scheduled", "full"}) = {}
    /\ column[f] # 0 => \E m \in received : m.at = column[f] /\ f \in m.knows
    /\ evidence[f] # 0 => \E m \in received : m.at = evidence[f] /\ f \in m.knows /\ m.scope # "heartbeat"

\* The dates of sections are those of their readings, whose values they have unless the reading did not know them;
\* the cpu has its own; and what no heartbeat carries is the same in the columns, by which alerts and lists go,
\* and in the evidence the page of the endpoint shows.
DatesAreTrue ==
  /\ cpuDated = evidence["cpu"]
  /\ \A s \in Section : tried[s].success = dated[s]
  /\ \A m \in received, f \in Field :
       m.at = dated[SectionOf(f)] /\ f \in m.knows => evidence[f] = m.at
  /\ \A f \in Field \ HeartbeatField : column[f] = evidence[f]

\* A group whose checkpoint has moved, in memory or on disk, has been read, and the server has that reading: no
\* lost call, late answer or stop leaves a group out until its next cadence.
CheckpointIsReceived ==
  \A g \in InventoryGroup, point \in {checkpoint, saved} :
    point[g] # 0 => \E m \in received : m.at = point[g] /\ g \in Satisfied(m) /\ m.scope = "scheduled"

\* The date a heartbeat gives for a value it did not observe is that of a report the server has, of the value or
\* of its section.
OriginIsReported ==
  \A f \in proven.inherited : proven.origin[f] # 0 =>
    \E m \in received : m.at = proven.origin[f] /\ (f \in m.knows \/ SectionOf(f) \in m.sections)

\* The two pages show the same processor and memory, unless heartbeats carry them, and nothing that was not reported.
PagesAgree ==
  /\ \A f \in {"cpu", "memory"} \ HeartbeatField : InCapacity(f) = OnPage(f)
  /\ \A f \in Field : OnPage(f) # 0 => \E m \in received : m.at = OnPage(f) /\ f \in m.knows

\* Once known stays known, dates and checkpoints are true, what is inherited was reported, and pages agree.
InventoryIsKept == EvidenceIsKept /\ DatesAreTrue /\ CheckpointIsReceived /\ OriginIsReported /\ PagesAgree

\* Groups that are due get read and reported.
InventoryPending == Due # {}
=============================================================================
