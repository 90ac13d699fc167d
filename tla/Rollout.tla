------------------------------- MODULE Rollout -------------------------------
(***************************************************************************)
(* Update campaigns: administrators control campaigns and their waves, a   *)
(* dispatcher turns the running wave's targets into update jobs, and       *)
(* governance reconciles the targets with their jobs and pauses, observes  *)
(* or completes the wave.  The three run at the same time.  Each handler   *)
(* holds the campaign's row lock from start to end and is one action; the  *)
(* start of a campaign reads rows it does not lock and is two.             *)
(***************************************************************************)
EXTENDS FiniteSets, Integers

CONSTANTS
  Campaign, Wave, Endpoint,
  Target,        \* AgentRolloutTarget rows selected as eligible
  CampaignOf,    \* the campaign of a wave
  Sequence,      \* the position of a wave in its campaign
  WaveOf,        \* the wave of a target
  EndpointOf,    \* the endpoint of a target
  Limit,         \* concurrency_limit of a campaign
  AutoPause,     \* campaigns with auto_pause_policy.enabled
  Tolerance,     \* the thresholds of the policy
  Fickle,        \* targets whose job may still change after it was closed
  Troubled,      \* endpoints whose condition may change
  Managed,       \* endpoints that other lifecycle writers use too
  NoWave, NoCampaign

Symptom == {"failed", "rolled_back", "cancelled", "lost"}

ASSUME RolloutAssumption ==
  /\ IsFiniteSet(Target)
  /\ CampaignOf \in [Wave -> Campaign]
  /\ Sequence \in [Wave -> Nat]
  /\ \A v, w \in Wave :
       CampaignOf[v] = CampaignOf[w] /\ Sequence[v] = Sequence[w] => v = w
  /\ WaveOf \in [Target -> Wave]
  /\ EndpointOf \in [Target -> Endpoint]
  /\ \A s, t \in Target :
       CampaignOf[WaveOf[s]] = CampaignOf[WaveOf[t]] /\ EndpointOf[s] = EndpointOf[t]
         => s = t
  /\ Limit \in [Campaign -> Nat \ {0}]
  /\ AutoPause \subseteq Campaign
  /\ Tolerance \in [Symptom -> Nat \ {0}]
  /\ NoWave \notin Wave
  /\ NoCampaign \notin Campaign

VARIABLES
  campaign,      \* AgentRolloutCampaign.state
  current,       \* AgentRolloutCampaign.current_wave
  wave,          \* AgentRolloutWave.state
  resume,        \* AgentRolloutWave.resume_state
  ripe,          \* waves whose minimum observation time has passed
  target,        \* AgentRolloutTarget.state
  job,           \* the target's update job: "none", or its status; sent is queued
  evidence,      \* what backs a completed job: receipt, version and health
  condition,     \* the endpoint as the safety checks see it
  busy,          \* another writer's lifecycle job on the endpoint, or "none"
  starting,      \* campaigns whose start or resume is between check and commit
  round          \* the campaign that governance has just reconciled

adminVars == <<campaign, current, wave, resume>>
envVars == <<condition, busy>>
vars == <<campaign, current, wave, resume, ripe, target, job, evidence,
          condition, busy, starting, round>>

CampaignState == {"draft", "ready", "running", "paused", "completed", "aborted"}
WaveState ==
  {"pending", "ready", "running", "observing", "paused", "completed", "cancelled"}
Active == {"running", "observing", "paused"}
Terminal == {"succeeded", "failed", "rolled_back", "cancelled"}
TargetState == {"eligible", "queued", "running"} \cup Terminal
Open == {"queued", "running"}
JobStatus == {"none"} \cup Open \cup
  {"completed", "failed", "cancelled", "rolled_back", "rollback_failed"}

Owner(t) == CampaignOf[WaveOf[t]]
Targets(w) == {t \in Target : WaveOf[t] = w}
WavesOf(c) == {w \in Wave : CampaignOf[w] = c}
Earlier(w) == {v \in WavesOf(CampaignOf[w]) : Sequence[v] < Sequence[w]}

RolloutTypeOK ==
  /\ campaign \in [Campaign -> CampaignState]
  /\ current \in [Campaign -> Wave \cup {NoWave}]
  /\ wave \in [Wave -> WaveState]
  /\ resume \in [Wave -> Active \cup {"none"}]
  /\ ripe \subseteq Wave
  /\ target \in [Target -> TargetState]
  /\ job \in [Target -> JobStatus]
  /\ evidence \in [Target -> {"none", "full", "conflict"}]
  /\ condition \in [Endpoint -> {"fit", "barred", "lost"}]
  /\ busy \in [Endpoint -> {"none", "update", "restart"}]
  /\ starting \subseteq Campaign
  /\ round \in Campaign \cup {NoCampaign}

Init ==
  /\ campaign = [c \in Campaign |-> "draft"]
  /\ current = [c \in Campaign |-> NoWave]
  /\ wave = [w \in Wave |-> "pending"]
  /\ resume = [w \in Wave |-> "none"]
  /\ ripe = {}
  /\ target = [t \in Target |-> "eligible"]
  /\ job = [t \in Target |-> "none"]
  /\ evidence = [t \in Target |-> "none"]
  /\ condition = [e \in Endpoint |-> "fit"]
  /\ busy = [e \in Endpoint |-> "none"]
  /\ starting = {}
  /\ round = NoCampaign

-----------------------------------------------------------------------------
(* What administrators do to a campaign. *)

\* The row lock: a start that has passed its check keeps everyone else out.
Unlocked(c) == c \notin starting

MoveCampaign(c, s) ==
  /\ campaign' = [campaign EXCEPT ![c] = s]
  /\ UNCHANGED <<ripe, target, job, evidence, condition, busy, round>>

Approve(c) ==
  /\ Unlocked(c)
  /\ campaign[c] = "draft"
  /\ MoveCampaign(c, "ready")
  /\ UNCHANGED <<current, wave, resume, starting>>

EndpointsOf(c) == {EndpointOf[t] : t \in {u \in Target : Owner(u) = c}}

\* Campaigns under way that have an endpoint in common with c.
Rivals(c) ==
  {d \in Campaign \ {c} : campaign[d] \in {"running", "paused"}
                            /\ EndpointsOf(c) \cap EndpointsOf(d) # {}}

\* Start and resume look for rivals under their own campaign's lock only ...
CheckRivals(c) ==
  /\ Unlocked(c)
  /\ campaign[c] \in {"ready", "paused"}
  /\ Rivals(c) = {}
  /\ starting' = starting \cup {c}
  /\ UNCHANGED <<adminVars, ripe, target, job, evidence, envVars, round>>

\* ... and commit later.
Run(c) ==
  /\ c \in starting
  /\ starting' = starting \ {c}
  /\ MoveCampaign(c, "running")
  /\ UNCHANGED <<current, wave, resume>>

PauseCampaign(c) ==
  /\ Unlocked(c)
  /\ campaign[c] = "running"
  /\ MoveCampaign(c, "paused")
  /\ UNCHANGED <<current, wave, resume, starting>>

Abort(c) ==
  /\ Unlocked(c)
  /\ campaign[c] \in {"draft", "ready", "running", "paused"}
  /\ MoveCampaign(c, "aborted")
  /\ current' = [current EXCEPT ![c] = NoWave]
  /\ wave' = [w \in Wave |-> IF w \in WavesOf(c) /\ wave[w] # "completed"
                               THEN "cancelled" ELSE wave[w]]
  /\ UNCHANGED <<resume, starting>>

-----------------------------------------------------------------------------
(* What administrators do to a wave.  All of it needs a running campaign. *)

EarlierCompleted(w) == \A v \in Earlier(w) : wave[v] = "completed"

OthersInactive(w) == \A v \in WavesOf(CampaignOf[w]) \ {w} : wave[v] \notin Active

MoveWave(w, s) ==
  /\ Unlocked(CampaignOf[w])
  /\ campaign[CampaignOf[w]] = "running"
  /\ wave' = [wave EXCEPT ![w] = s]
  /\ UNCHANGED <<campaign, ripe, target, job, evidence, envVars, starting, round>>

\* Mutant: a wave may be prepared out of turn.
PrepareAny(w) ==
  /\ wave[w] = "pending"
  /\ MoveWave(w, "ready")
  /\ UNCHANGED <<current, resume>>

Prepare(w) ==
  /\ wave[w] = "pending"
  /\ EarlierCompleted(w)
  /\ OthersInactive(w)
  /\ MoveWave(w, "ready")
  /\ UNCHANGED <<current, resume>>

StartWave(w) ==
  /\ wave[w] = "ready"
  /\ EarlierCompleted(w)
  /\ OthersInactive(w)
  /\ MoveWave(w, "running")
  /\ current' = [current EXCEPT ![CampaignOf[w]] = w]
  /\ UNCHANGED resume

\* Mutant: the state to resume is not saved.
PauseWaveForgets(w) ==
  /\ wave[w] \in {"running", "observing"}
  /\ OthersInactive(w)
  /\ MoveWave(w, "paused")
  /\ current' = [current EXCEPT ![CampaignOf[w]] = w]
  /\ UNCHANGED resume

PauseWave(w) ==
  /\ wave[w] \in {"running", "observing"}
  /\ OthersInactive(w)
  /\ MoveWave(w, "paused")
  /\ resume' = [resume EXCEPT ![w] = wave[w]]
  /\ current' = [current EXCEPT ![CampaignOf[w]] = w]

\* The destination is whatever resume_state holds.
ResumeWave(w) ==
  /\ wave[w] = "paused"
  /\ OthersInactive(w)
  /\ resume[w] = "running" => EarlierCompleted(w)
  /\ MoveWave(w, resume[w])
  /\ current' = [current EXCEPT ![CampaignOf[w]] = w]
  /\ UNCHANGED resume

-----------------------------------------------------------------------------
(* The dispatcher. *)

\* Mutant: only the campaign's own jobs are counted.
OccupiedByOwn(c) ==
  {e \in EndpointsOf(c) :
     \E t \in Target : Owner(t) = c /\ EndpointOf[t] = e /\ job[t] \in Open}

\* Endpoints of the campaign with a job the planner counts.  It does not count
\* restarts and changes of the telemetry configuration, which the other writers do.
Occupied(c) ==
  {e \in EndpointsOf(c) : busy[e] = "update"
                            \/ \E t \in Target : EndpointOf[t] = e /\ job[t] \in Open}

Dispatchable(c) ==
  {t \in Targets(current[c]) : /\ target[t] = "eligible"
                               /\ job[t] = "none"
                               /\ condition[EndpointOf[t]] = "fit"
                               /\ EndpointOf[t] \notin Occupied(c)}

\* Mutant: the jobs already open are not counted.
SelectionUncounted(c, S) ==
  /\ S # {}
  /\ S \subseteq Dispatchable(c)
  /\ Cardinality(S) <= Limit[c]

\* The planner takes as many as the limit leaves room for, by bucket; which
\* ones makes no difference here.
Selection(c, S) ==
  /\ S # {}
  /\ S \subseteq Dispatchable(c)
  /\ Cardinality(S) <= Limit[c] - Cardinality(Occupied(c))
  /\ \/ S = Dispatchable(c)
     \/ Cardinality(S) = Limit[c] - Cardinality(Occupied(c))

Dispatch(c, S) ==
  /\ Unlocked(c)
  /\ campaign[c] = "running"
  /\ current[c] # NoWave
  /\ wave[current[c]] = "running"
  /\ EarlierCompleted(current[c])
  /\ Selection(c, S)
  /\ target' = [t \in Target |-> IF t \in S THEN "queued" ELSE target[t]]
  /\ job' = [t \in Target |-> IF t \in S THEN "queued" ELSE job[t]]
  /\ UNCHANGED <<adminVars, ripe, evidence, envVars, starting, round>>

-----------------------------------------------------------------------------
(* Reconciliation: what the job says of its target. *)

\* The state the evidence calls for; a terminal target keeps the one it has.
DesiredByJob(t) ==
  CASE job[t] = "none"                       -> target[t]
    [] job[t] \in Open                       -> job[t]
    [] job[t] \in {"cancelled", "rolled_back"} -> job[t]
    [] job[t] \in {"failed", "rollback_failed"} -> "failed"
    [] job[t] = "completed" ->
         IF evidence[t] = "full" THEN "succeeded" ELSE "running"

\* Mutant: a completed job is taken for a success whatever its receipt says.
DesiredUnproven(t) ==
  IF target[t] \notin Terminal /\ job[t] = "completed" THEN "succeeded"
  ELSE IF target[t] \in Terminal THEN target[t] ELSE DesiredByJob(t)

\* Mutant: a target follows its job even after it was closed.
DesiredAlways(t) == DesiredByJob(t)

Desired(t) == IF target[t] \in Terminal THEN target[t] ELSE DesiredByJob(t)

Reconciled(c) == [t \in Target |-> IF Owner(t) = c THEN Desired(t) ELSE target[t]]

\* reconcile_agent_rollouts, by hand or by its timer.
Reconcile(c) ==
  /\ Unlocked(c)
  /\ target' = Reconciled(c)
  /\ UNCHANGED <<adminVars, ripe, job, evidence, envVars, starting, round>>

\* The governance round reconciles a campaign in one transaction ...
BeginRound(c) ==
  /\ round = NoCampaign
  /\ Unlocked(c)
  /\ target' = Reconciled(c)
  /\ round' = c
  /\ UNCHANGED <<adminVars, ripe, job, evidence, envVars, starting>>

-----------------------------------------------------------------------------
(* ... and judges it in another. *)

\* Never tolerated: evidence that contradicts itself, a rollback that failed.
HardStop(t) ==
  \/ job[t] = "rollback_failed" /\ target[t] \in {"failed"} \cup (TargetState \ Terminal)
  \/ job[t] = "completed" /\ evidence[t] = "conflict" /\ target[t] \notin Terminal

Shows(t, s) ==
  IF s = "lost"
    THEN job[t] # "none" /\ target[t] \notin Terminal /\ condition[EndpointOf[t]] = "lost"
    ELSE Desired(t) = s

MustStop(c) ==
  \/ \E t \in Targets(current[c]) : HardStop(t)
  \/ /\ c \in AutoPause
     /\ \E s \in Symptom :
          Cardinality({t \in Targets(current[c]) : Shows(t, s)}) >= Tolerance[s]

AllSucceeded(w) == \A t \in Targets(w) : Desired(t) = "succeeded"

\* The observation looks at what is saved, not at what the jobs now say.
Healthy(w) ==
  \A t \in Targets(w) : target[t] = "succeeded" /\ condition[EndpointOf[t]] # "lost"

Decision(c) ==
  IF campaign[c] # "running" \/ current[c] = NoWave THEN "continue"
  ELSE IF MustStop(c) THEN "auto_pause"
  ELSE CASE wave[current[c]] = "running" /\ AllSucceeded(current[c]) -> "start_observation"
         [] wave[current[c]] = "observing" /\ ~Healthy(current[c]) ->
              IF c \in AutoPause THEN "auto_pause" ELSE "observation_blocked"
         [] wave[current[c]] = "observing" /\ Healthy(current[c])
              /\ current[c] \in ripe -> "complete_wave"
         [] OTHER -> "continue"

Judge(c, d) ==
  /\ round = c
  /\ Unlocked(c)
  /\ Decision(c) = d
  /\ round' = NoCampaign
  /\ UNCHANGED <<ripe, target, job, evidence, envVars, starting>>

\* The wave may have been paused by hand before.
SystemPause(c) ==
  /\ Judge(c, "auto_pause")
  /\ resume' = [resume EXCEPT ![current[c]] = wave[current[c]]]
  /\ wave' = [wave EXCEPT ![current[c]] = "paused"]
  /\ campaign' = [campaign EXCEPT ![c] = "paused"]
  /\ UNCHANGED current

StartObservation(c) ==
  /\ Judge(c, "start_observation")
  /\ wave' = [wave EXCEPT ![current[c]] = "observing"]
  /\ UNCHANGED <<campaign, current, resume>>

\* Mutant: the campaign is completed with its last wave of the moment.
CampaignCleanSoFar(c) == \A w \in Earlier(current[c]) : wave[w] = "completed"

\* Every target of the campaign has succeeded and its other waves are complete.
CampaignClean(c) ==
  /\ \A t \in Target : Owner(t) = c => Desired(t) = "succeeded"
  /\ \A w \in WavesOf(c) \ {current[c]} : wave[w] = "completed"

CompleteWave(c) ==
  /\ Judge(c, "complete_wave")
  /\ wave' = [wave EXCEPT ![current[c]] = "completed"]
  /\ current' = [current EXCEPT ![c] = NoWave]
  /\ campaign' = IF CampaignClean(c) THEN [campaign EXCEPT ![c] = "completed"]
                                     ELSE campaign
  /\ UNCHANGED resume

LeaveAsIs(c) ==
  /\ \E d \in {"continue", "observation_blocked"} : Judge(c, d)
  /\ UNCHANGED adminVars

\* The process that runs the round stops between its two transactions.
RoundLost ==
  /\ round # NoCampaign
  /\ round' = NoCampaign
  /\ UNCHANGED <<adminVars, ripe, target, job, evidence, envVars, starting>>

-----------------------------------------------------------------------------
(* The agents, the other lifecycle writers and time. *)

Closed == JobStatus \ (Open \cup {"none"})

\* How an update job's status may change.  Closed is final, except that an
\* interrupted update may be resolved later, a completed one rolled back, and
\* the console may mark failed a job it saw before it was closed.
JobMoves ==
  [s \in JobStatus |->
     CASE s = "queued"    -> {"running"} \cup Closed
       [] s = "running"   -> Closed
       [] s = "failed"    -> {"completed", "rolled_back", "rollback_failed"}
       [] s = "completed" -> {"failed", "rolled_back", "rollback_failed"}
       [] OTHER           -> {}]

JobChanges(t) ==
  /\ job[t] \in Open \/ t \in Fickle
  /\ \E s \in JobMoves[job[t]] : job' = [job EXCEPT ![t] = s]
  /\ UNCHANGED <<adminVars, ripe, target, evidence, envVars, starting, round>>

\* Version and health are confirmed, or a second result contradicts the first.
EvidenceArrives(t) ==
  /\ job[t] = "completed"
  /\ \/ evidence[t] = "none" /\ evidence' = [evidence EXCEPT ![t] = "full"]
     \/ evidence[t] # "conflict" /\ evidence' = [evidence EXCEPT ![t] = "conflict"]
  /\ UNCHANGED <<adminVars, ripe, target, job, envVars, starting, round>>

ConditionChanges(e) ==
  /\ e \in Troubled
  /\ \E s \in {"fit", "barred", "lost"} \ {condition[e]} :
       condition' = [condition EXCEPT ![e] = s]
  /\ UNCHANGED <<adminVars, ripe, target, job, evidence, busy, starting, round>>

\* Under the endpoint's lock, and only if no lifecycle job of any kind is open.
OtherJob(e, k) ==
  /\ e \in Managed
  /\ busy[e] = "none"
  /\ \A t \in Target : EndpointOf[t] = e => job[t] \notin Open
  /\ busy' = [busy EXCEPT ![e] = k]
  /\ UNCHANGED <<adminVars, ripe, target, job, evidence, condition, starting, round>>

OtherJobEnds(e) ==
  /\ busy[e] # "none"
  /\ busy' = [busy EXCEPT ![e] = "none"]
  /\ UNCHANGED <<adminVars, ripe, target, job, evidence, condition, starting, round>>

\* The clock of an observation stops with the wave, not with the campaign.
Ripen(w) ==
  /\ wave[w] = "observing"
  /\ ripe' = ripe \cup {w}
  /\ UNCHANGED <<adminVars, target, job, evidence, envVars, starting, round>>

Next ==
  \/ \E c \in Campaign :
       \/ Approve(c) \/ CheckRivals(c) \/ Run(c) \/ PauseCampaign(c) \/ Abort(c)
       \/ Reconcile(c) \/ BeginRound(c)
       \/ SystemPause(c) \/ StartObservation(c) \/ CompleteWave(c) \/ LeaveAsIs(c)
       \/ \E S \in SUBSET Target : Dispatch(c, S)
  \/ \E w \in Wave : Prepare(w) \/ StartWave(w) \/ PauseWave(w) \/ ResumeWave(w) \/ Ripen(w)
  \/ \E t \in Target : JobChanges(t) \/ EvidenceArrives(t)
  \/ \E e \in Endpoint : ConditionChanges(e) \/ OtherJobEnds(e)
  \/ \E e \in Endpoint, k \in {"update", "restart"} : OtherJob(e, k)
  \/ RoundLost

Spec == Init /\ [][Next]_vars

-----------------------------------------------------------------------------
(* Properties. *)

\* A campaign has at most one active wave, and its current wave is that one:
\* the dispatcher, governance and the console all act on the same wave.
CurrentIsActive ==
  \A w \in Wave : wave[w] \in Active <=> current[CampaignOf[w]] = w

\* No wave gets under way before the waves in front of it are complete, and a
\* complete wave has brought the release to every one of its targets, whatever
\* its jobs were reported to be in between.
WavesInOrder ==
  \A w \in Wave :
    /\ wave[w] \in {"ready", "completed"} \cup Active => EarlierCompleted(w)
    /\ wave[w] = "completed" => \A t \in Targets(w) : target[t] = "succeeded"

\* A campaign that is closed as complete has succeeded everywhere, and one that
\* was aborted leaves no wave that could be resumed or dispatched.
ClosedCampaigns ==
  \A w \in Wave :
    /\ campaign[CampaignOf[w]] = "completed" => wave[w] = "completed"
    /\ campaign[CampaignOf[w]] = "aborted" => wave[w] \in {"completed", "cancelled"}

\* A campaign and its waves agree, whoever moved either: the console, governance
\* and the dispatcher each write both.
CampaignsMatchWaves == CurrentIsActive /\ ClosedCampaigns

\* A target counts as a success only if its job completed and the receipt, the
\* version and the health check agreed; what a later rollback says comes after.
SuccessIsProven ==
  \A t \in Target : target[t] = "succeeded" =>
    evidence[t] # "none" /\ job[t] \in Closed

OpenJobs(c) == {t \in Target : Owner(t) = c /\ job[t] \in Open}

\* Whatever the other writers do, a campaign never has more updates under way
\* than its limit, over all its waves.
WithinLimit == \A c \in Campaign : Cardinality(OpenJobs(c)) <= Limit[c]

\* Two campaigns, or a campaign and a manual update, never update one endpoint
\* at the same time, even when rivals run.
OneUpdatePerEndpoint ==
  \A s, t \in Target :
    EndpointOf[s] = EndpointOf[t] /\ job[s] \in Open =>
      /\ job[t] \in Open => s = t
      /\ busy[EndpointOf[s]] # "update"

\* A target is dispatched once, and what it has come to is not revised: not by a
\* second dispatch after a resume, nor by a result that comes later.
DispatchedOnceAndFinal ==
  [][\A t \in Target :
       /\ target[t] \in Terminal => target'[t] = target[t]
       /\ job[t] # "none" => job'[t] \notin {"none", "queued"} \ {job[t]}]_vars

\* Claim of the tests of the wave controls: resuming a paused wave ends its pause.
ResumeEndsPause == \A w \in Wave : wave[w] = "paused" => resume[w] # "paused"

\* Claim of the test of overlapping campaigns: a campaign does not run while
\* another one that has an endpoint in common with it is running or paused.
RivalsDoNotRun == \A c \in Campaign : campaign[c] = "running" => Rivals(c) = {}
=============================================================================
