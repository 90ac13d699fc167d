---------------------------- MODULE RolloutProofs ----------------------------
(***************************************************************************)
(* Proofs about Rollout, for any number of campaigns, waves, targets and   *)
(* endpoints, any limits and policies.                                     *)
(***************************************************************************)
EXTENDS TLAPS, Rollout, FiniteSetTheorems

-----------------------------------------------------------------------------
(* The administrative half: campaigns, waves and the current wave. *)

\* The current wave of a campaign is one of its own.
OwnCurrent ==
  \A c \in Campaign : current[c] # NoWave => CampaignOf[current[c]] = c

\* A paused wave has a state to go back to, be it the pause itself.
PausedKnows == \A w \in Wave : wave[w] = "paused" => resume[w] \in Active

\* The row lock keeps a campaign that is being started as the check saw it.
StartingHeld == \A c \in starting : campaign[c] \in {"ready", "paused"}

AdminInv ==
  RolloutTypeOK /\ CurrentIsActive /\ OwnCurrent /\ PausedKnows /\ StartingHeld

\* The steps that leave campaigns, waves and their locks alone.
Elsewhere ==
  /\ UNCHANGED <<campaign, current, wave, resume, starting>>
  /\ RolloutTypeOK'

LEMMA ElsewhereKeeps == ASSUME AdminInv, Elsewhere PROVE AdminInv'
BY DEF AdminInv, Elsewhere, CurrentIsActive, OwnCurrent, PausedKnows, StartingHeld

\* A target's state follows its job within the declared states.
LEMMA DesiredType == ASSUME RolloutTypeOK, NEW t \in Target PROVE Desired(t) \in TargetState
BY DEF RolloutTypeOK, Desired, DesiredByJob, TargetState, Terminal, JobStatus, Open

LEMMA ReconciledType ==
  ASSUME RolloutTypeOK, NEW c \in Campaign PROVE Reconciled(c) \in [Target -> TargetState]
BY DesiredType DEF RolloutTypeOK, Reconciled

\* A move of one wave keeps the administrative invariant when it keeps, becomes
\* or leaves the current wave consistently.
LEMMA WaveMoveKeeps ==
  ASSUME AdminInv, NEW w \in Wave, NEW s \in WaveState,
         MoveWave(w, s), resume' \in [Wave -> Active \cup {"none"}],
         \A v \in Wave \ {w} : resume'[v] = resume[v],
         s = "paused" => resume'[w] \in Active,
         \/ /\ s \in Active
            /\ current' = [current EXCEPT ![CampaignOf[w]] = w]
            /\ OthersInactive(w)
         \/ /\ s \notin Active
            /\ wave[w] \notin Active
            /\ current' = current
  PROVE  AdminInv'
<1>1. RolloutTypeOK'
  <2>1. current' \in [Campaign -> Wave \cup {NoWave}]
    BY RolloutAssumption DEF AdminInv, RolloutTypeOK
  <2>2. wave' \in [Wave -> WaveState]
    BY DEF AdminInv, RolloutTypeOK, MoveWave
  <2> QED
    BY <2>1, <2>2 DEF AdminInv, RolloutTypeOK, MoveWave, envVars
<1>2. CurrentIsActive'
  <2> SUFFICES ASSUME NEW v \in Wave
               PROVE  wave'[v] \in Active <=> current'[CampaignOf[v]] = v
    BY DEF CurrentIsActive
  <2>0. CampaignOf[v] \in Campaign /\ CampaignOf[w] \in Campaign
    BY RolloutAssumption
  <2>1. CASE v = w
    BY <2>0, <2>1 DEF AdminInv, RolloutTypeOK, MoveWave, CurrentIsActive
  <2>2. CASE v # w /\ CampaignOf[v] = CampaignOf[w]
    BY <2>0, <2>2 DEF AdminInv, RolloutTypeOK, MoveWave, CurrentIsActive,
                      OthersInactive, WavesOf
  <2>3. CASE v # w /\ CampaignOf[v] # CampaignOf[w]
    BY <2>0, <2>3 DEF AdminInv, RolloutTypeOK, MoveWave, CurrentIsActive
  <2> QED BY <2>1, <2>2, <2>3
<1>3. OwnCurrent'
  BY RolloutAssumption DEF AdminInv, RolloutTypeOK, MoveWave, OwnCurrent
<1>4. PausedKnows'
  BY DEF AdminInv, RolloutTypeOK, MoveWave, PausedKnows
<1>5. StartingHeld'
  BY DEF AdminInv, MoveWave, StartingHeld
<1> QED
  BY <1>1, <1>2, <1>3, <1>4, <1>5 DEF AdminInv

\* A move of one campaign alone.
LEMMA CampaignMoveKeeps ==
  ASSUME AdminInv, NEW c \in Campaign, NEW s \in CampaignState,
         MoveCampaign(c, s), UNCHANGED <<current, wave, resume>>,
         starting' \subseteq starting, c \notin starting'
  PROVE  AdminInv'
<1>1. RolloutTypeOK'
  <2>1. campaign' \in [Campaign -> CampaignState]
    BY DEF AdminInv, RolloutTypeOK, MoveCampaign
  <2> QED
    BY <2>1 DEF AdminInv, RolloutTypeOK, MoveCampaign
<1>2. StartingHeld'
  BY DEF AdminInv, RolloutTypeOK, MoveCampaign, StartingHeld
<1> QED
  BY <1>1, <1>2 DEF AdminInv, CurrentIsActive, OwnCurrent, PausedKnows

\* What governance decides on has a current wave, which is active.
LEMMA JudgedWave ==
  ASSUME AdminInv, NEW c \in Campaign,
         Decision(c) \in {"auto_pause", "start_observation", "complete_wave"}
  PROVE  /\ current[c] \in Wave
         /\ CampaignOf[current[c]] = c
         /\ wave[current[c]] \in Active
         /\ campaign[c] = "running"
<1>1. campaign[c] = "running" /\ current[c] # NoWave
  BY DEF Decision
<1>2. current[c] \in Wave /\ CampaignOf[current[c]] = c
  BY <1>1 DEF AdminInv, RolloutTypeOK, OwnCurrent
<1> QED
  BY <1>1, <1>2 DEF AdminInv, CurrentIsActive

LEMMA InitAdmin == Init => AdminInv
<1> SUFFICES ASSUME Init PROVE AdminInv
  OBVIOUS
<1>1. RolloutTypeOK
  BY DEF Init, RolloutTypeOK, CampaignState, WaveState, TargetState, JobStatus
<1>2. CurrentIsActive
  BY RolloutAssumption DEF Init, CurrentIsActive, Active
<1> QED
  BY <1>1, <1>2 DEF Init, AdminInv, OwnCurrent, PausedKnows, StartingHeld

LEMMA StepAdmin == AdminInv /\ [Next]_vars => AdminInv'
<1> SUFFICES ASSUME AdminInv, [Next]_vars PROVE AdminInv'
  OBVIOUS
<1>0. RolloutTypeOK
  BY DEF AdminInv
<1>a. ASSUME NEW c \in Campaign, Approve(c) PROVE AdminInv'
  BY <1>a, CampaignMoveKeeps DEF Approve, Unlocked, CampaignState
<1>b. ASSUME NEW c \in Campaign, CheckRivals(c) PROVE AdminInv'
  BY <1>b DEF CheckRivals, adminVars, envVars, AdminInv, RolloutTypeOK, CurrentIsActive,
              OwnCurrent, PausedKnows, StartingHeld
<1>c. ASSUME NEW c \in Campaign, Run(c) PROVE AdminInv'
  BY <1>c, CampaignMoveKeeps DEF Run, CampaignState
<1>d. ASSUME NEW c \in Campaign, PauseCampaign(c) PROVE AdminInv'
  BY <1>d, CampaignMoveKeeps DEF PauseCampaign, Unlocked, CampaignState
<1>e. ASSUME NEW c \in Campaign, Abort(c) PROVE AdminInv'
  <2>1. /\ campaign' \in [Campaign -> CampaignState]
        /\ current' \in [Campaign -> Wave \cup {NoWave}]
        /\ wave' \in [Wave -> WaveState]
    BY <1>0, <1>e DEF Abort, MoveCampaign, RolloutTypeOK, CampaignState, WaveState
  <2>2. RolloutTypeOK'
    BY <1>0, <1>e, <2>1 DEF Abort, MoveCampaign, RolloutTypeOK
  <2>3. CurrentIsActive'
    <3> SUFFICES ASSUME NEW w \in Wave
                 PROVE  wave'[w] \in Active <=> current'[CampaignOf[w]] = w
      BY DEF CurrentIsActive
    <3>1. CASE CampaignOf[w] = c
      BY <1>0, <1>e, <3>1, RolloutAssumption
         DEF Abort, MoveCampaign, WavesOf, Active, RolloutTypeOK, CurrentIsActive, AdminInv
    <3>2. CASE CampaignOf[w] # c
      BY <1>0, <1>e, <3>2, RolloutAssumption
         DEF Abort, MoveCampaign, WavesOf, Active, RolloutTypeOK, CurrentIsActive, AdminInv
    <3> QED
      BY <3>1, <3>2
  <2>4. OwnCurrent' /\ StartingHeld'
    BY <1>0, <1>e DEF Abort, MoveCampaign, Unlocked, RolloutTypeOK, OwnCurrent,
                      StartingHeld, AdminInv
  <2>5. PausedKnows'
    BY <1>0, <1>e DEF Abort, PausedKnows, AdminInv
  <2> QED
    BY <2>2, <2>3, <2>4, <2>5 DEF AdminInv
<1>f. ASSUME NEW w \in Wave, Prepare(w) PROVE AdminInv'
  BY <1>0, <1>f, WaveMoveKeeps DEF Prepare, WaveState, Active, RolloutTypeOK
<1>g. ASSUME NEW w \in Wave, StartWave(w) PROVE AdminInv'
  BY <1>0, <1>g, WaveMoveKeeps DEF StartWave, WaveState, Active, RolloutTypeOK
<1>h. ASSUME NEW w \in Wave, PauseWave(w) PROVE AdminInv'
  <2>1. /\ resume' \in [Wave -> Active \cup {"none"}]
        /\ resume'[w] \in Active
        /\ \A v \in Wave \ {w} : resume'[v] = resume[v]
    BY <1>0, <1>h DEF PauseWave, Active, RolloutTypeOK
  <2> QED
    BY <1>h, <2>1, WaveMoveKeeps DEF PauseWave, WaveState, Active
<1>i. ASSUME NEW w \in Wave, ResumeWave(w) PROVE AdminInv'
  <2>1. resume[w] \in Active /\ resume[w] \in WaveState
    BY <1>i DEF ResumeWave, AdminInv, PausedKnows, Active, WaveState
  <2> QED
    BY <1>0, <1>i, <2>1, WaveMoveKeeps DEF ResumeWave, RolloutTypeOK
<1>j. ASSUME NEW c \in Campaign, NEW S \in SUBSET Target, Dispatch(c, S) PROVE AdminInv'
  BY <1>0, <1>j, ElsewhereKeeps
     DEF Dispatch, Elsewhere, RolloutTypeOK, adminVars, envVars, TargetState, JobStatus, Open
<1>k. ASSUME NEW c \in Campaign, Reconcile(c) \/ BeginRound(c) PROVE AdminInv'
  BY <1>0, <1>k, ElsewhereKeeps, ReconciledType
     DEF Reconcile, BeginRound, Elsewhere, RolloutTypeOK, adminVars, envVars
<1>l. ASSUME NEW c \in Campaign, SystemPause(c) PROVE AdminInv'
  <2>1. /\ current[c] \in Wave /\ CampaignOf[current[c]] = c
        /\ wave[current[c]] \in Active /\ campaign[c] = "running"
    BY <1>l, JudgedWave DEF SystemPause, Judge
  <2>2. /\ campaign' \in [Campaign -> CampaignState]
        /\ wave' \in [Wave -> WaveState]
        /\ resume' \in [Wave -> Active \cup {"none"}]
    BY <1>0, <1>l, <2>1 DEF SystemPause, RolloutTypeOK, CampaignState, WaveState
  <2>3. RolloutTypeOK'
    BY <1>0, <1>l, <2>2 DEF SystemPause, Judge, RolloutTypeOK, envVars
  <2>4. CurrentIsActive' /\ OwnCurrent'
    BY <1>0, <1>l, <2>1 DEF SystemPause, AdminInv, CurrentIsActive, OwnCurrent,
                            RolloutTypeOK, Active
  <2>5. PausedKnows'
    BY <1>0, <1>l, <2>1 DEF SystemPause, AdminInv, PausedKnows, RolloutTypeOK
  <2>6. StartingHeld'
    BY <1>0, <1>l DEF SystemPause, Judge, Unlocked, AdminInv, StartingHeld, RolloutTypeOK
  <2> QED
    BY <2>3, <2>4, <2>5, <2>6 DEF AdminInv
<1>m. ASSUME NEW c \in Campaign, StartObservation(c) PROVE AdminInv'
  <2>1. /\ current[c] \in Wave /\ CampaignOf[current[c]] = c
        /\ wave[current[c]] \in Active
    BY <1>m, JudgedWave DEF StartObservation, Judge
  <2>2. wave' \in [Wave -> WaveState]
    BY <1>0, <1>m DEF StartObservation, RolloutTypeOK, WaveState
  <2>3. RolloutTypeOK'
    BY <1>0, <1>m, <2>2 DEF StartObservation, Judge, RolloutTypeOK, envVars
  <2> QED
    BY <1>0, <1>m, <2>1, <2>3
       DEF StartObservation, Judge, AdminInv, CurrentIsActive, OwnCurrent, PausedKnows,
           StartingHeld, RolloutTypeOK, Active
<1>n. ASSUME NEW c \in Campaign, CompleteWave(c) PROVE AdminInv'
  <2>1. /\ current[c] \in Wave /\ CampaignOf[current[c]] = c
        /\ wave[current[c]] \in Active /\ campaign[c] = "running"
    BY <1>n, JudgedWave DEF CompleteWave, Judge
  <2>2. /\ campaign' \in [Campaign -> CampaignState]
        /\ \A d \in Campaign \ {c} : campaign'[d] = campaign[d]
    BY <1>0, <1>n DEF CompleteWave, RolloutTypeOK, CampaignState
  <2>3. wave' \in [Wave -> WaveState] /\ current' \in [Campaign -> Wave \cup {NoWave}]
    BY <1>0, <1>n DEF CompleteWave, RolloutTypeOK, WaveState
  <2>4. RolloutTypeOK'
    BY <1>0, <1>n, <2>2, <2>3 DEF CompleteWave, Judge, RolloutTypeOK, envVars
  <2>5. CurrentIsActive'
    <3> SUFFICES ASSUME NEW w \in Wave
                 PROVE  wave'[w] \in Active <=> current'[CampaignOf[w]] = w
      BY DEF CurrentIsActive
    <3>1. CASE CampaignOf[w] = c
      BY <1>0, <1>n, <2>1, <3>1, RolloutAssumption
         DEF CompleteWave, AdminInv, CurrentIsActive, RolloutTypeOK, Active
    <3>2. CASE CampaignOf[w] # c
      BY <1>0, <1>n, <2>1, <3>2, RolloutAssumption
         DEF CompleteWave, AdminInv, CurrentIsActive, RolloutTypeOK, Active
    <3> QED
      BY <3>1, <3>2
  <2>6. OwnCurrent' /\ PausedKnows'
    BY <1>0, <1>n DEF CompleteWave, AdminInv, OwnCurrent, PausedKnows, RolloutTypeOK
  <2>7. StartingHeld'
    BY <1>0, <1>n, <2>2 DEF CompleteWave, Judge, Unlocked, AdminInv, StartingHeld, RolloutTypeOK
  <2> QED
    BY <2>4, <2>5, <2>6, <2>7 DEF AdminInv
<1>o. ASSUME NEW c \in Campaign, LeaveAsIs(c) PROVE AdminInv'
  BY <1>0, <1>o, ElsewhereKeeps
     DEF LeaveAsIs, Judge, Elsewhere, RolloutTypeOK, adminVars, envVars
<1>p. ASSUME NEW t \in Target, JobChanges(t) PROVE AdminInv'
  <2>1. job' \in [Target -> JobStatus]
    BY <1>0, <1>p DEF JobChanges, JobMoves, RolloutTypeOK, JobStatus, Closed, Open
  <2> QED
    BY <1>0, <1>p, <2>1, ElsewhereKeeps
       DEF JobChanges, Elsewhere, RolloutTypeOK, adminVars, envVars
<1>q. ASSUME NEW t \in Target, EvidenceArrives(t) PROVE AdminInv'
  BY <1>0, <1>q, ElsewhereKeeps
     DEF EvidenceArrives, Elsewhere, RolloutTypeOK, adminVars, envVars
<1>r. ASSUME NEW e \in Endpoint, ConditionChanges(e) PROVE AdminInv'
  BY <1>0, <1>r, ElsewhereKeeps DEF ConditionChanges, Elsewhere, RolloutTypeOK, adminVars
<1>s. ASSUME NEW e \in Endpoint, OtherJobEnds(e) PROVE AdminInv'
  BY <1>0, <1>s, ElsewhereKeeps DEF OtherJobEnds, Elsewhere, RolloutTypeOK, adminVars
<1>t. ASSUME NEW e \in Endpoint, NEW k \in {"update", "restart"}, OtherJob(e, k)
      PROVE AdminInv'
  BY <1>0, <1>t, ElsewhereKeeps DEF OtherJob, Elsewhere, RolloutTypeOK, adminVars
<1>u. ASSUME NEW w \in Wave, Ripen(w) PROVE AdminInv'
  BY <1>0, <1>u, ElsewhereKeeps DEF Ripen, Elsewhere, RolloutTypeOK, adminVars, envVars
<1>v. CASE RoundLost
  BY <1>0, <1>v, ElsewhereKeeps DEF RoundLost, Elsewhere, RolloutTypeOK, adminVars, envVars
<1>w. CASE UNCHANGED vars
  BY <1>0, <1>w, ElsewhereKeeps DEF vars, Elsewhere, RolloutTypeOK
<1> QED
  BY <1>a, <1>b, <1>c, <1>d, <1>e, <1>f, <1>g, <1>h, <1>i, <1>j, <1>k, <1>l, <1>m,
     <1>n, <1>o, <1>p, <1>q, <1>r, <1>s, <1>t, <1>u, <1>v, <1>w DEF Next

LEMMA AdminInvariant == Spec => []AdminInv
BY InitAdmin, StepAdmin, PTL DEF Spec

\* Type correctness, whatever operators, jobs and governance do to each other.
THEOREM RolloutTypes == Spec => []RolloutTypeOK
BY AdminInvariant, PTL DEF AdminInv

\* A campaign has at most one active wave, and its current wave is that one.
THEOREM RolloutCurrent == Spec => []CurrentIsActive
BY AdminInvariant, PTL DEF AdminInv

-----------------------------------------------------------------------------
(* The order of waves and the closing of campaigns. *)

OrderInv == AdminInv /\ WavesInOrder /\ ClosedCampaigns

\* A target that is a success stays one.
SuccessKept == \A t \in Target : target[t] = "succeeded" => target'[t] = "succeeded"

\* Steps that move no wave and close no campaign.
LEMMA WavesStayPut ==
  ASSUME OrderInv, UNCHANGED wave, SuccessKept,
         \A c \in Campaign : campaign'[c] \in {"completed", "aborted"}
                               => campaign'[c] = campaign[c]
  PROVE  WavesInOrder' /\ ClosedCampaigns'
BY RolloutAssumption
   DEF OrderInv, SuccessKept, WavesInOrder, ClosedCampaigns, EarlierCompleted, Earlier,
       WavesOf, Targets

\* A step that moves one wave of a running campaign, which was not complete.
LEMMA OneWaveMoves ==
  ASSUME OrderInv, NEW w \in Wave, NEW s \in WaveState,
         wave' = [wave EXCEPT ![w] = s], UNCHANGED target,
         wave[w] # "completed", campaign[CampaignOf[w]] = "running",
         s \in {"ready", "completed"} \cup Active => EarlierCompleted(w),
         s = "completed" => \A t \in Targets(w) : target[t] = "succeeded",
         \A c \in Campaign : campaign'[c] \in {"completed", "aborted"} =>
           \/ campaign'[c] = campaign[c]
           \/ campaign'[c] = "completed" /\ \A v \in WavesOf(c) : wave'[v] = "completed"
  PROVE  WavesInOrder' /\ ClosedCampaigns'
<1>0. RolloutTypeOK
  BY DEF OrderInv, AdminInv
<1>1. WavesInOrder'
  <2> SUFFICES ASSUME NEW v \in Wave
               PROVE  /\ wave'[v] \in {"ready", "completed"} \cup Active
                            => EarlierCompleted(v)'
                      /\ wave'[v] = "completed" =>
                           \A t \in Targets(v) : target'[t] = "succeeded"
    BY DEF WavesInOrder, Targets
  <2>1. \A u \in Wave : wave[u] = "completed" => wave'[u] = "completed"
    BY <1>0 DEF RolloutTypeOK
  <2>2. EarlierCompleted(v) => EarlierCompleted(v)'
    BY <2>1 DEF EarlierCompleted, Earlier, WavesOf
  <2>3. CASE v = w
    BY <1>0, <2>2, <2>3 DEF RolloutTypeOK
  <2>4. CASE v # w
    BY <1>0, <2>2, <2>4 DEF RolloutTypeOK, OrderInv, WavesInOrder
  <2> QED
    BY <2>3, <2>4
<1>2. ClosedCampaigns'
  <2> SUFFICES ASSUME NEW v \in Wave
               PROVE  /\ campaign'[CampaignOf[v]] = "completed" => wave'[v] = "completed"
                      /\ campaign'[CampaignOf[v]] = "aborted"
                            => wave'[v] \in {"completed", "cancelled"}
    BY DEF ClosedCampaigns
  <2>1. CampaignOf[v] \in Campaign
    BY RolloutAssumption
  <2>2. campaign[CampaignOf[v]] \in {"completed", "aborted"} => wave'[v] = wave[v]
    BY <1>0 DEF RolloutTypeOK
  <2> QED
    BY <2>1, <2>2 DEF OrderInv, ClosedCampaigns, WavesOf
<1> QED
  BY <1>1, <1>2

\* Reconciling revises no target that has come to an end.
LEMMA ReconciledKeeps ==
  ASSUME RolloutTypeOK, NEW c \in Campaign, NEW t \in Target, target[t] \in Terminal
  PROVE  Reconciled(c)[t] = target[t]
BY DEF RolloutTypeOK, Reconciled, Desired

LEMMA StepOrder == OrderInv /\ [Next]_vars => OrderInv'
<1> SUFFICES ASSUME OrderInv, [Next]_vars PROVE OrderInv'
  OBVIOUS
<1>0. RolloutTypeOK /\ AdminInv
  BY DEF OrderInv, AdminInv
<1>1. AdminInv'
  BY <1>0, StepAdmin
<1> SUFFICES WavesInOrder' /\ ClosedCampaigns'
  BY <1>1 DEF OrderInv
<1>a. ASSUME NEW c \in Campaign,
             Approve(c) \/ CheckRivals(c) \/ Run(c) \/ PauseCampaign(c)
      PROVE  WavesInOrder' /\ ClosedCampaigns'
  BY <1>0, <1>a, WavesStayPut
     DEF Approve, CheckRivals, Run, PauseCampaign, MoveCampaign, SuccessKept, adminVars,
         RolloutTypeOK
<1>b. ASSUME NEW c \in Campaign, Abort(c) PROVE WavesInOrder' /\ ClosedCampaigns'
  <2>0. /\ \A v \in Wave : wave'[v] = IF CampaignOf[v] = c /\ wave[v] # "completed"
                                      THEN "cancelled" ELSE wave[v]
        /\ campaign' = [campaign EXCEPT ![c] = "aborted"]
        /\ target' = target
    BY <1>0, <1>b DEF Abort, MoveCampaign, WavesOf
  <2>1. \A v \in Wave : EarlierCompleted(v) => EarlierCompleted(v)'
    BY <2>0 DEF EarlierCompleted, Earlier, WavesOf
  <2>2. WavesInOrder'
    BY <2>0, <2>1 DEF OrderInv, WavesInOrder, Active, Targets
  <2>3. ClosedCampaigns'
    BY <1>0, <1>b, <2>0, RolloutAssumption DEF Abort, OrderInv, ClosedCampaigns, RolloutTypeOK
  <2> QED
    BY <2>2, <2>3
<1>c. ASSUME NEW w \in Wave, Prepare(w) PROVE WavesInOrder' /\ ClosedCampaigns'
  BY <1>0, <1>c, OneWaveMoves DEF Prepare, MoveWave, WaveState
<1>d. ASSUME NEW w \in Wave, StartWave(w) PROVE WavesInOrder' /\ ClosedCampaigns'
  BY <1>0, <1>d, OneWaveMoves DEF StartWave, MoveWave, WaveState
<1>e. ASSUME NEW w \in Wave, PauseWave(w) PROVE WavesInOrder' /\ ClosedCampaigns'
  <2>1. EarlierCompleted(w)
    BY <1>e DEF PauseWave, OrderInv, WavesInOrder, Active
  <2> QED
    BY <1>0, <1>e, <2>1, OneWaveMoves DEF PauseWave, MoveWave, WaveState
<1>f. ASSUME NEW w \in Wave, ResumeWave(w) PROVE WavesInOrder' /\ ClosedCampaigns'
  <2>1. EarlierCompleted(w)
    BY <1>f DEF ResumeWave, OrderInv, WavesInOrder, Active
  <2>2. resume[w] \in Active /\ resume[w] \in WaveState /\ resume[w] # "completed"
    BY <1>0, <1>f DEF ResumeWave, AdminInv, PausedKnows, Active, WaveState
  <2> QED
    BY <1>0, <1>f, <2>1, <2>2, OneWaveMoves DEF ResumeWave, MoveWave
<1>g. ASSUME NEW c \in Campaign, NEW S \in SUBSET Target, Dispatch(c, S)
      PROVE  WavesInOrder' /\ ClosedCampaigns'
  <2>1. SuccessKept
    BY <1>g DEF Dispatch, Selection, Dispatchable, SuccessKept
  <2> QED
    BY <1>g, <2>1, WavesStayPut DEF Dispatch, adminVars
<1>h. ASSUME NEW c \in Campaign, Reconcile(c) \/ BeginRound(c)
      PROVE  WavesInOrder' /\ ClosedCampaigns'
  <2>1. SuccessKept
    BY <1>0, <1>h, ReconciledKeeps DEF Reconcile, BeginRound, SuccessKept, Terminal
  <2> QED
    BY <1>h, <2>1, WavesStayPut DEF Reconcile, BeginRound, adminVars
<1>i. ASSUME NEW c \in Campaign, SystemPause(c) PROVE WavesInOrder' /\ ClosedCampaigns'
  <2>1. /\ current[c] \in Wave /\ CampaignOf[current[c]] = c
        /\ wave[current[c]] \in Active /\ campaign[c] = "running"
    BY <1>0, <1>i, JudgedWave DEF SystemPause, Judge
  <2>2. EarlierCompleted(current[c]) /\ wave[current[c]] # "completed"
    BY <2>1 DEF OrderInv, WavesInOrder, Active
  <2>3. \A d \in Campaign : campaign'[d] \in {"completed", "aborted"}
                                => campaign'[d] = campaign[d]
    BY <1>0, <1>i DEF SystemPause, RolloutTypeOK
  <2> QED
    BY <1>i, <2>1, <2>2, <2>3, OneWaveMoves DEF SystemPause, Judge, WaveState
<1>j. ASSUME NEW c \in Campaign, StartObservation(c)
      PROVE  WavesInOrder' /\ ClosedCampaigns'
  <2>1. /\ current[c] \in Wave /\ CampaignOf[current[c]] = c
        /\ wave[current[c]] \in Active /\ campaign[c] = "running"
    BY <1>0, <1>j, JudgedWave DEF StartObservation, Judge
  <2>2. EarlierCompleted(current[c]) /\ wave[current[c]] # "completed"
    BY <2>1 DEF OrderInv, WavesInOrder, Active
  <2> QED
    BY <1>j, <2>1, <2>2, OneWaveMoves DEF StartObservation, Judge, WaveState
<1>k. ASSUME NEW c \in Campaign, CompleteWave(c) PROVE WavesInOrder' /\ ClosedCampaigns'
  <2>1. /\ current[c] \in Wave /\ CampaignOf[current[c]] = c
        /\ wave[current[c]] \in Active /\ campaign[c] = "running"
    BY <1>0, <1>k, JudgedWave DEF CompleteWave, Judge
  <2>2. EarlierCompleted(current[c]) /\ wave[current[c]] # "completed"
    BY <2>1 DEF OrderInv, WavesInOrder, Active
  <2>3. \A t \in Targets(current[c]) : target[t] = "succeeded"
    <3>1. Healthy(current[c])
      BY <1>k DEF CompleteWave, Judge, Decision
    <3> QED
      BY <3>1 DEF Healthy
  <2>4. \A d \in Campaign : campaign'[d] \in {"completed", "aborted"} =>
          \/ campaign'[d] = campaign[d]
          \/ campaign'[d] = "completed" /\ \A v \in WavesOf(d) : wave'[v] = "completed"
    BY <1>0, <1>k, <2>1 DEF CompleteWave, CampaignClean, RolloutTypeOK, WavesOf
  <2> QED
    BY <1>k, <2>1, <2>2, <2>3, <2>4, OneWaveMoves DEF CompleteWave, Judge, WaveState
<1>l. ASSUME NEW c \in Campaign, LeaveAsIs(c) PROVE WavesInOrder' /\ ClosedCampaigns'
  BY <1>l, WavesStayPut DEF LeaveAsIs, Judge, adminVars, SuccessKept
<1>m. ASSUME NEW t \in Target, JobChanges(t) \/ EvidenceArrives(t)
      PROVE  WavesInOrder' /\ ClosedCampaigns'
  BY <1>m, WavesStayPut DEF JobChanges, EvidenceArrives, adminVars, SuccessKept
<1>n. ASSUME NEW e \in Endpoint, ConditionChanges(e) \/ OtherJobEnds(e)
      PROVE  WavesInOrder' /\ ClosedCampaigns'
  BY <1>n, WavesStayPut DEF ConditionChanges, OtherJobEnds, adminVars, SuccessKept
<1>o. ASSUME NEW e \in Endpoint, NEW k \in {"update", "restart"}, OtherJob(e, k)
      PROVE  WavesInOrder' /\ ClosedCampaigns'
  BY <1>o, WavesStayPut DEF OtherJob, adminVars, SuccessKept
<1>p. ASSUME NEW w \in Wave, Ripen(w) PROVE WavesInOrder' /\ ClosedCampaigns'
  BY <1>p, WavesStayPut DEF Ripen, adminVars, SuccessKept
<1>q. CASE RoundLost \/ UNCHANGED vars
  BY <1>q, WavesStayPut DEF RoundLost, vars, adminVars, SuccessKept
<1> QED
  BY <1>a, <1>b, <1>c, <1>d, <1>e, <1>f, <1>g, <1>h, <1>i, <1>j, <1>k, <1>l, <1>m,
     <1>n, <1>o, <1>p, <1>q DEF Next

LEMMA InitOrder == Init => OrderInv
BY InitAdmin, RolloutAssumption
   DEF Init, OrderInv, WavesInOrder, ClosedCampaigns, Active

LEMMA OrderInvariant == Spec => []OrderInv
BY InitOrder, StepOrder, PTL DEF Spec

\* No wave gets under way before the waves in front of it are complete, and a
\* complete wave has succeeded on every one of its targets.
THEOREM RolloutOrder == Spec => []WavesInOrder
BY OrderInvariant, PTL DEF OrderInv

\* A completed campaign is complete wave by wave; an aborted one has no wave left
\* that could be resumed or dispatched.
THEOREM RolloutCloses == Spec => []ClosedCampaigns
BY OrderInvariant, PTL DEF OrderInv

\* A campaign and its waves agree, whoever moved either.
THEOREM RolloutMatches == Spec => []CampaignsMatchWaves
<1>1. CurrentIsActive /\ ClosedCampaigns <=> CampaignsMatchWaves
  BY DEF CampaignsMatchWaves
<1> QED
  BY <1>1, RolloutCurrent, RolloutCloses, PTL

-----------------------------------------------------------------------------
(* Targets and their jobs. *)

\* The steps that touch neither targets, jobs nor evidence.
Untouched == UNCHANGED <<target, job, evidence>>

\* Every step dispatches, reconciles, changes one job, adds evidence, lets another
\* writer create or end a job, or leaves targets, jobs and other jobs alone.
LEMMA TargetSteps ==
  ASSUME [Next]_vars
  PROVE  \/ \E c \in Campaign, S \in SUBSET Target : Dispatch(c, S)
         \/ \E c \in Campaign : Reconcile(c) \/ BeginRound(c)
         \/ \E t \in Target : JobChanges(t)
         \/ \E t \in Target : EvidenceArrives(t)
         \/ \E e \in Endpoint : OtherJobEnds(e)
         \/ \E e \in Endpoint, k \in {"update", "restart"} : OtherJob(e, k)
         \/ Untouched /\ UNCHANGED busy
<1>a. ASSUME NEW c \in Campaign,
             \/ Approve(c) \/ CheckRivals(c) \/ Run(c) \/ PauseCampaign(c) \/ Abort(c)
             \/ SystemPause(c) \/ StartObservation(c) \/ CompleteWave(c) \/ LeaveAsIs(c)
      PROVE  Untouched /\ UNCHANGED busy
  BY <1>a DEF Approve, CheckRivals, Run, PauseCampaign, Abort, MoveCampaign, SystemPause,
              StartObservation, CompleteWave, LeaveAsIs, Judge, Untouched, envVars
<1>b. ASSUME NEW w \in Wave,
             Prepare(w) \/ StartWave(w) \/ PauseWave(w) \/ ResumeWave(w) \/ Ripen(w)
      PROVE  Untouched /\ UNCHANGED busy
  BY <1>b DEF Prepare, StartWave, PauseWave, ResumeWave, Ripen, MoveWave, Untouched, envVars
<1>c. ASSUME NEW e \in Endpoint, ConditionChanges(e) PROVE Untouched /\ UNCHANGED busy
  BY <1>c DEF ConditionChanges, Untouched
<1>d. ASSUME RoundLost \/ UNCHANGED vars PROVE Untouched /\ UNCHANGED busy
  BY <1>d DEF RoundLost, vars, Untouched, envVars
<1> QED
  BY <1>a, <1>b, <1>c, <1>d DEF Next

LEMMA StepProven == AdminInv /\ SuccessIsProven /\ [Next]_vars => SuccessIsProven'
<1> SUFFICES ASSUME AdminInv, SuccessIsProven, [Next]_vars PROVE SuccessIsProven'
  OBVIOUS
<1>0. RolloutTypeOK
  BY DEF AdminInv
<1>a. ASSUME NEW c \in Campaign, NEW S \in SUBSET Target, Dispatch(c, S)
      PROVE  SuccessIsProven'
  BY <1>0, <1>a DEF Dispatch, SuccessIsProven
<1>b. ASSUME NEW c \in Campaign, Reconcile(c) \/ BeginRound(c) PROVE SuccessIsProven'
  <2> SUFFICES ASSUME NEW t \in Target, target'[t] = "succeeded"
               PROVE  evidence[t] # "none" /\ job[t] \in Closed
    BY <1>b DEF Reconcile, BeginRound, SuccessIsProven
  <2>1. target[t] = "succeeded" \/ DesiredByJob(t) = "succeeded"
    BY <1>b DEF Reconcile, BeginRound, Reconciled, Desired
  <2>2. ASSUME DesiredByJob(t) = "succeeded", target[t] # "succeeded"
        PROVE  job[t] = "completed" /\ evidence[t] = "full"
    BY <1>0, <2>2 DEF DesiredByJob, RolloutTypeOK, JobStatus, Open
  <2> QED
    BY <2>1, <2>2 DEF SuccessIsProven, Closed, JobStatus, Open
<1>c. ASSUME NEW t \in Target, JobChanges(t) PROVE SuccessIsProven'
  BY <1>0, <1>c DEF JobChanges, JobMoves, SuccessIsProven, RolloutTypeOK, Closed, JobStatus, Open
<1>d. ASSUME NEW t \in Target, EvidenceArrives(t) PROVE SuccessIsProven'
  BY <1>0, <1>d DEF EvidenceArrives, SuccessIsProven, RolloutTypeOK
<1>e. ASSUME NEW e \in Endpoint, OtherJobEnds(e) PROVE SuccessIsProven'
  BY <1>e DEF OtherJobEnds, SuccessIsProven
<1>f. ASSUME NEW e \in Endpoint, NEW k \in {"update", "restart"}, OtherJob(e, k)
      PROVE  SuccessIsProven'
  BY <1>f DEF OtherJob, SuccessIsProven
<1>g. CASE Untouched
  BY <1>g DEF Untouched, SuccessIsProven
<1> QED
  BY TargetSteps, <1>a, <1>b, <1>c, <1>d, <1>e, <1>f, <1>g

\* A target counts as a success only on a closed job with the evidence for it.
THEOREM RolloutProven == Spec => []SuccessIsProven
<1>1. Init => SuccessIsProven
  BY DEF Init, SuccessIsProven
<1> QED
  BY <1>1, AdminInvariant, StepProven, PTL DEF Spec

\* What one step may do to a target and its job.
FinalStep ==
  \A t \in Target :
    /\ target[t] \in Terminal => target'[t] = target[t]
    /\ job[t] # "none" => job'[t] \notin {"none", "queued"} \ {job[t]}

LEMMA StepFinal == AdminInv /\ [Next]_vars => FinalStep
<1> SUFFICES ASSUME AdminInv, [Next]_vars PROVE FinalStep
  OBVIOUS
<1>0. RolloutTypeOK
  BY DEF AdminInv
<1>a. ASSUME NEW c \in Campaign, NEW S \in SUBSET Target, Dispatch(c, S) PROVE FinalStep
  BY <1>a DEF Dispatch, Selection, Dispatchable, Terminal, FinalStep
<1>b. ASSUME NEW c \in Campaign, Reconcile(c) \/ BeginRound(c) PROVE FinalStep
  BY <1>0, <1>b, ReconciledKeeps DEF Reconcile, BeginRound, FinalStep
<1>c. ASSUME NEW t \in Target, JobChanges(t) PROVE FinalStep
  BY <1>0, <1>c DEF JobChanges, JobMoves, FinalStep, RolloutTypeOK, Closed, JobStatus, Open
<1>d. ASSUME NEW t \in Target, EvidenceArrives(t) PROVE FinalStep
  BY <1>d DEF EvidenceArrives, FinalStep
<1>e. ASSUME NEW e \in Endpoint, OtherJobEnds(e) PROVE FinalStep
  BY <1>e DEF OtherJobEnds, FinalStep
<1>f. ASSUME NEW e \in Endpoint, NEW k \in {"update", "restart"}, OtherJob(e, k)
      PROVE  FinalStep
  BY <1>f DEF OtherJob, FinalStep
<1>g. CASE Untouched
  BY <1>g DEF Untouched, FinalStep
<1> QED
  BY TargetSteps, <1>a, <1>b, <1>c, <1>d, <1>e, <1>f, <1>g

\* A target is dispatched once, and what it has come to is not revised.
THEOREM RolloutFinal == Spec => DispatchedOnceAndFinal
<1>1. AdminInv /\ [Next]_vars => [FinalStep]_vars
  BY StepFinal
<1> QED
  BY <1>1, AdminInvariant, PTL DEF Spec, DispatchedOnceAndFinal, FinalStep

-----------------------------------------------------------------------------
(* Endpoints and the limit. *)

\* What a campaign dispatches is its own, and its endpoints are all free.
LEMMA DispatchedFree ==
  ASSUME AdminInv, NEW c \in Campaign, NEW S \in SUBSET Target, Dispatch(c, S),
         NEW t \in S
  PROVE  /\ Owner(t) = c
         /\ job[t] = "none"
         /\ busy[EndpointOf[t]] # "update"
         /\ \A u \in Target : EndpointOf[u] = EndpointOf[t] => job[u] \notin Open
<1>1. /\ t \in Targets(current[c]) /\ job[t] = "none"
      /\ EndpointOf[t] \notin Occupied(c)
  BY DEF Dispatch, Selection, Dispatchable
<1>2. Owner(t) = c
  BY <1>1 DEF Dispatch, AdminInv, OwnCurrent, Targets, Owner
<1>3. EndpointOf[t] \in EndpointsOf(c)
  BY <1>2 DEF EndpointsOf
<1> QED
  BY <1>1, <1>2, <1>3 DEF Occupied

LEMMA StepOneUpdate ==
  AdminInv /\ OneUpdatePerEndpoint /\ [Next]_vars => OneUpdatePerEndpoint'
<1> SUFFICES ASSUME AdminInv, OneUpdatePerEndpoint, [Next]_vars
             PROVE  OneUpdatePerEndpoint'
  OBVIOUS
<1>0. RolloutTypeOK
  BY DEF AdminInv
<1>a. ASSUME NEW c \in Campaign, NEW S \in SUBSET Target, Dispatch(c, S)
      PROVE  OneUpdatePerEndpoint'
  <2> SUFFICES ASSUME NEW s \in Target, NEW t \in Target,
                      EndpointOf[s] = EndpointOf[t], job'[s] \in Open
               PROVE  (job'[t] \in Open => s = t) /\ busy'[EndpointOf[s]] # "update"
    BY DEF OneUpdatePerEndpoint
  <2>0. \A u \in Target : job'[u] = IF u \in S THEN "queued" ELSE job[u]
    BY <1>a DEF Dispatch
  <2>1. busy' = busy
    BY <1>a DEF Dispatch, envVars
  <2>2. CASE s \in S /\ t \in S
    <3>1. Owner(s) = c /\ Owner(t) = c
      BY <1>a, <2>2, DispatchedFree
    <3>2. s = t
      BY <3>1, RolloutAssumption DEF Owner
    <3> QED
      BY <1>a, <2>1, <2>2, <3>2, DispatchedFree
  <2>3. CASE s \in S /\ t \notin S
    BY <1>a, <2>0, <2>1, <2>3, DispatchedFree
  <2>4. CASE s \notin S /\ t \in S
    BY <1>a, <2>0, <2>4, DispatchedFree
  <2>5. CASE s \notin S /\ t \notin S
    BY <2>0, <2>1, <2>5 DEF OneUpdatePerEndpoint
  <2> QED
    BY <2>2, <2>3, <2>4, <2>5
<1>b. ASSUME NEW c \in Campaign, Reconcile(c) \/ BeginRound(c) PROVE OneUpdatePerEndpoint'
  BY <1>b DEF Reconcile, BeginRound, OneUpdatePerEndpoint, envVars
<1>c. ASSUME NEW t \in Target, JobChanges(t) PROVE OneUpdatePerEndpoint'
  <2>1. \A u \in Target : job'[u] \in Open => job[u] \in Open
    BY <1>0, <1>c DEF JobChanges, JobMoves, RolloutTypeOK, Closed, JobStatus, Open
  <2> QED
    BY <1>c, <2>1 DEF JobChanges, OneUpdatePerEndpoint, envVars
<1>d. ASSUME NEW t \in Target, EvidenceArrives(t) PROVE OneUpdatePerEndpoint'
  BY <1>d DEF EvidenceArrives, OneUpdatePerEndpoint, envVars
<1>e. ASSUME NEW e \in Endpoint, OtherJobEnds(e) PROVE OneUpdatePerEndpoint'
  BY <1>0, <1>e, RolloutAssumption DEF OtherJobEnds, OneUpdatePerEndpoint, RolloutTypeOK
<1>f. ASSUME NEW e \in Endpoint, NEW k \in {"update", "restart"}, OtherJob(e, k)
      PROVE  OneUpdatePerEndpoint'
  BY <1>0, <1>f, RolloutAssumption DEF OtherJob, OneUpdatePerEndpoint, RolloutTypeOK
<1>g. CASE Untouched /\ UNCHANGED busy
  BY <1>g DEF Untouched, OneUpdatePerEndpoint
<1> QED
  BY TargetSteps, <1>a, <1>b, <1>c, <1>d, <1>e, <1>f, <1>g

\* Two campaigns, or a campaign and a manual update, never update one endpoint at
\* the same time, even when rival campaigns run.
THEOREM RolloutOneUpdate == Spec => []OneUpdatePerEndpoint
<1>1. Init => OneUpdatePerEndpoint
  BY DEF Init, OneUpdatePerEndpoint, Open
<1> QED
  BY <1>1, AdminInvariant, StepOneUpdate, PTL DEF Spec

LEMMA OccupiedFinite ==
  ASSUME NEW c \in Campaign PROVE IsFiniteSet(Occupied(c)) /\ Cardinality(Occupied(c)) \in Nat
<1> DEFINE Own == {t \in Target : Owner(t) = c}
           f == [t \in Own |-> EndpointOf[t]]
<1>1. IsFiniteSet(Own)
  BY RolloutAssumption, FS_Subset
<1>2. f \in Surjection(Own, EndpointsOf(c))
  BY DEF EndpointsOf, Surjection
<1>3. IsFiniteSet(EndpointsOf(c))
  BY <1>1, <1>2, FS_Surjection
<1> QED
  BY <1>3, FS_Subset, FS_CardinalityType DEF Occupied

\* A campaign's open jobs are on different endpoints, all of which are occupied.
LEMMA OpenJobsOccupy ==
  ASSUME NEW c \in Campaign
  PROVE  /\ IsFiniteSet(OpenJobs(c))
         /\ Cardinality(OpenJobs(c)) <= Cardinality(Occupied(c))
<1> DEFINE f == [t \in OpenJobs(c) |-> EndpointOf[t]]
<1>1. f \in [OpenJobs(c) -> Occupied(c)]
  BY DEF OpenJobs, Occupied, EndpointsOf
<1>2. ASSUME NEW s \in OpenJobs(c), NEW t \in OpenJobs(c), f[s] = f[t] PROVE s = t
  BY <1>2, RolloutAssumption DEF OpenJobs, Owner
<1>3. f \in Injection(OpenJobs(c), Occupied(c))
  BY <1>1, <1>2 DEF Injection, IsInjective
<1> QED
  BY <1>3, OccupiedFinite, FS_Injection

LEMMA StepWithin == AdminInv /\ WithinLimit /\ [Next]_vars => WithinLimit'
<1> SUFFICES ASSUME AdminInv, WithinLimit, [Next]_vars,
                    NEW d \in Campaign
             PROVE  Cardinality(OpenJobs(d)') <= Limit[d]
  BY DEF WithinLimit, OpenJobs
<1>0. RolloutTypeOK /\ IsFiniteSet(OpenJobs(d)) /\ Cardinality(OpenJobs(d)) <= Limit[d]
  BY OpenJobsOccupy DEF AdminInv, WithinLimit
<1>a. ASSUME NEW c \in Campaign, NEW S \in SUBSET Target, Dispatch(c, S)
      PROVE  Cardinality(OpenJobs(d)') <= Limit[d]
  <2>0. \A u \in Target : job'[u] = IF u \in S THEN "queued" ELSE job[u]
    BY <1>a DEF Dispatch
  <2>1. CASE d # c
    <3>1. OpenJobs(d)' = OpenJobs(d)
      BY <1>a, <2>0, <2>1, DispatchedFree DEF OpenJobs, Owner
    <3> QED
      BY <1>0, <3>1
  <2>2. CASE d = c
    <3>1. OpenJobs(c)' = OpenJobs(c) \cup S
      BY <1>a, <2>0, DispatchedFree DEF OpenJobs, Owner, Open
    <3>2. OpenJobs(c) \cap S = {}
      BY <1>a, DispatchedFree DEF OpenJobs, Open
    <3>3. IsFiniteSet(S) /\ Cardinality(S) \in Nat
      BY RolloutAssumption, FS_Subset, FS_CardinalityType
    <3>4. IsFiniteSet(OpenJobs(c)) /\ Cardinality(OpenJobs(c)) \in Nat
      BY OpenJobsOccupy, FS_CardinalityType
    <3>5. Cardinality(OpenJobs(c)') = Cardinality(OpenJobs(c)) + Cardinality(S)
      BY <3>1, <3>2, <3>3, <3>4, FS_Union, FS_EmptySet
    <3>6. Cardinality(S) <= Limit[c] - Cardinality(Occupied(c))
      BY <1>a DEF Dispatch, Selection
    <3> QED
      BY <2>2, <3>3, <3>4, <3>5, <3>6, OpenJobsOccupy, OccupiedFinite, RolloutAssumption
  <2> QED
    BY <2>1, <2>2
<1>b. ASSUME OpenJobs(d)' \subseteq OpenJobs(d)
      PROVE  Cardinality(OpenJobs(d)') <= Limit[d]
  <2>1. /\ Cardinality(OpenJobs(d)') <= Cardinality(OpenJobs(d))
        /\ Cardinality(OpenJobs(d)') \in Nat /\ Cardinality(OpenJobs(d)) \in Nat
    BY <1>0, <1>b, FS_Subset, FS_CardinalityType
  <2> QED
    BY <1>0, <2>1, RolloutAssumption
<1>c. ASSUME NEW t \in Target, JobChanges(t) PROVE OpenJobs(d)' \subseteq OpenJobs(d)
  BY <1>0, <1>c DEF JobChanges, JobMoves, RolloutTypeOK, Closed, JobStatus, Open, OpenJobs, Owner
<1>d. ASSUME UNCHANGED job PROVE OpenJobs(d)' \subseteq OpenJobs(d)
  BY <1>d DEF OpenJobs, Owner
<1> QED
  BY TargetSteps, <1>a, <1>b, <1>c, <1>d
     DEF Reconcile, BeginRound, EvidenceArrives, OtherJobEnds, OtherJob, Untouched

\* A campaign never has more updates under way than its limit.
THEOREM RolloutWithinLimit == Spec => []WithinLimit
<1>1. Init => WithinLimit
  <2> SUFFICES ASSUME Init, NEW c \in Campaign PROVE Cardinality(OpenJobs(c)) <= Limit[c]
    BY DEF WithinLimit
  <2>1. OpenJobs(c) = {}
    BY DEF Init, OpenJobs, Open
  <2> QED
    BY <2>1, FS_EmptySet, RolloutAssumption
<1> QED
  BY <1>1, AdminInvariant, StepWithin, PTL DEF Spec

=============================================================================
