------------------------- MODULE ComponentsProofs --------------------------
(*****************************************************************************)
(* Minutes of telemetry are stored once and not lost without a limit that   *)
(* says so, and the settings in force are those of an accepted              *)
(* configuration, for any limits, any number of compactors, jobs and        *)
(* failures.                                                                *)
(*                                                                           *)
(* What a minute may do is local to a window on its way from the agent to   *)
(* a coarser row; the strengthening follows it: AgentInv for the queue of   *)
(* the agent and the channel, ServerInv for samples and rows, AcceptedInv   *)
(* for what was acknowledged. A row counts each minute of its digests       *)
(* once, which takes that the groups compactors work on do not overlap.     *)
(*                                                                           *)
(* The settings are on disk, in the live process and in what the agent      *)
(* says is in force; who may touch them holds the gate. What they say       *)
(* between two writes is decided by the journal, by who holds the gate and  *)
(* at which write they are.                                                 *)
(*                                                                           *)
(* At the end what is proved of all nine components is put together.        *)
(*****************************************************************************)
EXTENDS UpdateTicketProofs, WorkProofs

(* Continuous telemetry.                                                    *)

\* The instance has its own copy of the operator of FiniteSets.
LEMMA TeleCardinality == \A S : Tele!Cardinality(S) = Cardinality(S)
BY DEF Tele!Cardinality, Cardinality

RowRec == [start : Tele!Minute, minutes : {2, 4}, digests : SUBSET Tele!Windows,
           counted : SUBSET Tele!Minute, twice : SUBSET Tele!Minute]
RowId == [minutes : {1, 2}, start : Tele!Minute]

\* One file, and one window of a batch, for each minute.
OneEach(windows) == \A v, w \in windows : v.minute = w.minute => v = w

AgentInv ==
  /\ Tele!TelemetryAssumption /\ minute \in Tele!Minute /\ setBack \in BOOLEAN /\ sampling \in BOOLEAN
  /\ open \in {0} \cup Tele!Minute /\ versions \in [Tele!Minute -> 0..2] /\ (open # 0 => versions[open] # 0)
  /\ channel \subseteq Tele!Windows /\ IsFiniteSet(channel) /\ Cardinality(channel) <= ChannelLimit
  /\ queue \subseteq Tele!Windows /\ IsFiniteSet(queue) /\ OneEach(queue) /\ Cardinality(queue) <= QueueLimit
  /\ upload \in [batch : SUBSET Tele!Windows, at : {"idle", "sent", "accepted", "refused"}]
  /\ OneEach(upload.batch) /\ Cardinality(upload.batch) <= BatchLimit

\* A coarser row lies where its resolution puts it and knows windows of its own minutes only.
Aligned(row) == row.start = Tele!Bucket(row.start, row.minutes) /\ \A w \in row.digests : Tele!Covers(row, w.minute)
ServerInv ==
  /\ samples \subseteq Tele!Windows /\ rolled \subseteq RowRec /\ (\A row \in rolled : Aligned(row))
  /\ compacting \in [Compactor -> SUBSET RowId]
  /\ \A k \in Compactor : \A i, j \in compacting[k] : i.minutes = j.minutes
  /\ Tele!CountedOnce
Stored(m) == \E row \in Tele!Rows : m \in row.counted
AcceptedInv ==
  /\ acknowledged \subseteq Tele!Minute /\ Tele!AcknowledgedIsStored
  /\ upload.at = "accepted" => \A w \in upload.batch : Stored(w.minute)
TeleInv == AgentInv /\ ServerInv /\ AcceptedInv

\* A set of which a member leaves fewer than n others behind it has n members at most.
LEMMA FewBehind ==
  ASSUME NEW T, IsFiniteSet(T), NEW n \in Nat \ {0}, NEW f \in [T -> Int],
         \A v, w \in T : f[v] = f[w] => v = w,
         \A w \in T : Cardinality({v \in T : f[v] > f[w]}) < n
  PROVE  Cardinality(T) <= n
<1>1. CASE T = {} BY <1>1, FS_EmptySet
<1>2. CASE T # {}
  <2>1. PICK w \in T : \A v \in T : f[w] <= f[v] BY <1>2, LeastMember
  <2>2. {v \in T : f[v] > f[w]} = T \ {w} BY <2>1
  <2>3. Cardinality(T \ {w}) < n BY <2>2
  <2>4. Cardinality(T \ {w}) = Cardinality(T) - 1 /\ Cardinality(T) \in Nat
    BY FS_RemoveElement, FS_CardinalityType
  <2> QED BY <2>3, <2>4
<1> QED BY <1>1, <1>2

LEMMA TrimmedFits ==
  ASSUME NEW S, S \subseteq Tele!Windows, IsFiniteSet(S), OneEach(S), AgentInv
  PROVE  /\ Tele!Trimmed(S) \subseteq S /\ IsFiniteSet(Tele!Trimmed(S)) /\ OneEach(Tele!Trimmed(S))
         /\ Cardinality(Tele!Trimmed(S)) <= QueueLimit
<1> DEFINE T == Tele!Trimmed(S)
           young == {w \in S : w.minute >= minute - MaxWindowAge}
           f == [w \in T |-> w.minute]
<1>1. T \subseteq S /\ T \subseteq young /\ young \subseteq S BY TeleCardinality DEF Tele!Trimmed
<1>2. IsFiniteSet(T) /\ IsFiniteSet(young) BY <1>1, FS_Subset
<1>3. f \in [T -> Int] BY <1>1 DEF Tele!Windows, Tele!Minute
<1>4. \A v, w \in T : f[v] = f[w] => v = w BY <1>1 DEF OneEach
<1>5. ASSUME NEW w \in T PROVE Cardinality({v \in T : f[v] > f[w]}) < QueueLimit
  <2> DEFINE A == {v \in T : f[v] > f[w]}
             B == {v \in young : v.minute > w.minute}
  <2>1. A \subseteq B BY <1>1
  <2>2. IsFiniteSet(B) BY <1>2, FS_Subset
  <2>3. Cardinality(A) <= Cardinality(B) /\ Cardinality(A) \in Nat /\ Cardinality(B) \in Nat
    BY <2>1, <2>2, FS_Subset, FS_CardinalityType
  <2>4. Cardinality(B) < QueueLimit BY TeleCardinality DEF Tele!Trimmed
  <2>5. QueueLimit \in Nat BY DEF AgentInv, Tele!TelemetryAssumption
  <2> QED BY <2>3, <2>4, <2>5
<1>6. QueueLimit \in Nat \ {0} BY DEF AgentInv, Tele!TelemetryAssumption
<1>7. Cardinality(T) <= QueueLimit
  <2> HIDE DEF T, f
  <2> QED BY <1>2, <1>3, <1>4, <1>5, <1>6, FewBehind
<1> QED BY <1>1, <1>2, <1>7 DEF OneEach

LEMMA OldestFits ==
  ASSUME NEW S, S \subseteq Tele!Windows, IsFiniteSet(S), OneEach(S), AgentInv
  PROVE  Tele!Oldest(S) \subseteq S /\ OneEach(Tele!Oldest(S)) /\ Cardinality(Tele!Oldest(S)) <= BatchLimit
<1> DEFINE T == Tele!Oldest(S)
           f == [w \in T |-> -w.minute]
<1>1. T \subseteq S BY TeleCardinality DEF Tele!Oldest
<1>2. IsFiniteSet(T) BY <1>1, FS_Subset
<1>3. f \in [T -> Int] BY <1>1 DEF Tele!Windows, Tele!Minute
<1>4. \A v, w \in T : f[v] = f[w] => v = w BY <1>1 DEF OneEach, Tele!Windows, Tele!Minute
<1>5. ASSUME NEW w \in T PROVE Cardinality({v \in T : f[v] > f[w]}) < BatchLimit
  <2> DEFINE A == {v \in T : f[v] > f[w]}
             B == {v \in S : v.minute < w.minute}
  <2>1. A \subseteq B BY <1>1 DEF Tele!Windows, Tele!Minute
  <2>2. IsFiniteSet(B) BY FS_Subset
  <2>3. Cardinality(A) <= Cardinality(B) /\ Cardinality(A) \in Nat /\ Cardinality(B) \in Nat
    BY <2>1, <2>2, FS_Subset, FS_CardinalityType
  <2>4. Cardinality(B) < BatchLimit BY TeleCardinality DEF Tele!Oldest
  <2>5. BatchLimit \in Nat BY DEF AgentInv, Tele!TelemetryAssumption
  <2> QED BY <2>3, <2>4, <2>5
<1>6. BatchLimit \in Nat \ {0} BY DEF AgentInv, Tele!TelemetryAssumption
<1>7. Cardinality(T) <= BatchLimit
  <2> HIDE DEF T, f
  <2> QED BY <1>2, <1>3, <1>4, <1>5, <1>6, FewBehind
<1> QED BY <1>1, <1>7 DEF OneEach


LEMMA SilentIsNone == /\ Tele!Silent \in [batch : SUBSET Tele!Windows, at : {"idle", "sent", "accepted", "refused"}]
                      /\ OneEach(Tele!Silent.batch) /\ Cardinality(Tele!Silent.batch) = 0 /\ Tele!Silent.at = "idle"
BY FS_EmptySet DEF Tele!Silent, OneEach

LEMMA TeleInitInv == Tele!TelemetryAssumption /\ Tele!TelemetryInit => TeleInv
<1> SUFFICES ASSUME Tele!TelemetryAssumption, Tele!TelemetryInit PROVE TeleInv
  OBVIOUS
<1>1. minute \in Tele!Minute /\ ChannelLimit \in Nat /\ QueueLimit \in Nat /\ BatchLimit \in Nat
  BY DEF Tele!TelemetryInit, Tele!TelemetryAssumption, Tele!Minute
<1>2. AgentInv
  <2>1. versions \in [Tele!Minute -> 0..2] BY DEF Tele!TelemetryInit
  <2>2. upload = Tele!Silent /\ channel = {} /\ queue = {} BY DEF Tele!TelemetryInit
  <2>3. IsFiniteSet({}) /\ Cardinality({}) = 0 BY FS_EmptySet
  <2>4. OneEach(queue) /\ OneEach(upload.batch) /\ Cardinality(upload.batch) = 0
    BY <2>2, SilentIsNone DEF OneEach
  <2>5. upload \in [batch : SUBSET Tele!Windows, at : {"idle", "sent", "accepted", "refused"}]
    BY <2>2, SilentIsNone
  <2>6. Cardinality(channel) <= ChannelLimit /\ Cardinality(queue) <= QueueLimit /\ Cardinality(upload.batch) <= BatchLimit
    BY <1>1, <2>2, <2>3, <2>4
  <2> QED BY <1>1, <2>1, <2>2, <2>3, <2>4, <2>5, <2>6 DEF Tele!TelemetryInit, AgentInv
<1>3. Tele!Rows = {} BY DEF Tele!TelemetryInit, Tele!Rows
<1>4. ServerInv /\ AcceptedInv
  BY <1>3 DEF Tele!TelemetryInit, ServerInv, AcceptedInv, Tele!CountedOnce, Tele!AcknowledgedIsStored, Tele!Silent
<1> QED BY <1>2, <1>4 DEF TeleInv

\* What the agent does leaves the server alone.
LEMMA AgentStep ==
  ASSUME TeleInv, AgentInv', UNCHANGED <<Tele!serverVars, compacting>>,
         upload'.at = "accepted" => upload' = upload,
         acknowledged' = acknowledged
         \/ (upload.at = "accepted" /\ acknowledged' = acknowledged \cup Tele!MinutesOf(upload.batch))
  PROVE  TeleInv'
<1>1. Tele!Rows' = Tele!Rows /\ \A m : Stored(m)' = Stored(m)
  BY DEF Tele!serverVars, Tele!Rows, Tele!Plain, Stored
<1>2. ServerInv'
  BY <1>1 DEF TeleInv, ServerInv, Tele!serverVars, Tele!CountedOnce, Aligned, Tele!Covers, Tele!Bucket, Tele!MinutesOf
<1>3. AcceptedInv'
  <2>1. upload'.at = "accepted" => \A w \in upload'.batch : Stored(w.minute)'
    BY <1>1 DEF TeleInv, AcceptedInv
  <2>2. upload.batch \subseteq Tele!Windows BY DEF TeleInv, AgentInv
  <2>3. acknowledged' \subseteq Tele!Minute /\ \A m \in acknowledged' : Stored(m)'
    BY <1>1, <2>2 DEF TeleInv, AcceptedInv, Tele!AcknowledgedIsStored, Stored, Tele!MinutesOf, Tele!Windows
  <2> QED BY <2>1, <2>3 DEF AcceptedInv, Tele!AcknowledgedIsStored, Stored
<1> QED BY <1>2, <1>3 DEF TeleInv

LEMMA ClockStep ==
  ASSUME TeleInv, Tele!ClockTicks \/ Tele!ClockIsSetBack PROVE TeleInv'
<1>1. minute' \in Tele!Minute /\ setBack' \in BOOLEAN
  <2>1. MaxMinute \in Nat /\ minute \in 1..MaxMinute /\ setBack \in BOOLEAN
    BY DEF TeleInv, AgentInv, Tele!TelemetryAssumption, Tele!Minute
  <2>2. CASE Tele!ClockTicks BY <2>1, <2>2 DEF Tele!ClockTicks, Tele!Minute
  <2>3. CASE Tele!ClockIsSetBack BY <2>1, <2>3 DEF Tele!ClockIsSetBack, Tele!Minute
  <2> QED BY <2>2, <2>3
<1>2. AgentInv'
  BY <1>1 DEF Tele!ClockTicks, Tele!ClockIsSetBack, TeleInv, AgentInv, Tele!agentVars
<1> QED BY <1>2, AgentStep DEF Tele!ClockTicks, Tele!ClockIsSetBack

LEMMA WindowStep ==
  ASSUME TeleInv, Tele!CloseWindow \/ Tele!OpenWindow PROVE TeleInv'
<1>1. CASE Tele!CloseWindow
  <2>1. open' = 0 /\ UNCHANGED <<minute, setBack, sampling, versions, queue, upload>>
    BY <1>1 DEF Tele!CloseWindow
  <2>2. channel' \subseteq Tele!Windows /\ IsFiniteSet(channel') /\ Cardinality(channel') <= ChannelLimit
    <3>1. CASE channel' = channel BY <3>1 DEF TeleInv, AgentInv
    <3>2. CASE channel' # channel
      <4> DEFINE w == [minute |-> open, version |-> versions[open]]
      <4>1. w \in Tele!Windows /\ channel' = channel \cup {w} /\ Cardinality(channel) < ChannelLimit
        BY <1>1, <3>2, TeleCardinality DEF Tele!CloseWindow, TeleInv, AgentInv, Tele!Windows
      <4> HIDE DEF w
      <4>2. channel \subseteq Tele!Windows /\ IsFiniteSet(channel) /\ ChannelLimit \in Nat
        BY DEF TeleInv, AgentInv, Tele!TelemetryAssumption
      <4>3. IsFiniteSet(channel') /\ Cardinality(channel) \in Nat
            /\ Cardinality(channel') \in {Cardinality(channel), Cardinality(channel) + 1}
        BY <4>1, <4>2, FS_AddElement, FS_CardinalityType
      <4> QED BY <4>1, <4>2, <4>3
    <3> QED BY <3>1, <3>2
  <2>3. AgentInv' BY <2>1, <2>2 DEF TeleInv, AgentInv
  <2> QED BY <1>1, <2>1, <2>3, AgentStep DEF Tele!CloseWindow
<1>2. CASE Tele!OpenWindow
  <2>1. open' \in {0} \cup Tele!Minute /\ versions' \in [Tele!Minute -> 0..2] /\ versions'[open'] # 0
    BY <1>2 DEF Tele!OpenWindow, TeleInv, AgentInv
  <2>2. AgentInv' BY <1>2, <2>1 DEF Tele!OpenWindow, TeleInv, AgentInv
  <2> QED BY <1>2, <2>2, AgentStep DEF Tele!OpenWindow
<1> QED BY <1>1, <1>2

LEMMA PersistStep ==
  ASSUME TeleInv, NEW w \in channel, Tele!Persist(w) PROVE TeleInv'
<1>1. /\ UNCHANGED <<minute, setBack, sampling, open, versions, upload, Tele!serverVars, compacting, acknowledged>>
      /\ channel' = channel \ {w} /\ w \in Tele!Windows /\ AgentInv
      /\ queue' \in {queue, Tele!Trimmed(queue \cup {w})}
      /\ queue' # queue => Tele!At(queue, w.minute) = {} /\ queue' = Tele!Trimmed(queue \cup {w})
  BY DEF Tele!Persist, TeleInv, AgentInv
<1>2. channel' \subseteq Tele!Windows /\ IsFiniteSet(channel') /\ Cardinality(channel') <= ChannelLimit
  <2>1. channel \subseteq Tele!Windows /\ IsFiniteSet(channel) /\ Cardinality(channel) <= ChannelLimit /\ ChannelLimit \in Nat
    BY DEF TeleInv, AgentInv, Tele!TelemetryAssumption
  <2>2. Cardinality(channel') <= Cardinality(channel) /\ Cardinality(channel') \in Nat /\ Cardinality(channel) \in Nat
        /\ IsFiniteSet(channel')
    BY <1>1, <2>1, FS_Subset, FS_CardinalityType
  <2> QED BY <1>1, <2>1, <2>2
<1>3. queue' \subseteq Tele!Windows /\ IsFiniteSet(queue') /\ OneEach(queue') /\ Cardinality(queue') <= QueueLimit
  <2>1. CASE queue' = queue BY <2>1 DEF TeleInv, AgentInv
  <2>2. CASE queue' # queue
    <3>1. queue \cup {w} \subseteq Tele!Windows /\ IsFiniteSet(queue \cup {w})
      BY <1>1, FS_AddElement DEF AgentInv
    <3>2. OneEach(queue \cup {w})
      BY <1>1, <2>2 DEF OneEach, Tele!At, AgentInv
    <3> QED BY <1>1, <2>2, <3>1, <3>2, TrimmedFits
  <2> QED BY <2>1, <2>2
<1>4. AgentInv' BY <1>1, <1>2, <1>3 DEF AgentInv
<1> QED BY <1>1, <1>4, AgentStep

LEMMA SamplingStep ==
  ASSUME TeleInv, Tele!StopSampling \/ Tele!StartSampling PROVE TeleInv'
<1>1. CASE Tele!StopSampling
  <2>1. channel' \subseteq Tele!Windows /\ IsFiniteSet(channel') /\ Cardinality(channel') <= ChannelLimit
    BY <1>1, FS_EmptySet DEF Tele!StopSampling, TeleInv, AgentInv, Tele!TelemetryAssumption
  <2>2. BatchLimit >= 0 /\ BatchLimit \in Nat BY DEF TeleInv, AgentInv, Tele!TelemetryAssumption
  <2>3. AgentInv' BY <1>1, <2>1, <2>2, SilentIsNone DEF Tele!StopSampling, TeleInv, AgentInv
  <2> QED BY <1>1, <2>3, SilentIsNone, AgentStep DEF Tele!StopSampling
<1>2. CASE Tele!StartSampling
  <2>1. queue' \subseteq Tele!Windows /\ IsFiniteSet(queue') /\ OneEach(queue') /\ Cardinality(queue') <= QueueLimit
    BY <1>2, TrimmedFits DEF Tele!StartSampling, TeleInv, AgentInv
  <2>2. AgentInv' BY <1>2, <2>1 DEF Tele!StartSampling, TeleInv, AgentInv
  <2> QED BY <1>2, <2>2, AgentStep DEF Tele!StartSampling
<1> QED BY <1>1, <1>2

LEMMA SnapshotStep ==
  ASSUME TeleInv, Tele!Snapshot PROVE TeleInv'
<1>1. /\ UNCHANGED <<minute, setBack, sampling, open, versions, channel, Tele!serverVars, compacting, acknowledged>>
      /\ upload' = [batch |-> Tele!Oldest(queue'), at |-> IF queue' = {} THEN "idle" ELSE "sent"]
      /\ queue' \subseteq Tele!Trimmed(queue) /\ AgentInv
  BY DEF Tele!Snapshot, TeleInv
<1>2. queue' \subseteq Tele!Windows /\ IsFiniteSet(queue') /\ OneEach(queue') /\ Cardinality(queue') <= QueueLimit
  <2>1. /\ Tele!Trimmed(queue) \subseteq Tele!Windows /\ IsFiniteSet(Tele!Trimmed(queue)) /\ OneEach(Tele!Trimmed(queue))
        /\ Cardinality(Tele!Trimmed(queue)) <= QueueLimit
    BY <1>1, TrimmedFits DEF AgentInv
  <2>2. IsFiniteSet(queue') /\ Cardinality(queue') <= Cardinality(Tele!Trimmed(queue))
        /\ Cardinality(queue') \in Nat /\ Cardinality(Tele!Trimmed(queue)) \in Nat /\ QueueLimit \in Nat
    BY <1>1, <2>1, FS_Subset, FS_CardinalityType DEF AgentInv, Tele!TelemetryAssumption
  <2> QED BY <1>1, <2>1, <2>2 DEF OneEach
<1>3. Tele!Oldest(queue') \subseteq queue' /\ OneEach(Tele!Oldest(queue')) /\ Cardinality(Tele!Oldest(queue')) <= BatchLimit
  BY <1>1, <1>2, OldestFits
<1>4. /\ upload' \in [batch : SUBSET Tele!Windows, at : {"idle", "sent", "accepted", "refused"}]
      /\ upload'.at # "accepted" /\ OneEach(upload'.batch) /\ Cardinality(upload'.batch) <= BatchLimit
  BY <1>1, <1>2, <1>3
<1>5. AgentInv' BY <1>1, <1>2, <1>4 DEF AgentInv
<1> QED BY <1>1, <1>4, <1>5, AgentStep

LEMMA AnswerStep ==
  ASSUME TeleInv, Tele!Acknowledge \/ Tele!UploadFails PROVE TeleInv'
<1>1. /\ UNCHANGED <<minute, setBack, sampling, open, versions, channel, Tele!serverVars, compacting>>
      /\ upload' = Tele!Silent /\ queue' \subseteq queue /\ AgentInv
  BY DEF Tele!Acknowledge, Tele!UploadFails, Tele!agentVars, TeleInv
<1>2. queue' \subseteq Tele!Windows /\ IsFiniteSet(queue') /\ OneEach(queue') /\ Cardinality(queue') <= QueueLimit
  <2>1. IsFiniteSet(queue') /\ Cardinality(queue') <= Cardinality(queue)
        /\ Cardinality(queue') \in Nat /\ Cardinality(queue) \in Nat /\ QueueLimit \in Nat
    BY <1>1, FS_Subset, FS_CardinalityType DEF AgentInv, Tele!TelemetryAssumption
  <2> QED BY <1>1, <2>1 DEF OneEach, AgentInv
<1>3. BatchLimit >= 0 /\ BatchLimit \in Nat BY <1>1 DEF AgentInv, Tele!TelemetryAssumption
<1>4. AgentInv' BY <1>1, <1>2, <1>3, SilentIsNone DEF AgentInv
<1>5. acknowledged' = acknowledged
      \/ (upload.at = "accepted" /\ acknowledged' = acknowledged \cup Tele!MinutesOf(upload.batch))
  BY DEF Tele!Acknowledge, Tele!UploadFails
<1> QED BY <1>1, <1>4, <1>5, SilentIsNone, AgentStep

\* Coarser buckets begin no later, and end no earlier, than the finer ones they are made of.
LEMMA BucketFacts ==
  ASSUME NEW m \in Tele!Minute, MaxMinute \in Nat
  PROVE  /\ Tele!Bucket(m, 2) \in Tele!Minute /\ Tele!Bucket(m, 4) \in Tele!Minute
         /\ Tele!Bucket(Tele!Bucket(m, 2), 2) = Tele!Bucket(m, 2) /\ Tele!Bucket(Tele!Bucket(m, 4), 4) = Tele!Bucket(m, 4)
         /\ Tele!Bucket(m, 2) <= m /\ m + 1 <= Tele!Bucket(m, 2) + 2
         /\ Tele!Bucket(m, 4) <= m /\ (m = Tele!Bucket(m, 2) => m + 2 <= Tele!Bucket(m, 4) + 4)
BY DEF Tele!Bucket, Tele!Minute

LEMMA PlainRow ==
  ASSUME NEW w \in Tele!Windows
  PROVE  /\ Tele!Plain(w).start = w.minute /\ Tele!Plain(w).minutes = 1 /\ Tele!Plain(w).digests = {w}
         /\ Tele!Plain(w).counted = {w.minute} /\ Tele!Plain(w).twice = {} /\ Tele!MinutesOf(Tele!Plain(w).digests) = {w.minute}
         /\ w.minute \in Tele!Minute
BY DEF Tele!Plain, Tele!MinutesOf, Tele!Windows

\* A batch that is accepted adds minutes nobody counts, and all of it is counted then.
LEMMA PersistWindowsStep == ASSUME TeleInv, Tele!PersistWindows PROVE TeleInv'
<1> DEFINE lot == upload.batch
           good == \A w \in lot : w.minute >= minute - AcceptedAge /\ ~Tele!Conflict(w)
           new == {w \in lot : ~Tele!Known(w)}
<1>1. /\ UNCHANGED <<minute, setBack, sampling, open, versions, channel, queue, rolled, compacting, acknowledged>>
      /\ upload' = [upload EXCEPT !.at = IF good THEN "accepted" ELSE "refused"]
      /\ samples' = IF good THEN samples \cup new ELSE samples
      /\ AgentInv /\ ServerInv /\ AcceptedInv
  BY DEF Tele!PersistWindows, Tele!agentVars, TeleInv
<1>2. /\ upload' \in [batch : SUBSET Tele!Windows, at : {"idle", "sent", "accepted", "refused"}]
      /\ upload'.batch = lot /\ upload'.at = IF good THEN "accepted" ELSE "refused"
      /\ lot \subseteq Tele!Windows /\ OneEach(lot)
  <2> HIDE DEF good
  <2> QED BY <1>1 DEF AgentInv
<1>3. AgentInv' BY <1>1, <1>2 DEF AgentInv
<1>4. CASE ~good
  <2>1. Tele!Rows' = Tele!Rows BY <1>1, <1>4 DEF Tele!Rows, Tele!Plain
  <2> QED BY <1>1, <1>2, <1>3, <1>4, <2>1 DEF TeleInv, ServerInv, AcceptedInv, Tele!AcknowledgedIsStored, Tele!CountedOnce, Aligned,
        Tele!Covers, Tele!Bucket, Tele!MinutesOf, Stored
<1>5. CASE good
  <2> DEFINE added == {Tele!Plain(w) : w \in new}
  <2>1. samples' \subseteq Tele!Windows BY <1>1, <1>2, <1>5 DEF ServerInv
  <2>2. Tele!Rows' = Tele!Rows \cup added BY <1>1, <1>5 DEF Tele!Rows, Tele!Plain
  <2>3. ASSUME NEW w \in new, NEW row \in Tele!Rows, w.minute \in row.counted PROVE FALSE
    <3>1. ~Tele!Conflict(w) /\ ~Tele!Known(w) /\ w \in Tele!Windows BY <1>2, <1>5
    <3>2. CASE row \in rolled
      <4>1. PICK v \in row.digests : v.minute = w.minute
        BY <1>1, <2>3 DEF ServerInv, Tele!CountedOnce, Tele!MinutesOf
      <4>2. Tele!Covers(row, w.minute) BY <1>1, <3>2, <4>1 DEF ServerInv, Aligned
      <4>3. Tele!At(samples, w.minute) = {} BY <3>1 DEF Tele!Conflict, Tele!Known, Tele!At
      <4>4. v = w BY <3>1, <3>2, <4>1, <4>2, <4>3 DEF Tele!Conflict, Tele!Digests, Tele!At
      <4> QED BY <3>1, <3>2, <4>1, <4>2, <4>4 DEF Tele!Known, Tele!Digests
    <3>3. CASE row \in {Tele!Plain(v) : v \in samples}
      <4>1. PICK v \in samples : row = Tele!Plain(v) BY <3>3
      <4>2. v.minute = w.minute BY <1>1, <2>3, <4>1, PlainRow DEF ServerInv
      <4> QED BY <3>1, <4>2 DEF Tele!Conflict, Tele!Known, Tele!At
    <3> QED BY <3>2, <3>3 DEF Tele!Rows
  <2>4. \A row \in added : row.twice = {} /\ row.counted = Tele!MinutesOf(row.digests)
    <3>1. ASSUME NEW w \in new PROVE Tele!Plain(w).twice = {} /\ Tele!Plain(w).counted = Tele!MinutesOf(Tele!Plain(w).digests)
      <4>1. w \in Tele!Windows BY <1>2
      <4> QED BY <4>1, PlainRow
    <3> QED BY <3>1
  <2>5. \A a, b \in added : a # b => a.counted \cap b.counted = {}
    BY <1>2, PlainRow DEF OneEach
  <2>6. \A a \in added, b \in Tele!Rows : a.counted \cap b.counted = {}
    BY <1>2, <2>3, PlainRow
  <2>7. Tele!CountedOnce'
    <3>1. \A row \in Tele!Rows' : row.twice = {} /\ row.counted = Tele!MinutesOf(row.digests)
      BY <1>1, <2>2, <2>4 DEF ServerInv, Tele!CountedOnce
    <3>2. \A a, b \in Tele!Rows' : a # b => a.counted \cap b.counted = {}
      <4> HIDE DEF added
      <4> QED BY <1>1, <2>2, <2>5, <2>6 DEF ServerInv, Tele!CountedOnce
    <3> QED BY <3>1, <3>2 DEF Tele!CountedOnce, Tele!MinutesOf
  <2>8. ServerInv'
    BY <1>1, <2>1, <2>7 DEF ServerInv, Aligned, Tele!Covers, Tele!Bucket
  <2>9. ASSUME NEW w \in lot PROVE Stored(w.minute)'
    <3>1. CASE w \in new
      <4>1. Tele!Plain(w) \in Tele!Rows' /\ w.minute \in Tele!Plain(w).counted BY <1>2, <2>2, <3>1, PlainRow
      <4> QED BY <4>1 DEF Stored
    <3>2. CASE w \in samples
      <4>1. Tele!Plain(w) \in Tele!Rows' /\ w.minute \in Tele!Plain(w).counted BY <1>2, <2>2, <3>2, PlainRow DEF Tele!Rows
      <4> QED BY <4>1 DEF Stored
    <3>3. CASE \E row \in rolled : w \in row.digests
      <4>1. PICK row \in rolled : w \in row.digests BY <3>3
      <4>2. row \in Tele!Rows' /\ w.minute \in row.counted
        BY <1>1, <2>2, <4>1 DEF Tele!Rows, ServerInv, Tele!CountedOnce, Tele!MinutesOf
      <4> QED BY <4>2 DEF Stored
    <3> QED BY <3>1, <3>2, <3>3 DEF Tele!Known, Tele!Digests
  <2>10. AcceptedInv'
    <3>1. \A m \in acknowledged' : \E row \in Tele!Rows' : m \in row.counted
      BY <1>1, <2>2 DEF AcceptedInv, Tele!AcknowledgedIsStored
    <3> QED BY <1>1, <1>2, <2>9, <3>1 DEF AcceptedInv, Tele!AcknowledgedIsStored
  <2> QED BY <1>3, <2>8, <2>10 DEF TeleInv
<1> QED BY <1>4, <1>5

LEMMA FindOldRowsStep == ASSUME TeleInv, NEW k \in Compactor, Tele!FindOldRows(k) PROVE TeleInv'
<1>1. PICK group \in {1, 2} : compacting' = [compacting EXCEPT ![k] =
       {[minutes |-> row.minutes, start |-> row.start] :
          row \in {r \in Tele!Rows : r.minutes = group /\ r.start < minute - Retention * group}}]
  BY DEF Tele!FindOldRows
<1>2. \A row \in Tele!Rows : row.start \in Tele!Minute
  BY PlainRow DEF Tele!Rows, TeleInv, ServerInv, RowRec
<1>3. /\ compacting' \in [Compactor -> SUBSET RowId]
      /\ \A q \in Compactor : \A i, j \in compacting'[q] : i.minutes = j.minutes
  <2>1. {[minutes |-> row.minutes, start |-> row.start] :
          row \in {r \in Tele!Rows : r.minutes = group /\ r.start < minute - Retention * group}} \in SUBSET RowId
    BY <1>2 DEF RowId
  <2> QED BY <1>1, <2>1 DEF TeleInv, ServerInv
<1>4. /\ UNCHANGED <<minute, setBack, sampling, open, versions, channel, queue, upload, samples, rolled, acknowledged>>
      /\ Tele!Rows' = Tele!Rows
  BY DEF Tele!FindOldRows, Tele!agentVars, Tele!serverVars, Tele!Rows, Tele!Plain
<1> QED BY <1>3, <1>4 DEF TeleInv, AgentInv, ServerInv, AcceptedInv, Tele!AcknowledgedIsStored, Tele!CountedOnce, Aligned,
      Tele!Covers, Tele!Bucket, Tele!MinutesOf, Stored

\* Merging takes rows away and counts their minutes in one.
LEMMA CompactGroupStep == ASSUME TeleInv, NEW k \in Compactor, Tele!CompactGroup(k) PROVE TeleInv'
<1>1. PICK id \in compacting[k] :
    LET minutes == id.minutes * 2
        start == Tele!Bucket(id.start, minutes)
        group == {i \in compacting[k] : Tele!Bucket(i.start, minutes) = start}
        sources == {row \in Tele!Rows : \E i \in group : row.start = i.start /\ row.minutes = i.minutes}
        target == {row \in rolled : row.start = start /\ row.minutes = minutes} IN
    /\ compacting' = [compacting EXCEPT ![k] = @ \ group]
    /\ samples' = {w \in samples : Tele!Plain(w) \notin sources}
    /\ rolled' = (rolled \ (sources \cup target)) \cup {Tele!Merge(sources \cup target, start, minutes)}
    /\ UNCHANGED <<minute, setBack, Tele!agentVars, upload, acknowledged, telemetryFaults>>
  BY DEF Tele!CompactGroup
<1> DEFINE minutes == id.minutes * 2
           start == Tele!Bucket(id.start, minutes)
           group == {i \in compacting[k] : Tele!Bucket(i.start, minutes) = start}
           sources == {row \in Tele!Rows : \E i \in group : row.start = i.start /\ row.minutes = i.minutes}
           target == {row \in rolled : row.start = start /\ row.minutes = minutes}
           taken == sources \cup target
           merged == Tele!Merge(taken, start, minutes)
<1>2. /\ compacting' = [compacting EXCEPT ![k] = @ \ group]
      /\ samples' = {w \in samples : Tele!Plain(w) \notin sources}
      /\ rolled' = (rolled \ taken) \cup {merged}
      /\ UNCHANGED <<minute, setBack, sampling, open, versions, channel, queue, upload, acknowledged>>
  BY <1>1 DEF Tele!agentVars
<1>3. /\ AgentInv /\ ServerInv /\ AcceptedInv /\ compacting[k] \subseteq RowId /\ id \in RowId
      /\ minutes \in {2, 4} /\ id.start \in Tele!Minute /\ MaxMinute \in Nat
  BY DEF TeleInv, ServerInv, AgentInv, RowId, Tele!TelemetryAssumption
<1>4. start \in Tele!Minute /\ start = Tele!Bucket(start, minutes)
  BY <1>3, BucketFacts
<1>5. taken \subseteq Tele!Rows /\ \A w \in samples : Tele!Plain(w) \notin target
  BY <1>3, PlainRow DEF Tele!Rows, ServerInv
<1>6. Tele!Rows' = (Tele!Rows \ taken) \cup {merged}
  <2> HIDE DEF merged, sources, target
  <2> QED BY <1>2, <1>5 DEF Tele!Rows, Tele!Plain
<1>7. \A row \in Tele!Rows : row.digests \subseteq Tele!Windows /\ row.counted = Tele!MinutesOf(row.digests) /\ row.twice = {}
                         /\ row.counted \subseteq Tele!Minute
  <2>1. \A row \in Tele!Rows : row.digests \subseteq Tele!Windows /\ row.counted = Tele!MinutesOf(row.digests) /\ row.twice = {}
    BY <1>3, PlainRow DEF Tele!Rows, ServerInv, Tele!CountedOnce, RowRec
  <2> QED BY <2>1 DEF Tele!MinutesOf, Tele!Windows
<1>8. /\ merged.start = start /\ merged.minutes = minutes
      /\ merged.digests = UNION {row.digests : row \in taken}
      /\ merged.counted = UNION {row.counted : row \in taken}
      /\ merged.twice = UNION {row.twice : row \in taken}
                          \cup {m \in Tele!Minute : \E a, b \in taken : a # b /\ m \in a.counted \cap b.counted}
      /\ merged = [start |-> merged.start, minutes |-> merged.minutes, digests |-> merged.digests,
                    counted |-> merged.counted, twice |-> merged.twice]
  <2> HIDE DEF taken, start, minutes
  <2> QED BY DEF Tele!Merge
<1>9. merged.twice = {} /\ merged.counted = Tele!MinutesOf(merged.digests) /\ merged \in RowRec
  <2> HIDE DEF taken, merged, start, minutes
  <2>1. merged.twice = {}
    BY <1>3, <1>5, <1>7, <1>8 DEF ServerInv, Tele!CountedOnce
  <2>2. merged.counted = Tele!MinutesOf(merged.digests)
    BY <1>5, <1>7, <1>8 DEF Tele!MinutesOf
  <2>3. merged.digests \subseteq Tele!Windows /\ merged.counted \subseteq Tele!Minute
    BY <1>5, <1>7, <1>8
  <2> QED BY <1>3, <1>4, <1>8, <2>1, <2>2, <2>3 DEF RowRec
<1>10. Aligned(merged)
  <2>1. ASSUME NEW w \in merged.digests PROVE Tele!Covers(merged, w.minute)
    <3>1. PICK row \in taken : w \in row.digests BY <2>1, <1>8
    <3>2. row \in Tele!Rows /\ w \in Tele!Windows BY <1>5, <1>7, <3>1
    <3>3. CASE row \in target
      BY <1>3, <1>8, <3>1, <3>3 DEF ServerInv, Aligned, Tele!Covers
    <3>4. CASE row \in sources
      <4>1. PICK i \in group : row.start = i.start /\ row.minutes = i.minutes BY <3>4
      <4>2. i \in RowId /\ Tele!Bucket(i.start, minutes) = start /\ i.start \in Tele!Minute BY <1>3, <4>1 DEF RowId
      <4>3. row.minutes \in {1, 2} /\ minutes = row.minutes * 2 BY <1>3, <4>1, <4>2 DEF RowId, ServerInv
      <4>4. CASE row \in rolled
        <5>1. row.minutes = 2 /\ row.start = Tele!Bucket(row.start, 2) /\ Tele!Covers(row, w.minute)
          BY <1>3, <3>1, <4>3, <4>4 DEF ServerInv, Aligned, RowRec
        <5>2. i.start = Tele!Bucket(i.start, 2) => i.start + 2 <= Tele!Bucket(i.start, 4) + 4 BY <1>3, <4>2, BucketFacts
        <5>3. Tele!Bucket(i.start, 4) <= i.start BY <1>3, <4>2, BucketFacts
        <5> HIDE DEF minutes, start, merged
        <5>4. start <= row.start /\ row.start + 2 <= start + 4 /\ minutes = 4 BY <4>1, <4>2, <4>3, <5>1, <5>2, <5>3
        <5> QED BY <1>4, <1>8, <3>2, <4>1, <4>2, <5>1, <5>4 DEF Tele!Covers, Tele!Minute, Tele!Windows
      <4>5. CASE row \in {Tele!Plain(v) : v \in samples}
        <5>1. w.minute = row.start /\ row.minutes = 1 BY <1>3, <3>1, <4>5, PlainRow DEF ServerInv
        <5>2. Tele!Bucket(i.start, 2) <= i.start /\ i.start + 1 <= Tele!Bucket(i.start, 2) + 2 BY <1>3, <4>2, BucketFacts
        <5> HIDE DEF minutes, start, merged
        <5> QED BY <1>4, <1>8, <3>2, <4>1, <4>2, <4>3, <5>1, <5>2 DEF Tele!Covers, Tele!Minute, Tele!Windows
      <4> QED BY <3>2, <4>4, <4>5 DEF Tele!Rows
    <3> QED BY <3>1, <3>3, <3>4
  <2> HIDE DEF merged
  <2> QED BY <1>4, <1>8, <2>1 DEF Aligned
<1> HIDE DEF merged, taken
<1>11. Tele!CountedOnce'
  <2>1. \A row \in Tele!Rows' : row.twice = {} /\ row.counted = Tele!MinutesOf(row.digests)
    BY <1>6, <1>7, <1>9
  <2>2. \A a \in Tele!Rows \ taken : a.counted \cap merged.counted = {}
    BY <1>3, <1>5, <1>8 DEF ServerInv, Tele!CountedOnce
  <2>3. \A a, b \in Tele!Rows' : a # b => a.counted \cap b.counted = {}
    BY <1>3, <1>6, <2>2 DEF ServerInv, Tele!CountedOnce
  <2> QED BY <2>1, <2>3 DEF Tele!CountedOnce, Tele!MinutesOf
<1>12. ServerInv'
  <2>1. /\ compacting' \in [Compactor -> SUBSET RowId]
        /\ \A q \in Compactor : \A i, j \in compacting'[q] : i.minutes = j.minutes
    BY <1>2, <1>3 DEF ServerInv
  <2>2. rolled' \subseteq RowRec /\ samples' \subseteq Tele!Windows
    BY <1>2, <1>3, <1>9 DEF ServerInv
  <2>3. \A row \in rolled' : Aligned(row)
    BY <1>2, <1>3, <1>10 DEF ServerInv
  <2> QED BY <1>11, <2>1, <2>2, <2>3 DEF ServerInv, Aligned, Tele!Covers, Tele!Bucket
<1>13. \A m : Stored(m) => Stored(m)'
  BY <1>6, <1>8 DEF Stored
<1>14. AcceptedInv'
  BY <1>2, <1>3, <1>13 DEF AcceptedInv, Tele!AcknowledgedIsStored, Stored
<1>15. AgentInv' BY <1>2, <1>3 DEF AgentInv
<1> QED BY <1>12, <1>14, <1>15 DEF TeleInv

LEMMA TeleStep == ASSUME TeleInv, [Tele!TelemetryNext]_telemetryV PROVE TeleInv'
<1>1. CASE UNCHANGED telemetryV
  <2>1. AgentInv' BY <1>1 DEF telemetryV, Tele!agentVars, TeleInv, AgentInv
  <2> QED BY <1>1, <2>1, AgentStep DEF telemetryV, Tele!agentVars, Tele!serverVars
<1> QED BY <1>1, ClockStep, WindowStep, PersistStep, SamplingStep, SnapshotStep, AnswerStep, PersistWindowsStep,
      FindOldRowsStep, CompactGroupStep DEF Tele!TelemetryNext

LEMMA TeleSound == TeleInv => Tele!MinutesAreKept /\ Tele!TelemetryTypeOK
BY TeleCardinality DEF TeleInv, AgentInv, ServerInv, AcceptedInv, Tele!MinutesAreKept, Tele!TelemetryTypeOK, RowRec

-----------------------------------------------------------------------------
(* Its configuration.                                                       *)

Working == {"apply", "rollback", "conclude", "queue", "forget"}
Settled == {"conclude", "queue", "forget"}
Ended == {"completed", "failed"}
JournalRec == [job : ConfigJob \cup {NoConfigJob}, previous : Conf!Settings, rollback : BOOLEAN,
               result : {"none"} \cup Ended]
TaskRec == [job : Conf!AnyJob \cup {NoConfigJob},
            at : {"idle", "gate", "run", "raise", "finish"} \cup Working,
            outcome : {"none", "running"} \cup Ended]
WorkerRec == [at : {"idle", "gate", "raise", "interrupted", "stopped"} \cup Working,
              read : JournalRec, outcome : {"none"} \cup Ended, boot : BOOLEAN]

ConfigTypes ==
  /\ Conf!ConfigAssumption
  /\ disk \in Conf!Settings /\ live \in Conf!Settings /\ effective \in Conf!Settings \cup {NoConfigJob}
  /\ journal \in JournalRec /\ (journal # Conf!NoJournal => journal.job \in ConfigJob)
  /\ jobRecord \in [Conf!AnyJob -> {"none", "running", "final"}]
  /\ results \in [Conf!AnyJob -> SUBSET {"running", "completed", "failed", "interrupted"}]
  /\ gate \in {"free", "task", "worker"} /\ task \in TaskRec /\ worker \in WorkerRec
  /\ overtaken \in BOOLEAN

\* The semaphore is held exactly while somebody works.
GateInv ==
  /\ gate = "task" <=> task.at \in Working
  /\ gate = "worker" <=> worker.at \in Working

Agree == disk = live /\ effective = disk

\* The task works on a journal of its own job that nobody else touches.
TaskInv ==
  /\ task.at = "idle" <=> task.job = NoConfigJob
  /\ task.at \in Working \cup {"gate"} => task.job \in ConfigJob
  /\ task.at \in Working => journal.job = task.job
  /\ task.at \in {"apply", "rollback", "conclude"} => journal.result = "none"
  /\ task.at \in Settled => task.outcome \in Ended /\ Agree
  /\ task.at = "finish" => task.outcome # "none"

\* The worker works on a journal it has read; what it has read may be outdated.
WorkerInv ==
  /\ worker.at \in Working \cup {"gate"} => worker.read.job \in ConfigJob
  /\ worker.at = "gate" => worker.outcome = worker.read.result
  /\ worker.at \in {"apply", "rollback", "conclude"} => worker.read.result = "none"
  /\ worker.at \in Settled => worker.outcome \in Ended
  /\ worker.at = "stopped" => worker.boot

\* As long as no journal was outdated: what is not agreed on has a journal without result.
AgreeInv ==
  ~overtaken =>
    /\ gate = "free" /\ journal = Conf!NoJournal /\ worker.at # "stopped" => Agree
    /\ journal.result # "none" /\ worker.at # "stopped" => Agree
    /\ worker.at \in Working => journal.job \in ConfigJob
    /\ worker.at \in {"apply", "rollback", "conclude"} => journal.result = "none"
    /\ worker.at \in Settled => Agree

\* A journal the worker has not read is the task's, or was.
OthersJournal ==
  worker.at \in Working \cup {"gate"} /\ journal.job \notin {NoConfigJob, worker.read.job}
    => task.job = journal.job \/ results[journal.job] # {}
LostInv == OthersJournal /\ Conf!NoConfigurationIsLost

ConfigInv == ConfigTypes /\ GateInv /\ TaskInv /\ WorkerInv /\ AgreeInv /\ LostInv

\* Records with two fields replaced.
LEMMA AdvanceTask ==
  ASSUME ConfigTypes, NEW a, a \in {"rollback", "raise", "finish"} \cup Settled,
         NEW o, o \in {"none"} \cup Ended, Conf!Advance("task", a, o)
  PROVE  task' \in TaskRec /\ task'.job = task.job /\ task'.at = a /\ task'.outcome = o /\ worker' = worker
BY DEF ConfigTypes, Conf!Advance, TaskRec, Settled, Working, Ended

LEMMA AdvanceWorker ==
  ASSUME ConfigTypes, NEW a, a \in {"rollback", "raise", "interrupted"} \cup Settled,
         NEW o, o \in {"none"} \cup Ended, Conf!Advance("worker", a, o)
  PROVE  /\ worker' \in WorkerRec /\ worker'.read = worker.read /\ worker'.boot = worker.boot
         /\ worker'.at = a /\ worker'.outcome = o /\ task' = task
BY DEF ConfigTypes, Conf!Advance, WorkerRec, Settled, Working, Ended

\* The journal in the holder's hands, with its rollback asked for or its result noted.
LEMMA HeldJournal ==
  ASSUME NEW held \in JournalRec, NEW result \in Ended
  PROVE  /\ [held EXCEPT !.rollback = TRUE] \in JournalRec /\ [held EXCEPT !.rollback = TRUE].job = held.job
         /\ [held EXCEPT !.rollback = TRUE].result = held.result
         /\ [held EXCEPT !.result = result] \in JournalRec /\ [held EXCEPT !.result = result].job = held.job
BY DEF JournalRec

USE DEF Conf!NoJournal, Conf!TaskIdle, Conf!WorkerIdle, Conf!Settings, Conf!AnyJob, JournalRec, TaskRec, WorkerRec, Working,
  Settled, Ended

LEMMA ConfigInitInv == Conf!ConfigAssumption /\ Conf!ConfigInit => ConfigInv
<1> SUFFICES ASSUME Conf!ConfigAssumption, Conf!ConfigInit PROVE ConfigInv
  OBVIOUS
<1>1. ConfigTypes
  BY DEF Conf!ConfigInit, ConfigTypes
<1> QED BY <1>1 DEF Conf!ConfigInit, ConfigInv, Conf!ConfigAssumption, GateInv, TaskInv, WorkerInv, AgreeInv, LostInv,
       Agree, OthersJournal, Conf!NoConfigurationIsLost

\* One more outcome of job j, of those that are queued.
IsReported(j) ==
  /\ results' \in [Conf!AnyJob -> SUBSET {"running", "completed", "failed", "interrupted"}]
  /\ results'[j] # {} /\ \A i \in Conf!AnyJob : results[i] # {} => results'[i] # {}

LEMMA TaskHolds ==
  ASSUME ConfigInv, NEW at \in Working, Conf!Holds("task", at)
  PROVE  /\ gate = "task" /\ task.at = at /\ worker.at \notin Working
         /\ journal \in JournalRec /\ journal.job \in ConfigJob /\ journal.previous \in Conf!Settings /\ journal.rollback \in BOOLEAN
         /\ journal.job \in Conf!Settings
BY DEF Conf!Holds, ConfigInv, ConfigTypes, GateInv, TaskInv, WorkerInv

LEMMA ApplyRequestedTask == ASSUME ConfigInv, Conf!ApplyRequested("task") PROVE ConfigInv'
<1>1. /\ gate = "task" /\ task.at = "apply" /\ worker.at \notin Working
      /\ journal \in JournalRec /\ journal.job \in ConfigJob /\ journal.job \in Conf!Settings /\ ConfigTypes
  BY TaskHolds DEF Conf!ApplyRequested, ConfigInv
<1>2. /\ task' \in TaskRec /\ task'.job = task.job /\ worker' = worker
      /\ journal' \in JournalRec /\ disk' \in Conf!Settings /\ live' \in Conf!Settings /\ effective' \in Conf!Settings \cup {NoConfigJob}
      /\ \/ task'.at = "conclude" /\ task'.outcome \in Ended /\ Agree' /\ journal' = journal
         \/ task'.at = "rollback" /\ journal'.job = journal.job /\ journal'.result = journal.result
  <2>1. CASE /\ disk' = journal.job /\ live' = journal.job /\ effective' = journal.job
             /\ Conf!Advance("task", "conclude", "completed") /\ UNCHANGED journal
    <3>1. task' \in TaskRec /\ task'.job = task.job /\ worker' = worker /\ task'.at = "conclude" /\ task'.outcome = "completed"
      BY <1>1, <2>1, AdvanceTask
    <3> QED BY <1>1, <2>1, <3>1 DEF Agree, ConfigTypes
  <2>2. CASE /\ disk' = journal.job /\ live' = journal.job /\ effective' = NoConfigJob
             /\ journal' = [journal EXCEPT !.rollback = TRUE] /\ Conf!Advance("task", "rollback", "failed")
    <3>1. task' \in TaskRec /\ task'.job = task.job /\ worker' = worker /\ task'.at = "rollback"
      BY <1>1, <2>2, AdvanceTask
    <3> QED BY <1>1, <2>2, <3>1, HeldJournal
  <2>3. CASE journal' = journal /\ Conf!Advance("task", "rollback", "failed") /\ UNCHANGED <<disk, live, effective>>
    <3>1. task' \in TaskRec /\ task'.job = task.job /\ worker' = worker /\ task'.at = "rollback"
      BY <1>1, <2>3, AdvanceTask
    <3> QED BY <1>1, <2>3, <3>1 DEF ConfigTypes
  <2> QED BY <2>1, <2>2, <2>3 DEF Conf!ApplyRequested, Conf!Held
<1>3. gate' = gate /\ UNCHANGED <<jobRecord, results, overtaken, passedOver>>
  BY DEF Conf!ApplyRequested
<1> QED BY <1>1, <1>2, <1>3 DEF ConfigInv, ConfigTypes, Conf!ConfigAssumption, GateInv, TaskInv, WorkerInv,
       AgreeInv, LostInv, OthersJournal, Conf!NoConfigurationIsLost, Agree

LEMMA RollBackTask == ASSUME ConfigInv, Conf!RollBack("task") PROVE ConfigInv'
<1>1. /\ gate = "task" /\ task.at = "rollback" /\ worker.at \notin Working
      /\ journal \in JournalRec /\ journal.job \in ConfigJob /\ journal.previous \in Conf!Settings /\ ConfigTypes
  BY TaskHolds DEF Conf!RollBack, ConfigInv
<1>2. /\ task' \in TaskRec /\ task'.job = task.job /\ worker' = worker
      /\ disk' \in Conf!Settings /\ live' \in Conf!Settings /\ effective' \in Conf!Settings \cup {NoConfigJob}
      /\ \/ task'.at = "conclude" /\ task'.outcome \in Ended /\ Agree' /\ gate' = gate
         \/ task'.at = "raise" /\ gate' = "free"
  <2>1. CASE effective' = journal.previous /\ Conf!Advance("task", "conclude", "failed") /\ UNCHANGED gate
    <3>1. task' \in TaskRec /\ task'.job = task.job /\ worker' = worker /\ task'.at = "conclude" /\ task'.outcome = "failed"
      BY <1>1, <2>1, AdvanceTask
    <3> QED BY <1>1, <2>1, <3>1 DEF Agree, Conf!RollBack, Conf!Held
  <2>2. CASE effective' = NoConfigJob /\ Conf!Advance("task", "raise", "none") /\ gate' = "free"
    <3>1. task' \in TaskRec /\ task'.job = task.job /\ worker' = worker /\ task'.at = "raise"
      BY <1>1, <2>2, AdvanceTask
    <3> QED BY <1>1, <2>2, <3>1 DEF Conf!RollBack, Conf!Held
  <2> QED BY <2>1, <2>2 DEF Conf!RollBack, Conf!Held
<1>3. journal' = journal /\ UNCHANGED <<jobRecord, results, overtaken, passedOver>>
  BY DEF Conf!RollBack
<1> QED BY <1>1, <1>2, <1>3 DEF ConfigInv, ConfigTypes, Conf!ConfigAssumption, GateInv, TaskInv, WorkerInv,
       AgreeInv, LostInv, OthersJournal, Conf!NoConfigurationIsLost, Agree

LEMMA ConcludeTask == ASSUME ConfigInv, Conf!Conclude("task") PROVE ConfigInv'
<1>1. /\ gate = "task" /\ task.at = "conclude" /\ worker.at \notin Working
      /\ journal \in JournalRec /\ journal.job \in ConfigJob /\ ConfigTypes
  BY TaskHolds DEF Conf!Conclude, ConfigInv
<1>2. task.outcome \in Ended
  BY <1>1 DEF ConfigInv, TaskInv
<1>3. journal' = [journal EXCEPT !.result = task.outcome] /\ Conf!Advance("task", "queue", task.outcome)
      /\ gate' = gate /\ UNCHANGED <<disk, live, effective>> /\ UNCHANGED <<jobRecord, results, overtaken, passedOver>>
  BY DEF Conf!Conclude, Conf!Held
<1>4. /\ task' \in TaskRec /\ task'.job = task.job /\ worker' = worker /\ task'.at = "queue" /\ task'.outcome = task.outcome
      /\ journal' \in JournalRec /\ journal'.job = journal.job
  BY <1>1, <1>2, <1>3, AdvanceTask, HeldJournal
<1> QED BY <1>1, <1>2, <1>3, <1>4 DEF ConfigInv, ConfigTypes, Conf!ConfigAssumption, GateInv, TaskInv, WorkerInv,
       AgreeInv, LostInv, OthersJournal, Conf!NoConfigurationIsLost, Agree

LEMMA QueueResultTask == ASSUME ConfigInv, Conf!QueueResult("task") PROVE ConfigInv'
<1>1. /\ gate = "task" /\ task.at = "queue" /\ worker.at \notin Working
      /\ journal \in JournalRec /\ journal.job \in ConfigJob /\ ConfigTypes
  BY TaskHolds DEF Conf!QueueResult, ConfigInv
<1>2. task.outcome \in Ended
  BY <1>1 DEF ConfigInv, TaskInv
<1>3. Conf!Report(journal.job, task.outcome) /\ Conf!Advance("task", "forget", task.outcome)
      /\ gate' = gate /\ UNCHANGED <<disk, live, effective, journal, jobRecord, overtaken, passedOver>>
  BY DEF Conf!QueueResult
<1>4. task' \in TaskRec /\ task'.job = task.job /\ worker' = worker /\ task'.at = "forget" /\ task'.outcome = task.outcome
  BY <1>1, <1>2, <1>3, AdvanceTask
<1>5. IsReported(journal.job)
  BY <1>1, <1>2, <1>3 DEF Conf!Report, IsReported, ConfigTypes
<1> QED BY <1>1, <1>2, <1>3, <1>4, <1>5 DEF IsReported, ConfigInv, ConfigTypes, Conf!ConfigAssumption, GateInv,
       TaskInv, WorkerInv, AgreeInv, LostInv, OthersJournal, Conf!NoConfigurationIsLost, Agree

LEMMA DeleteJournalTask == ASSUME ConfigInv, Conf!DeleteJournal("task") PROVE ConfigInv'
<1>1. /\ gate = "task" /\ task.at = "forget" /\ worker.at \notin Working /\ ConfigTypes
  BY TaskHolds DEF Conf!DeleteJournal, ConfigInv
<1>2. task.outcome \in Ended
  BY <1>1 DEF ConfigInv, TaskInv
<1>3. journal' = Conf!NoJournal /\ gate' = "free" /\ UNCHANGED <<disk, live, effective>> /\ UNCHANGED <<jobRecord, results, overtaken, passedOver>>
      /\ Conf!Advance("task", "finish", task.outcome)
  BY DEF Conf!DeleteJournal
<1>4. task' \in TaskRec /\ task'.job = task.job /\ worker' = worker /\ task'.at = "finish" /\ task'.outcome = task.outcome
  BY <1>1, <1>2, <1>3, AdvanceTask
<1>5. Conf!NoJournal \in JournalRec
  OBVIOUS
<1> QED BY <1>1, <1>2, <1>3, <1>4, <1>5 DEF ConfigInv, ConfigTypes, Conf!ConfigAssumption, GateInv, TaskInv,
       WorkerInv, AgreeInv, LostInv, OthersJournal, Conf!NoConfigurationIsLost, Agree

LEMMA WorkerHolds ==
  ASSUME ConfigInv, NEW at \in Working, Conf!Holds("worker", at)
  PROVE  /\ gate = "worker" /\ worker.at = at /\ task.at \notin Working
         /\ worker.read \in JournalRec /\ worker.read.job \in ConfigJob /\ worker.read.previous \in Conf!Settings /\ worker.read.rollback \in BOOLEAN
         /\ worker.read.job \in Conf!Settings
BY DEF Conf!Holds, ConfigInv, ConfigTypes, GateInv, TaskInv, WorkerInv

LEMMA ApplyRequestedWorker == ASSUME ConfigInv, Conf!ApplyRequested("worker") PROVE ConfigInv'
<1>1. /\ gate = "worker" /\ worker.at = "apply" /\ task.at \notin Working
      /\ worker.read \in JournalRec /\ worker.read.job \in ConfigJob /\ worker.read.job \in Conf!Settings /\ ConfigTypes
  BY WorkerHolds DEF Conf!ApplyRequested, ConfigInv
<1>2. /\ worker' \in WorkerRec /\ worker'.read = worker.read /\ worker'.boot = worker.boot /\ task' = task
      /\ journal' \in JournalRec /\ disk' \in Conf!Settings /\ live' \in Conf!Settings /\ effective' \in Conf!Settings \cup {NoConfigJob}
      /\ \/ worker'.at = "conclude" /\ worker'.outcome \in Ended /\ Agree' /\ journal' = journal
         \/ worker'.at = "rollback" /\ journal'.job = worker.read.job /\ journal'.result = worker.read.result
  <2>1. CASE /\ disk' = worker.read.job /\ live' = worker.read.job /\ effective' = worker.read.job
             /\ Conf!Advance("worker", "conclude", "completed") /\ UNCHANGED journal
    <3>1. worker' \in WorkerRec /\ worker'.read = worker.read /\ worker'.boot = worker.boot /\ task' = task /\ worker'.at = "conclude" /\ worker'.outcome = "completed"
      BY <1>1, <2>1, AdvanceWorker
    <3> QED BY <1>1, <2>1, <3>1 DEF Agree, ConfigTypes
  <2>2. CASE /\ disk' = worker.read.job /\ live' = worker.read.job /\ effective' = NoConfigJob
             /\ journal' = [worker.read EXCEPT !.rollback = TRUE] /\ Conf!Advance("worker", "rollback", "failed")
    <3>1. worker' \in WorkerRec /\ worker'.read = worker.read /\ worker'.boot = worker.boot /\ task' = task /\ worker'.at = "rollback"
      BY <1>1, <2>2, AdvanceWorker
    <3> QED BY <1>1, <2>2, <3>1, HeldJournal
  <2>3. CASE journal' = worker.read /\ Conf!Advance("worker", "rollback", "failed") /\ UNCHANGED <<disk, live, effective>>
    <3>1. worker' \in WorkerRec /\ worker'.read = worker.read /\ worker'.boot = worker.boot /\ task' = task /\ worker'.at = "rollback"
      BY <1>1, <2>3, AdvanceWorker
    <3> QED BY <1>1, <2>3, <3>1 DEF ConfigTypes
  <2> QED BY <2>1, <2>2, <2>3 DEF Conf!ApplyRequested, Conf!Held
<1>3. gate' = gate /\ UNCHANGED <<jobRecord, results, overtaken, passedOver>>
  BY DEF Conf!ApplyRequested
<1> QED BY <1>1, <1>2, <1>3 DEF ConfigInv, ConfigTypes, Conf!ConfigAssumption, GateInv, TaskInv, WorkerInv,
       AgreeInv, LostInv, OthersJournal, Conf!NoConfigurationIsLost, Agree

LEMMA RollBackWorker == ASSUME ConfigInv, Conf!RollBack("worker") PROVE ConfigInv'
<1>1. /\ gate = "worker" /\ worker.at = "rollback" /\ task.at \notin Working
      /\ worker.read \in JournalRec /\ worker.read.job \in ConfigJob /\ worker.read.previous \in Conf!Settings /\ ConfigTypes
  BY WorkerHolds DEF Conf!RollBack, ConfigInv
<1>2. /\ worker' \in WorkerRec /\ worker'.read = worker.read /\ worker'.boot = worker.boot /\ task' = task
      /\ disk' \in Conf!Settings /\ live' \in Conf!Settings /\ effective' \in Conf!Settings \cup {NoConfigJob}
      /\ \/ worker'.at = "conclude" /\ worker'.outcome \in Ended /\ Agree' /\ gate' = gate
         \/ worker'.at = "raise" /\ gate' = "free"
  <2>1. CASE effective' = worker.read.previous /\ Conf!Advance("worker", "conclude", "failed") /\ UNCHANGED gate
    <3>1. worker' \in WorkerRec /\ worker'.read = worker.read /\ worker'.boot = worker.boot /\ task' = task /\ worker'.at = "conclude" /\ worker'.outcome = "failed"
      BY <1>1, <2>1, AdvanceWorker
    <3> QED BY <1>1, <2>1, <3>1 DEF Agree, Conf!RollBack, Conf!Held
  <2>2. CASE effective' = NoConfigJob /\ Conf!Advance("worker", "raise", "none") /\ gate' = "free"
    <3>1. worker' \in WorkerRec /\ worker'.read = worker.read /\ worker'.boot = worker.boot /\ task' = task /\ worker'.at = "raise"
      BY <1>1, <2>2, AdvanceWorker
    <3> QED BY <1>1, <2>2, <3>1 DEF Conf!RollBack, Conf!Held
  <2> QED BY <2>1, <2>2 DEF Conf!RollBack, Conf!Held
<1>3. journal' = journal /\ UNCHANGED <<jobRecord, results, overtaken, passedOver>>
  BY DEF Conf!RollBack
<1> QED BY <1>1, <1>2, <1>3 DEF ConfigInv, ConfigTypes, Conf!ConfigAssumption, GateInv, TaskInv, WorkerInv,
       AgreeInv, LostInv, OthersJournal, Conf!NoConfigurationIsLost, Agree

LEMMA ConcludeWorker == ASSUME ConfigInv, Conf!Conclude("worker") PROVE ConfigInv'
<1>1. /\ gate = "worker" /\ worker.at = "conclude" /\ task.at \notin Working
      /\ worker.read \in JournalRec /\ worker.read.job \in ConfigJob /\ ConfigTypes
  BY WorkerHolds DEF Conf!Conclude, ConfigInv
<1>2. worker.outcome \in Ended
  BY <1>1 DEF ConfigInv, WorkerInv
<1>3. journal' = [worker.read EXCEPT !.result = worker.outcome] /\ Conf!Advance("worker", "queue", worker.outcome)
      /\ gate' = gate /\ UNCHANGED <<disk, live, effective>> /\ UNCHANGED <<jobRecord, results, overtaken, passedOver>>
  BY DEF Conf!Conclude, Conf!Held
<1>4. /\ worker' \in WorkerRec /\ worker'.read = worker.read /\ worker'.boot = worker.boot /\ task' = task /\ worker'.at = "queue" /\ worker'.outcome = worker.outcome
      /\ journal' \in JournalRec /\ journal'.job = worker.read.job
  BY <1>1, <1>2, <1>3, AdvanceWorker, HeldJournal
<1> QED BY <1>1, <1>2, <1>3, <1>4 DEF ConfigInv, ConfigTypes, Conf!ConfigAssumption, GateInv, TaskInv, WorkerInv,
       AgreeInv, LostInv, OthersJournal, Conf!NoConfigurationIsLost, Agree

LEMMA QueueResultWorker == ASSUME ConfigInv, Conf!QueueResult("worker") PROVE ConfigInv'
<1>1. /\ gate = "worker" /\ worker.at = "queue" /\ task.at \notin Working
      /\ worker.read \in JournalRec /\ worker.read.job \in ConfigJob /\ ConfigTypes
  BY WorkerHolds DEF Conf!QueueResult, ConfigInv
<1>2. worker.outcome \in Ended
  BY <1>1 DEF ConfigInv, WorkerInv
<1>3. Conf!Report(worker.read.job, worker.outcome) /\ Conf!Advance("worker", "forget", worker.outcome)
      /\ gate' = gate /\ UNCHANGED <<disk, live, effective, journal, jobRecord, overtaken, passedOver>>
  BY DEF Conf!QueueResult
<1>4. worker' \in WorkerRec /\ worker'.read = worker.read /\ worker'.boot = worker.boot /\ task' = task /\ worker'.at = "forget" /\ worker'.outcome = worker.outcome
  BY <1>1, <1>2, <1>3, AdvanceWorker
<1>5. IsReported(worker.read.job)
  BY <1>1, <1>2, <1>3 DEF Conf!Report, IsReported, ConfigTypes
<1> QED BY <1>1, <1>2, <1>3, <1>4, <1>5 DEF IsReported, ConfigInv, ConfigTypes, Conf!ConfigAssumption, GateInv,
       TaskInv, WorkerInv, AgreeInv, LostInv, OthersJournal, Conf!NoConfigurationIsLost, Agree

LEMMA DeleteJournalWorker == ASSUME ConfigInv, Conf!DeleteJournal("worker") PROVE ConfigInv'
<1>1. /\ gate = "worker" /\ worker.at = "forget" /\ task.at \notin Working /\ ConfigTypes
  BY WorkerHolds DEF Conf!DeleteJournal, ConfigInv
<1>2. worker.outcome \in Ended
  BY <1>1 DEF ConfigInv, WorkerInv
<1>3. journal' = Conf!NoJournal /\ gate' = "free" /\ UNCHANGED <<disk, live, effective>> /\ UNCHANGED <<jobRecord, results, overtaken, passedOver>>
      /\ Conf!Advance("worker", "interrupted", "none")
  BY DEF Conf!DeleteJournal
<1>4. worker' \in WorkerRec /\ worker'.read = worker.read /\ worker'.boot = worker.boot /\ task' = task /\ worker'.at = "interrupted"
  BY <1>1, <1>2, <1>3, AdvanceWorker
<1>5. Conf!NoJournal \in JournalRec
  OBVIOUS
<1> QED BY <1>1, <1>2, <1>3, <1>4, <1>5 DEF ConfigInv, ConfigTypes, Conf!ConfigAssumption, GateInv, TaskInv,
       WorkerInv, AgreeInv, LostInv, OthersJournal, Conf!NoConfigurationIsLost, Agree

LEMMA BeginStep == ASSUME ConfigInv, NEW j \in Conf!AnyJob, Conf!Begin(j) PROVE ConfigInv'
<1>1. task' \in TaskRec /\ task'.job = j /\ task'.at \in {"gate", "run"} /\ (task'.at = "gate" => j \in ConfigJob)
  BY DEF Conf!Begin, ConfigInv, ConfigTypes, Conf!ConfigAssumption, TaskInv, WorkerInv, GateInv
<1>2. ConfigTypes' /\ GateInv'
  BY <1>1 DEF Conf!Begin, ConfigInv, ConfigTypes, GateInv
<1>3. TaskInv'
  BY <1>1 DEF Conf!Begin, ConfigInv, ConfigTypes, Conf!ConfigAssumption, GateInv, TaskInv, Agree
<1>4. WorkerInv'
  BY <1>1 DEF Conf!Begin, ConfigInv, ConfigTypes, GateInv, WorkerInv
<1>5. AgreeInv'
  BY <1>1 DEF Conf!Begin, ConfigInv, ConfigTypes, Conf!ConfigAssumption, GateInv, WorkerInv, AgreeInv, Agree
<1>6. LostInv'
  BY <1>1 DEF Conf!Begin, ConfigInv, ConfigTypes, Conf!ConfigAssumption, TaskInv, WorkerInv, LostInv, OthersJournal,
       Conf!NoConfigurationIsLost
<1> QED BY <1>1, <1>2, <1>3, <1>4, <1>5, <1>6 DEF ConfigInv

LEMMA RunPlainStep == ASSUME ConfigInv, Conf!RunPlainJob PROVE ConfigInv'
<1>1. task' \in TaskRec /\ task'.job = task.job /\ task'.at = "finish" /\ task'.outcome = "completed"
  BY DEF Conf!RunPlainJob, Conf!files, ConfigInv, ConfigTypes, Conf!ConfigAssumption, TaskInv, WorkerInv, GateInv
<1>2. ConfigTypes' /\ GateInv'
  BY <1>1 DEF Conf!RunPlainJob, Conf!files, ConfigInv, ConfigTypes, GateInv
<1>3. TaskInv'
  BY <1>1 DEF Conf!RunPlainJob, Conf!files, ConfigInv, ConfigTypes, Conf!ConfigAssumption, GateInv, TaskInv, Agree
<1>4. WorkerInv'
  BY <1>1 DEF Conf!RunPlainJob, Conf!files, ConfigInv, ConfigTypes, GateInv, WorkerInv
<1>5. AgreeInv'
  BY <1>1 DEF Conf!RunPlainJob, Conf!files, ConfigInv, ConfigTypes, Conf!ConfigAssumption, GateInv, WorkerInv, AgreeInv, Agree
<1>6. LostInv'
  BY <1>1 DEF Conf!RunPlainJob, Conf!files, ConfigInv, ConfigTypes, Conf!ConfigAssumption, TaskInv, WorkerInv, LostInv,
       OthersJournal, Conf!NoConfigurationIsLost
<1> QED BY <1>1, <1>2, <1>3, <1>4, <1>5, <1>6 DEF ConfigInv

LEMMA TakeGateStep == ASSUME ConfigInv, Conf!TakeGate PROVE ConfigInv'
<1>1. /\ task.at = "gate" /\ gate = "free" /\ task.job \in ConfigJob /\ live \in Conf!Settings /\ task \in TaskRec
      /\ UNCHANGED <<disk, live, effective, jobRecord, results, worker, configFaults, overtaken, passedOver>>
  BY DEF Conf!TakeGate, ConfigInv, ConfigTypes, TaskInv
<1>2. CASE Conf!RecoveryPending
  <2>1. task' \in TaskRec /\ task'.job = task.job /\ task'.at = "raise" /\ journal' = journal /\ gate' = gate
    BY <1>1, <1>2 DEF Conf!TakeGate
  <2> QED BY <1>1, <1>2, <2>1 DEF Conf!RecoveryPending, ConfigInv, ConfigTypes, Conf!ConfigAssumption, GateInv,
       TaskInv, WorkerInv, AgreeInv, LostInv, OthersJournal, Conf!NoConfigurationIsLost, Agree
<1>3. CASE ~Conf!RecoveryPending
  <2>1. task' \in TaskRec /\ task'.job = task.job /\ task'.at = "apply"
    BY <1>1, <1>3 DEF Conf!TakeGate
  <2>2. journal = Conf!NoJournal /\ journal' = [Conf!NoJournal EXCEPT !.job = task.job, !.previous = live] /\ gate' = "task"
    BY <1>1, <1>3 DEF Conf!TakeGate, Conf!RecoveryPending
  <2>3. journal' \in JournalRec /\ journal'.job = task.job /\ journal'.result = "none" /\ journal.job = NoConfigJob
    BY <1>1, <2>2
  <2> QED BY <1>1, <2>1, <2>2, <2>3 DEF ConfigInv, ConfigTypes, Conf!ConfigAssumption, GateInv, TaskInv,
       WorkerInv, AgreeInv, LostInv, OthersJournal, Conf!NoConfigurationIsLost, Agree
<1> QED BY <1>2, <1>3

LEMMA RaisedStep == ASSUME ConfigInv, Conf!Raised PROVE ConfigInv'
<1>1. task' \in TaskRec /\ task'.job = task.job /\ task'.at = "finish" /\ task'.outcome \in {"running", "failed"}
  BY DEF Conf!Raised, Conf!files, ConfigInv, ConfigTypes, Conf!ConfigAssumption, TaskInv, WorkerInv, GateInv
<1>2. ConfigTypes' /\ GateInv'
  BY <1>1 DEF Conf!Raised, Conf!files, ConfigInv, ConfigTypes, GateInv
<1>3. TaskInv'
  BY <1>1 DEF Conf!Raised, Conf!files, ConfigInv, ConfigTypes, Conf!ConfigAssumption, GateInv, TaskInv, Agree
<1>4. WorkerInv'
  BY <1>1 DEF Conf!Raised, Conf!files, ConfigInv, ConfigTypes, GateInv, WorkerInv
<1>5. AgreeInv'
  BY <1>1 DEF Conf!Raised, Conf!files, ConfigInv, ConfigTypes, Conf!ConfigAssumption, GateInv, WorkerInv, AgreeInv, Agree
<1>6. LostInv'
  BY <1>1 DEF Conf!Raised, Conf!files, ConfigInv, ConfigTypes, Conf!ConfigAssumption, TaskInv, WorkerInv, LostInv,
       OthersJournal, Conf!NoConfigurationIsLost
<1> QED BY <1>1, <1>2, <1>3, <1>4, <1>5, <1>6 DEF ConfigInv

LEMMA ReadJournalStep == ASSUME ConfigInv, Conf!ReadJournal PROVE ConfigInv'
<1>1. worker' \in WorkerRec /\ worker'.read = journal /\ worker'.at = "gate" /\ worker'.outcome = journal.result /\ worker'.boot = worker.boot
  BY DEF Conf!ReadJournal, Conf!files, Conf!RecoveryPending, ConfigInv, ConfigTypes, Conf!ConfigAssumption, TaskInv, WorkerInv,
       GateInv
<1>2. ConfigTypes' /\ GateInv'
  BY <1>1 DEF Conf!ReadJournal, Conf!files, Conf!RecoveryPending, ConfigInv, ConfigTypes, GateInv
<1>3. TaskInv'
  BY <1>1 DEF Conf!ReadJournal, Conf!files, Conf!RecoveryPending, ConfigInv, ConfigTypes, Conf!ConfigAssumption, GateInv,
       TaskInv, Agree
<1>4. WorkerInv'
  BY <1>1 DEF Conf!ReadJournal, Conf!files, Conf!RecoveryPending, ConfigInv, ConfigTypes, GateInv, WorkerInv
<1>5. AgreeInv'
  BY <1>1 DEF Conf!ReadJournal, Conf!files, Conf!RecoveryPending, ConfigInv, ConfigTypes, Conf!ConfigAssumption, GateInv,
       WorkerInv, AgreeInv, Agree
<1>6. LostInv'
  BY <1>1 DEF Conf!ReadJournal, Conf!files, Conf!RecoveryPending, ConfigInv, ConfigTypes, Conf!ConfigAssumption, TaskInv,
       WorkerInv, LostInv, OthersJournal, Conf!NoConfigurationIsLost
<1> QED BY <1>1, <1>2, <1>3, <1>4, <1>5, <1>6 DEF ConfigInv

LEMMA RecoverJournalStep == ASSUME ConfigInv, Conf!RecoverJournal PROVE ConfigInv'
<1>1. worker' \in WorkerRec /\ worker'.read = worker.read /\ worker'.at \in {"apply", "queue"} /\ worker'.outcome = worker.outcome
  BY DEF Conf!RecoverJournal, Conf!files, ConfigInv, ConfigTypes, Conf!ConfigAssumption, TaskInv, WorkerInv, GateInv
<1>2. ConfigTypes' /\ GateInv'
  BY <1>1 DEF Conf!RecoverJournal, Conf!files, ConfigInv, ConfigTypes, GateInv
<1>3. TaskInv'
  BY <1>1 DEF Conf!RecoverJournal, Conf!files, ConfigInv, ConfigTypes, Conf!ConfigAssumption, GateInv, TaskInv, Agree
<1>4. WorkerInv'
  BY <1>1 DEF Conf!RecoverJournal, Conf!files, ConfigInv, ConfigTypes, GateInv, WorkerInv
<1>5. AgreeInv'
  BY <1>1 DEF Conf!RecoverJournal, Conf!files, ConfigInv, ConfigTypes, Conf!ConfigAssumption, GateInv, WorkerInv, AgreeInv,
       Agree
<1>6. LostInv'
  BY <1>1 DEF Conf!RecoverJournal, Conf!files, ConfigInv, ConfigTypes, Conf!ConfigAssumption, TaskInv, WorkerInv, LostInv,
       OthersJournal, Conf!NoConfigurationIsLost
<1> QED BY <1>1, <1>2, <1>3, <1>4, <1>5, <1>6 DEF ConfigInv

LEMMA RecoveryRaisedStep == ASSUME ConfigInv, Conf!RecoveryRaised PROVE ConfigInv'
<1>1. worker' \in WorkerRec /\ worker'.at \in {"idle", "interrupted"}
  BY DEF Conf!RecoveryRaised, Conf!files, ConfigInv, ConfigTypes, Conf!ConfigAssumption, TaskInv, WorkerInv, GateInv
<1>2. ConfigTypes' /\ GateInv'
  BY <1>1 DEF Conf!RecoveryRaised, Conf!files, ConfigInv, ConfigTypes, GateInv
<1>3. TaskInv'
  BY <1>1 DEF Conf!RecoveryRaised, Conf!files, ConfigInv, ConfigTypes, Conf!ConfigAssumption, GateInv, TaskInv, Agree
<1>4. WorkerInv'
  BY <1>1 DEF Conf!RecoveryRaised, Conf!files, ConfigInv, ConfigTypes, GateInv, WorkerInv
<1>5. AgreeInv'
  BY <1>1 DEF Conf!RecoveryRaised, Conf!files, ConfigInv, ConfigTypes, Conf!ConfigAssumption, GateInv, WorkerInv, AgreeInv,
       Agree
<1>6. LostInv'
  BY <1>1 DEF Conf!RecoveryRaised, Conf!files, ConfigInv, ConfigTypes, Conf!ConfigAssumption, TaskInv, WorkerInv, LostInv,
       OthersJournal, Conf!NoConfigurationIsLost
<1> QED BY <1>1, <1>2, <1>3, <1>4, <1>5, <1>6 DEF ConfigInv

LEMMA StopStep == ASSUME ConfigInv, Conf!Stop PROVE ConfigInv'
<1>1. worker' \in WorkerRec /\ worker'.at = "stopped" /\ worker'.boot /\ task' \in TaskRec
  BY DEF Conf!Stop, Conf!files, Conf!ConfigFault, ConfigInv, ConfigTypes, Conf!ConfigAssumption, TaskInv, WorkerInv, GateInv
<1>2. ConfigTypes' /\ GateInv'
  BY <1>1 DEF Conf!Stop, Conf!files, Conf!ConfigFault, ConfigInv, ConfigTypes, GateInv
<1>3. TaskInv'
  BY <1>1 DEF Conf!Stop, Conf!files, Conf!ConfigFault, ConfigInv, ConfigTypes, Conf!ConfigAssumption, GateInv, TaskInv, Agree
<1>4. WorkerInv'
  BY <1>1 DEF Conf!Stop, Conf!files, Conf!ConfigFault, ConfigInv, ConfigTypes, GateInv, WorkerInv
<1>5. AgreeInv'
  BY <1>1 DEF Conf!Stop, Conf!files, Conf!ConfigFault, ConfigInv, ConfigTypes, Conf!ConfigAssumption, GateInv, WorkerInv,
       AgreeInv, Agree
<1>6. LostInv'
  BY <1>1 DEF Conf!Stop, Conf!files, Conf!ConfigFault, ConfigInv, ConfigTypes, Conf!ConfigAssumption, TaskInv, WorkerInv,
       LostInv, OthersJournal, Conf!NoConfigurationIsLost
<1> QED BY <1>1, <1>2, <1>3, <1>4, <1>5, <1>6 DEF ConfigInv

LEMMA StartUpStep == ASSUME ConfigInv, Conf!StartUp PROVE ConfigInv'
<1>1. worker' \in WorkerRec /\ worker'.at = "idle" /\ worker'.boot
  BY DEF Conf!StartUp, Conf!files, ConfigInv, ConfigTypes, Conf!ConfigAssumption, TaskInv, WorkerInv, GateInv
<1>2. ConfigTypes' /\ GateInv'
  BY <1>1 DEF Conf!StartUp, Conf!files, ConfigInv, ConfigTypes, GateInv
<1>3. TaskInv'
  BY <1>1 DEF Conf!StartUp, Conf!files, ConfigInv, ConfigTypes, Conf!ConfigAssumption, GateInv, TaskInv, Agree
<1>4. WorkerInv'
  BY <1>1 DEF Conf!StartUp, Conf!files, ConfigInv, ConfigTypes, GateInv, WorkerInv
<1>5. AgreeInv'
  BY <1>1 DEF Conf!StartUp, Conf!files, ConfigInv, ConfigTypes, Conf!ConfigAssumption, GateInv, WorkerInv, AgreeInv, Agree
<1>6. LostInv'
  BY <1>1 DEF Conf!StartUp, Conf!files, ConfigInv, ConfigTypes, Conf!ConfigAssumption, TaskInv, WorkerInv, LostInv,
       OthersJournal, Conf!NoConfigurationIsLost
<1> QED BY <1>1, <1>2, <1>3, <1>4, <1>5, <1>6 DEF ConfigInv

LEMMA FinishJobStep == ASSUME ConfigInv, Conf!FinishJob PROVE ConfigInv'
<1>1. task' \in TaskRec /\ task'.at = "idle" /\ task.job \in Conf!AnyJob /\ IsReported(task.job)
  BY DEF IsReported, Conf!Report, Conf!FinishJob, ConfigInv, ConfigTypes, Conf!ConfigAssumption, TaskInv, WorkerInv, GateInv
<1>2. ConfigTypes' /\ GateInv'
  BY <1>1 DEF IsReported, Conf!FinishJob, ConfigInv, ConfigTypes, GateInv
<1>3. TaskInv'
  BY <1>1 DEF IsReported, Conf!FinishJob, ConfigInv, ConfigTypes, Conf!ConfigAssumption, GateInv, TaskInv, Agree
<1>4. WorkerInv'
  BY <1>1 DEF IsReported, Conf!FinishJob, ConfigInv, ConfigTypes, GateInv, WorkerInv
<1>5. AgreeInv'
  BY <1>1 DEF IsReported, Conf!FinishJob, ConfigInv, ConfigTypes, Conf!ConfigAssumption, GateInv, WorkerInv, AgreeInv, Agree
<1>6. LostInv'
  BY <1>1 DEF IsReported, Conf!FinishJob, ConfigInv, ConfigTypes, Conf!ConfigAssumption, TaskInv, WorkerInv, LostInv,
       OthersJournal, Conf!NoConfigurationIsLost
<1> QED BY <1>1, <1>2, <1>3, <1>4, <1>5, <1>6 DEF ConfigInv

LEMMA RecoverInterruptedStep == ASSUME ConfigInv, Conf!RecoverInterrupted PROVE ConfigInv'
<1>1. worker' \in WorkerRec /\ worker'.at = "idle" /\ ~worker'.boot /\ jobRecord' \in [Conf!AnyJob -> {"none", "running", "final"}] /\ results' \in [Conf!AnyJob -> SUBSET {"running", "completed", "failed", "interrupted"}]
  BY DEF Conf!RecoverInterrupted, ConfigInv, ConfigTypes, Conf!ConfigAssumption, TaskInv, WorkerInv, GateInv
<1>2. ConfigTypes' /\ GateInv'
  BY <1>1 DEF Conf!RecoverInterrupted, Conf!Lost, Conf!Concluded, Conf!RecoveryPending, ConfigInv, ConfigTypes, GateInv
<1>3. TaskInv'
  BY <1>1 DEF Conf!RecoverInterrupted, Conf!Lost, Conf!Concluded, Conf!RecoveryPending, ConfigInv, ConfigTypes, Conf!ConfigAssumption,
       GateInv, TaskInv, Agree
<1>4. WorkerInv'
  BY <1>1 DEF Conf!RecoverInterrupted, Conf!Lost, Conf!Concluded, Conf!RecoveryPending, ConfigInv, ConfigTypes, GateInv, WorkerInv
<1>5. AgreeInv'
  BY <1>1 DEF Conf!RecoverInterrupted, Conf!Lost, Conf!Concluded, Conf!RecoveryPending, ConfigInv, ConfigTypes, Conf!ConfigAssumption,
       GateInv, WorkerInv, AgreeInv, Agree
<1>6. LostInv'
  BY <1>1 DEF Conf!RecoverInterrupted, Conf!Lost, Conf!Concluded, Conf!RecoveryPending, ConfigInv, ConfigTypes, Conf!ConfigAssumption,
       TaskInv, WorkerInv, LostInv, OthersJournal, Conf!NoConfigurationIsLost
<1> QED BY <1>1, <1>2, <1>3, <1>4, <1>5, <1>6 DEF ConfigInv

LEMMA ConfigStep == ASSUME ConfigInv, [Conf!ConfigNext]_configV PROVE ConfigInv'
<1>1. CASE UNCHANGED configV
  BY <1>1 DEF configV, Conf!files, ConfigInv, ConfigTypes, GateInv, TaskInv, WorkerInv, AgreeInv, Agree,
       LostInv, OthersJournal, Conf!NoConfigurationIsLost
<1>2. CASE Conf!TaskStep
  BY <1>2, RunPlainStep, TakeGateStep, RaisedStep, FinishJobStep, ApplyRequestedTask, RollBackTask,
       ConcludeTask,
     QueueResultTask, DeleteJournalTask DEF Conf!TaskStep, Conf!HolderStep
<1>3. CASE Conf!WorkerStep
  BY <1>3, ReadJournalStep, RecoverJournalStep, RecoveryRaisedStep, RecoverInterruptedStep, StartUpStep,
     ApplyRequestedWorker, RollBackWorker, ConcludeWorker, QueueResultWorker,
       DeleteJournalWorker DEF Conf!WorkerStep, Conf!HolderStep
<1> QED BY <1>1, <1>2, <1>3, BeginStep, StopStep DEF Conf!ConfigNext

LEMMA ConfigSound == ConfigInv => Conf!ConfigurationIsKept /\ Conf!ConfigTypeOK
<1> SUFFICES ASSUME ConfigInv PROVE Conf!ConfigurationIsKept /\ Conf!ConfigTypeOK
  OBVIOUS
<1>1. Conf!SettingsAgree
  BY DEF ConfigInv, AgreeInv, Conf!SettingsAgree, Agree, Conf!RecoveryPending
<1>2. Conf!ConfigTypeOK
  BY DEF ConfigInv, ConfigTypes, Conf!ConfigTypeOK
<1> QED BY <1>1, <1>2 DEF Conf!ConfigurationIsKept, ConfigInv, LostInv

-----------------------------------------------------------------------------
(* Together.                                                                *)

LEMMA TeleMoves ==
  /\ Init => Tele!TelemetryInit
  /\ [Next]_Vars => [Tele!TelemetryNext]_telemetryV
BY DEF Init, Next, OthersRest, Vars

LEMMA ConfMoves ==
  /\ Init => Conf!ConfigInit
  /\ [Next]_Vars => [Conf!ConfigNext]_configV
BY DEF Init, Next, OthersRest, Vars

\* The strengthening holds of the composition, for every value of its constants.
THEOREM TelemetryInvariant == Spec => [](TeleInv /\ ConfigInv)
<1>1. Init => TeleInv /\ ConfigInv
  BY ComponentsAssumption, TeleMoves, ConfMoves, TeleInitInv, ConfigInitInv
<1>2. TeleInv /\ ConfigInv /\ [Next]_Vars => (TeleInv /\ ConfigInv)'
  BY TeleMoves, ConfMoves, TeleStep, ConfigStep
<1> QED
  BY <1>1, <1>2, PTL DEF Spec

\* A minute is stored once and what was acknowledged stays stored, whatever is uploaded
\* twice, compacted by two at once or interrupted; and what is on disk, in the process and
\* in force agree when nobody is at work, whose configuration was accepted or reported.
THEOREM TelemetryKept == Spec => []TelemetryIsKept
<1>1. TeleInv /\ ConfigInv => TelemetryIsKept
  BY TeleSound, ConfigSound DEF TelemetryIsKept
<1> QED
  BY <1>1, TelemetryInvariant, PTL

-----------------------------------------------------------------------------
(* All components.                                                          *)

\* The variables of the nine components have their types.
THEOREM ComponentsTyped == Spec => []TypeOK
<1>1. UpdateInv /\ ReportInv /\ ReleasesInv => Upd!UpdTypeOK /\ Rel!ReleasesTypeOK
  BY UpdateSound, ReleasesSafe
<1>2. MailInv /\ NoticeInv /\ DeskInv => Mail!MailTypeOK /\ Tick!DeskTypeOK
  BY MailSound, DeskSound
<1>3. InstallInv /\ TerminalInv /\ TerminalCounts /\ AutomationInv
        => Inst!InstallTypeOK /\ Term!TerminalTypeOK /\ Cal!AutomationTypeOK
  BY ComponentsAssumption, InstallSound, TerminalSound, CalendarKept
<1>4. TeleInv /\ ConfigInv => Tele!TelemetryTypeOK /\ Conf!ConfigTypeOK
  BY TeleSound, ConfigSound
<1> QED
  BY <1>1, <1>2, <1>3, <1>4, UpdatesInvariant, TicketsInvariant, WorkInvariant, TelemetryInvariant, PTL
     DEF TypeOK

\* No step takes a closed ticket, session, slot, definition or revoked release back to
\* work, unless by a save of what was read before it was closed, or by an operator who
\* reopens it.
THEOREM ClosedWork == Spec => ClosedStaysClosed
<1>1. ASSUME AutomationInv, [Next]_Vars
      PROVE  [\A o \in occurrences' :
                Cal!KeyOf(o) \notin {Cal!KeyOf(p) : p \in occurrences} /\ o.run = "scheduled" /\ o.job = "queued" =>
                  \A p \in occurrences : p.definition = o.definition /\ p.revision = o.revision /\ p.run = "scheduled"
                    => p.due <= o.due]_Cal!automationVars
  BY <1>1, CalMoves, SlotsForward
<1>2. ASSUME AutomationInv, [Next]_Vars
      PROVE  [\A d \in Definition : definition[d].state \in Cal!ClosedState /\ d \notin reopened'
                => definition'[d].state = definition[d].state]_Cal!automationVars
  BY <1>2, CalMoves, ClosedDefinitionStays
<1>3. Spec => Cal!SlotsGoForward
  BY <1>1, WorkInvariant, PTL DEF Spec, Cal!SlotsGoForward
<1>4. Spec => Cal!ClosedDefinitionIsFinal
  BY <1>2, WorkInvariant, PTL DEF Spec, Cal!ClosedDefinitionIsFinal
<1> QED
  BY <1>3, <1>4, ClosedTickets, ClosedSessions, RevokedReleases DEF ClosedStaysClosed
=============================================================================
