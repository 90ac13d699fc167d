------------------------------- MODULE Telemetry -------------------------------
(***************************************************************************)
(* Continuous telemetry of one endpoint: the agent aggregates readings     *)
(* into minute windows, hands closed windows over a bounded channel to a   *)
(* writer, keeps them in files until the server has accepted them, and     *)
(* uploads the oldest ones in batches.  The server stores each window once *)
(* and later merges windows into coarser rows.                             *)
(*                                                                         *)
(* A window's identity is its minute; its content is a version, since a    *)
(* clock that is set back lets the agent aggregate a minute again.         *)
(***************************************************************************)
EXTENDS FiniteSets, Integers

CONSTANTS
  MaxMinute,        \* bound on the clock
  ChannelLimit,     \* closed windows on their way to the writer
  QueueLimit,       \* window files kept, by count or by bytes
  BatchLimit,       \* windows in one upload
  Retention,        \* minutes before a stored window is merged into a coarser row
  MaxWindowAge,     \* minutes the agent keeps a window
  AcceptedAge,      \* minutes back the server accepts a window
  Compactor,        \* runs of compact_history
  MaxTelemetryFaults

TelemetryAssumption ==
  /\ {MaxMinute, ChannelLimit, QueueLimit, BatchLimit} \subseteq Nat \ {0}
  /\ {Retention, MaxWindowAge, AcceptedAge, MaxTelemetryFaults} \subseteq Nat

Minute == 1..MaxMinute

VARIABLES
  minute,     \* UTC minute
  setBack,    \* whether the clock was ever set back
  sampling,   \* ContinuousTelemetryPipeline.RunAsync is running
  open,       \* the aggregator's open window, 0 if none
  versions,   \* how often each minute was aggregated
  channel,    \* closed windows the writer has not taken
  queue,      \* window files
  upload,     \* the batch of the request under way, and its answer
  samples,    \* EndpointPerformanceSample rows of one minute
  rolled,     \* coarser rows: start, minutes, digests, the minutes counted once and more than once
  compacting, \* by compactor: the rows it found
  acknowledged, \* history: minutes whose file was deleted as accepted
  telemetryFaults

agentVars == <<sampling, open, versions, channel, queue>>
serverVars == <<samples, rolled>>
telemetryVars == <<minute, setBack, agentVars, upload, serverVars, compacting, acknowledged, telemetryFaults>>

Silent == [batch |-> {}, at |-> "idle"]
TelemetryInit ==
  /\ minute = 1 /\ setBack = FALSE
  /\ sampling = TRUE /\ open = 0 /\ versions = [m \in Minute |-> 0]
  /\ channel = {} /\ queue = {}
  /\ upload = Silent /\ samples = {} /\ rolled = {}
  /\ compacting = [k \in Compactor |-> {}] /\ acknowledged = {} /\ telemetryFaults = 0

TelemetryFault == telemetryFaults < MaxTelemetryFaults /\ telemetryFaults' = telemetryFaults + 1
NoTelemetryFault == UNCHANGED telemetryFaults

ClockTicks ==
  /\ minute < MaxMinute /\ minute' = minute + 1
  /\ UNCHANGED <<setBack, agentVars, upload, serverVars, compacting, acknowledged, telemetryFaults>>
ClockIsSetBack ==
  /\ TelemetryFault /\ minute > 1 /\ minute' = minute - 1 /\ setBack' = TRUE
  /\ UNCHANGED <<agentVars, upload, serverVars, compacting, acknowledged>>

----------------------------------------------------------------------------
(* Agent.                                                                  *)

MinutesOf(windows) == {w.minute : w \in windows}
At(windows, m) == {w \in windows : w.minute = m}

\* Advance: a minute that is over is closed and offered to the channel, which may be
\* full; one that lies in the future is discarded.
CloseWindow ==
  /\ sampling /\ open # 0 /\ open # minute
  /\ open' = 0
  /\ channel' = IF open < minute /\ Cardinality(channel) < ChannelLimit
                THEN channel \cup {[minute |-> open, version |-> versions[open]]} ELSE channel
  /\ UNCHANGED <<minute, setBack, sampling, versions, queue, upload, serverVars, compacting, acknowledged, telemetryFaults>>

\* Add: the first reading of a minute opens its window.
OpenWindow ==
  /\ sampling /\ open = 0 /\ versions[minute] < 2
  /\ open' = minute /\ versions' = [versions EXCEPT ![minute] = @ + 1]
  /\ UNCHANGED <<minute, setBack, sampling, channel, queue, upload, serverVars, compacting, acknowledged, telemetryFaults>>

\* Trim: what is too old goes, then the oldest until the queue fits.
Trimmed(windows) ==
  LET young == {w \in windows : w.minute >= minute - MaxWindowAge} IN
  {w \in young : Cardinality({v \in young : v.minute > w.minute}) < QueueLimit}

\* Enqueue: a file for the minute is never overwritten; other content is refused.
\* A write may fail, and the window is dropped.
Persist(w) ==
  /\ w \in channel /\ channel' = channel \ {w}
  /\ \/ queue' = (IF At(queue, w.minute) = {} THEN Trimmed(queue \cup {w}) ELSE queue) /\ NoTelemetryFault
     \/ UNCHANGED queue /\ TelemetryFault
  /\ UNCHANGED <<minute, setBack, sampling, open, versions, upload, serverVars, compacting, acknowledged>>

\* The pipeline stops, to be configured again or with the service: the open minute is
\* lost, the writer drains the channel; a crash loses the channel too.
StopSampling ==
  /\ sampling /\ sampling' = FALSE /\ open' = 0 /\ upload' = Silent
  /\ \/ UNCHANGED channel /\ NoTelemetryFault
     \/ channel' = {} /\ TelemetryFault
  /\ UNCHANGED <<minute, setBack, versions, queue, serverVars, compacting, acknowledged>>
StartSampling ==
  /\ ~sampling /\ channel = {} /\ sampling' = TRUE /\ queue' = Trimmed(queue)
  /\ UNCHANGED <<minute, setBack, open, versions, channel, upload, serverVars, compacting, acknowledged, telemetryFaults>>

\* UploadAsync: the oldest windows; a file that cannot be read is moved to quarantine.
Oldest(windows) == {w \in windows : Cardinality({v \in windows : v.minute < w.minute}) < BatchLimit}
Snapshot ==
  LET kept == Trimmed(queue) IN
  /\ sampling /\ upload.at = "idle" /\ queue # {}
  /\ \/ queue' = kept /\ NoTelemetryFault
     \/ (\E w \in kept : queue' = kept \ {w}) /\ TelemetryFault
  /\ upload' = [batch |-> Oldest(queue'), at |-> IF queue' = {} THEN "idle" ELSE "sent"]
  /\ UNCHANGED <<minute, setBack, sampling, open, versions, channel, serverVars, compacting, acknowledged>>

\* Acknowledge deletes the file of each accepted minute.  Without an answer, or with a
\* refusal, the files stay for the next attempt.
Acknowledge ==
  /\ upload.at = "accepted" /\ upload' = Silent
  /\ queue' = {w \in queue : w.minute \notin MinutesOf(upload.batch)}
  /\ acknowledged' = acknowledged \cup MinutesOf(upload.batch)
  /\ UNCHANGED <<minute, setBack, sampling, open, versions, channel, serverVars, compacting, telemetryFaults>>
UploadFails ==
  /\ upload.at = "refused" \/ (upload.at \in {"sent", "accepted"} /\ telemetryFaults < MaxTelemetryFaults)
  /\ IF upload.at = "refused" THEN NoTelemetryFault ELSE TelemetryFault
  /\ upload' = Silent
  /\ UNCHANGED <<minute, setBack, agentVars, serverVars, compacting, acknowledged>>

----------------------------------------------------------------------------
(* Server.  Every group and every batch runs under the endpoint's lock.    *)

Digests(row) == row.digests
Covers(row, m) == row.start <= m /\ m < row.start + row.minutes
\* Mutant: what was rolled up is not known any more.
KnownSample(w) == w \in samples
\* What a batch meets: a window that is there with the same content is accepted again,
\* with other content it spoils the batch.
Known(w) == w \in samples \/ \E row \in rolled : Covers(row, w.minute) /\ w \in Digests(row)
Conflict(w) ==
  \/ At(samples, w.minute) \ {w} # {}
  \/ /\ At(samples, w.minute) = {}
     /\ \E row \in rolled : Covers(row, w.minute) /\ At(Digests(row), w.minute) \ {w} # {}

\* validate_windows and persist_windows, all or nothing.
PersistWindows ==
  LET batch == upload.batch
      good == \A w \in batch : w.minute >= minute - AcceptedAge /\ ~Conflict(w) IN
  /\ upload.at = "sent"
  /\ upload' = [upload EXCEPT !.at = IF good THEN "accepted" ELSE "refused"]
  /\ samples' = IF good THEN samples \cup {w \in batch : ~Known(w)} ELSE samples
  /\ UNCHANGED <<minute, setBack, agentVars, rolled, compacting, acknowledged, telemetryFaults>>

\* Groups of two minutes, and of four: five minutes and one hour of the code.
Bucket(m, minutes) == ((m - 1) \div minutes) * minutes + 1
Plain(w) == [start |-> w.minute, minutes |-> 1, digests |-> {w}, counted |-> {w.minute}, twice |-> {}]
Rows == {Plain(w) : w \in samples} \cup rolled

\* compact_history: the candidates are listed without a lock.
FindOldRows(k) ==
  /\ compacting[k] = {}
  /\ \E group \in {1, 2} : compacting' = [compacting EXCEPT ![k] =
       {[minutes |-> row.minutes, start |-> row.start] :
          row \in {r \in Rows : r.minutes = group /\ r.start < minute - Retention * group}}]
  /\ compacting' # compacting
  /\ UNCHANGED <<minute, setBack, agentVars, upload, serverVars, acknowledged, telemetryFaults>>

\* One group: the rows that are still there are merged with the coarser row.  Counts are
\* added; all that matters of a sum is whether it exceeds one.
Merge(rows, start, minutes) ==
  [start |-> start, minutes |-> minutes,
   digests |-> UNION {row.digests : row \in rows},
   counted |-> UNION {row.counted : row \in rows},
   twice |-> UNION {row.twice : row \in rows}
             \cup {m \in Minute : \E a, b \in rows : a # b /\ m \in a.counted \cap b.counted}]
CompactGroup(k) ==
  \E id \in compacting[k] :
    LET minutes == id.minutes * 2
        start == Bucket(id.start, minutes)
        group == {i \in compacting[k] : Bucket(i.start, minutes) = start}
        sources == {row \in Rows : \E i \in group : row.start = i.start /\ row.minutes = i.minutes}
        target == {row \in rolled : row.start = start /\ row.minutes = minutes} IN
    /\ compacting' = [compacting EXCEPT ![k] = @ \ group]
    /\ samples' = {w \in samples : Plain(w) \notin sources}
    /\ rolled' = (rolled \ (sources \cup target)) \cup {Merge(sources \cup target, start, minutes)}
    /\ UNCHANGED <<minute, setBack, agentVars, upload, acknowledged, telemetryFaults>>

TelemetryNext ==
  \/ ClockTicks \/ ClockIsSetBack
  \/ CloseWindow \/ OpenWindow \/ (\E w \in channel : Persist(w))
  \/ StopSampling \/ StartSampling \/ Snapshot \/ Acknowledge \/ UploadFails
  \/ PersistWindows
  \/ \E k \in Compactor : FindOldRows(k) \/ CompactGroup(k)

TelemetryFairness ==
  /\ WF_telemetryVars(\E w \in channel : Persist(w)) /\ WF_telemetryVars(StartSampling)
  /\ SF_telemetryVars(Snapshot) /\ SF_telemetryVars(PersistWindows) /\ SF_telemetryVars(Acknowledge)

TelemetrySpec == TelemetryInit /\ [][TelemetryNext]_telemetryVars /\ TelemetryFairness

----------------------------------------------------------------------------
(* Properties.                                                             *)

Windows == [minute : Minute, version : 1..2]
TelemetryTypeOK ==
  /\ minute \in Minute /\ setBack \in BOOLEAN /\ sampling \in BOOLEAN /\ open \in {0} \cup Minute
  /\ channel \subseteq Windows /\ Cardinality(channel) <= ChannelLimit
  /\ queue \subseteq Windows /\ Cardinality(queue) <= QueueLimit
  /\ upload.at \in {"idle", "sent", "accepted", "refused"} /\ Cardinality(upload.batch) <= BatchLimit
  /\ samples \subseteq Windows /\ acknowledged \subseteq Minute
  /\ \A row \in rolled : row.minutes \in {2, 4} /\ row.digests \subseteq Windows

\* However often a window is sent, merged or sent after it was merged, its minute is
\* counted once, and a row that counts it can recognise it.
CountedOnce ==
  /\ \A row \in Rows : row.twice = {} /\ row.counted = MinutesOf(row.digests)
  /\ \A a, b \in Rows : a # b => a.counted \cap b.counted = {}
\* What the agent deleted as accepted is on the server, in a row or inside one.
AcknowledgedIsStored == \A m \in acknowledged : \E row \in Rows : m \in row.counted
\* Evidence of a minute is neither lost nor counted twice between agent and server.
MinutesAreKept == CountedOnce /\ AcknowledgedIsStored

\* As long as the clock is not set back, a window that is on disk leaves it: uploads that
\* fail are repeated until the server has it.
UploadOpen(m) == m \in MinutesOf(queue) /\ ~setBack
UploadsDrain == \A m \in Minute : []<>~UploadOpen(m)
=============================================================================
