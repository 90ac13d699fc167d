---------------------------- MODULE WorkProofs -----------------------------
(*****************************************************************************)
(* What an operator ordered happens once and under guard: a remote          *)
(* installation is reported as it was proved, a terminal runs for its own   *)
(* session after consent, and a calendar fills each slot once; for any      *)
(* number of computers, batches, sessions, connections, definitions,        *)
(* schedulers and faults.                                                   *)
(*                                                                           *)
(* An installation is told by four things that change at different times:   *)
(* the row, the process that works on it, the token, and what the script    *)
(* has done. RowSound relates them for one row; BatchSound says of a batch  *)
(* what its process, its items and their rows may be to one another.        *)
(*                                                                           *)
(* The strengthening for terminals follows the word "used" from the row,    *)
(* where a ticket is spent under a lock, to everything that was let in on   *)
(* its account: the connection, the peers of the link, the message that     *)
(* tells the agent to begin, and the process.                               *)
(*                                                                           *)
(* A definition names its next slot; what is in order about it is that      *)
(* every slot between what is still to come and what has an occurrence was  *)
(* filled on every endpoint.                                                *)
(*****************************************************************************)
EXTENDS MCComponents, FiniteSetTheorems, WellFoundedInduction, TLAPS

(* Remote installation.                                                     *)

\* The instances have their own copies of the operator of FiniteSets.
LEMMA SameCardinality ==
  \A S : /\ Inst!Cardinality(S) = Cardinality(S)
         /\ Term!Cardinality(S) = Cardinality(S)
         /\ Cal!Cardinality(S) = Cardinality(S)
BY DEF Inst!Cardinality, Term!Cardinality, Cal!Cardinality, Cardinality

Statuses == {"none"} \cup Inst!Open \cup Inst!Ended
Pcs == Inst!Working \cup {"none", "asked", "made", "over", "dead"}
Tokens == Inst!Usable \cup {"none", "completed", "failed"}
Scripts == {"none", "sent", "running", "done", "bad", "present", "refused"}
Early == {"none", "asked", "made", "start", "prepare"}
Alive == {"next", "check", "admit", "launch", "reflect"}
Progressed == {"INSTALLING"} \cup Inst!ItemEnded
ItemStates == {"none", "WAITING", "PREFLIGHT", "INSTALLING"} \cup Inst!ItemEnded
BatchRec == [status : {"none", "QUEUED", "RUNNING"} \cup Inst!BatchEnded, slot : BOOLEAN,
             at : Target \cup {NoTarget},
             runner : {"none", "made", "start", "over", "dead"} \cup Alive]
USE DEF Inst!Open, Inst!Ended, Inst!Blocking, Inst!ItemEnded, Inst!BatchEnded, Inst!Usable, Inst!Working, Statuses, Pcs, Tokens, Scripts,
        Early, Alive, Progressed, ItemStates

\* A record with the fields of a row.
IsRow(j) ==
  /\ DOMAIN j = {"status", "slot", "safe", "invoked", "began", "late", "nr"}
  /\ j.status \in Statuses /\ j.slot \in BOOLEAN /\ j.safe \in BOOLEAN /\ j.invoked \in BOOLEAN
  /\ j.began \in BOOLEAN /\ j.late \in BOOLEAN
RowSound(r, j, pc, k, s, m) ==
  /\ IsRow(j) /\ pc \in Pcs /\ k \in Tokens /\ s \in Scripts
  /\ j.slot => j.status \in Inst!Open \cup {"OUTCOME_UNKNOWN"}
  /\ pc \in Early => k = "none"
  /\ pc \in Early \cup {"intend", "send"} => s = "none"
  /\ pc = "send" => j.invoked
  /\ s \in {"sent", "running", "done", "bad"} => j.invoked
  /\ s = "present" => j.invoked \/ ~j.safe
  /\ j.status = "COMPLETED" => m = r /\ k = "completed"
  /\ pc = "over" => k \notin Inst!Usable

SlotKept == {"RUNNING", "OUTCOME_UNKNOWN"}
LEMMA UpdatedRow == ASSUME NEW j, IsRow(j), NEW st \in Statuses
  PROVE LET n == Inst!Updated(j, st) IN
   /\ IsRow(n) /\ n.status = st /\ n.safe = j.safe
   /\ n.invoked = j.invoked /\ n.began = j.began /\ n.late = j.late
BY DEF IsRow, Inst!Updated
LEMMA UpdatedSlot == ASSUME NEW j, IsRow(j), NEW st \in Statuses \ SlotKept
  PROVE Inst!Updated(j, st).slot = FALSE
<1>1. (st \in SlotKept) = FALSE OBVIOUS
<1> QED BY <1>1 DEF IsRow, Inst!Updated, SlotKept
LEMMA AbandonedRow == ASSUME NEW j, IsRow(j)
  PROVE LET n == Inst!Abandoned(j) IN
   /\ IsRow(n) /\ n.status \in {"INTERRUPTED", "OUTCOME_UNKNOWN"} /\ ~n.slot /\ (n.safe => j.safe)
   /\ n.invoked = j.invoked /\ n.began = j.began /\ n.late = j.late
BY DEF IsRow, Inst!Abandoned, Inst!JobIsRetrySafe
Grid(f) == DOMAIN f = Inst!Row /\ \A r \in Inst!Row : DOMAIN f[r] = Target
Put(f, g, r, t, v) ==
  /\ Grid(g) /\ g[r][t] = v
  /\ \A x \in Inst!Row, u \in Target : x # r \/ u # t => g[x][u] = f[x][u]
LEMMA PutIs == ASSUME NEW f, Grid(f), NEW r \in Inst!Row, NEW t \in Target, NEW v
  PROVE Put(f, [f EXCEPT ![r][t] = v], r, t, v)
BY DEF Grid, Put
BatchSound(b, x, i, j, p) ==
  /\ x.status = "none" => \A t \in Target : i[t] = "none"
  /\ x.runner \in {"made", "start"} => x.status = "QUEUED" /\ x.slot
  /\ x.runner \in Alive => x.status = "RUNNING" /\ x.slot
  /\ x.slot => x.status \in {"QUEUED", "RUNNING"}
  /\ x.runner \in {"check", "admit"} => x.at \in Target /\ i[x.at] = "PREFLIGHT"
  /\ x.runner \in {"launch", "reflect"} => x.at \in Target /\ i[x.at] \in Progressed
  /\ x.runner = "launch" => p[x.at] = "none"
  /\ x.runner # "dead" =>
       \A t \in Target : i[t] \in {"PREFLIGHT", "INSTALLING"} => x.runner \in Alive \ {"next"} /\ t = x.at
  /\ \A t \in Target : p[t] # "none" => i[t] \in Progressed
  /\ \A t \in Target : i[t] = "COMPLETED" => j[t].status = "COMPLETED"
  /\ x.status \in Inst!BatchEnded => \A t \in Target : i[t] \in Inst!ItemEnded \cup {"none"}
  /\ x.status = "COMPLETED" => \A t \in Target : i[t] \in {"COMPLETED", "none"}
Types ==
  /\ Grid(job) /\ Grid(install) /\ Grid(token) /\ Grid(script)
  /\ batch \in [Batch -> BatchRec] /\ item \in [Batch -> [Target -> ItemStates]]
  /\ stalled \subseteq Inst!Row \X Target /\ agent \subseteq Target
  /\ managed \in [Target -> Inst!Row \cup {NoBatch}]
  /\ installFaults \in 0..MaxInstallFaults
RowsSound == \A r \in Inst!Row, t \in Target :
  RowSound(r, job[r][t], install[r][t], token[r][t], script[r][t], managed[t])
BatchesSound == \A b \in Batch : BatchSound(b, batch[b], item[b], job[b], install[b])
InstallInv == Types /\ RowsSound /\ BatchesSound

\* One row moves, by its own process or on its computer.
Moved(r, t) ==
  /\ Grid(job') /\ Grid(install') /\ Grid(token') /\ Grid(script')
  /\ RowSound(r, job'[r][t], install'[r][t], token'[r][t], script'[r][t], managed'[t])
  /\ job[r][t].status = "COMPLETED" => job'[r][t].status = "COMPLETED"
  /\ \A x \in Inst!Row, u \in Target : x # r \/ u # t =>
       /\ job'[x][u] = job[x][u] /\ install'[x][u] = install[x][u]
       /\ token'[x][u] = token[x][u] /\ script'[x][u] = script[x][u]
LEMMA Rows == ASSUME InstallInv, NEW r \in Inst!Row, NEW t \in Target, Moved(r, t), managed' = managed
  PROVE RowsSound'
<1>1. \A x \in Inst!Row, u \in Target : x # r \/ u # t =>
        RowSound(x, job'[x][u], install'[x][u], token'[x][u], script'[x][u], managed'[u])
  BY DEF InstallInv, RowsSound, Moved
<1>2. RowSound(r, job'[r][t], install'[r][t], token'[r][t], script'[r][t], managed'[t])
  BY DEF Moved
<1> QED BY <1>1, <1>2 DEF RowsSound
\* What the batches see of it.
LEMMA Batches == ASSUME InstallInv, UNCHANGED <<batch, item>>,
    \A b \in Batch, t \in Target :
      /\ install[b][t] = "none" <=> install'[b][t] = "none"
      /\ job[b][t].status = "COMPLETED" => job'[b][t].status = "COMPLETED"
  PROVE BatchesSound'
<1> SUFFICES ASSUME NEW b \in Batch PROVE BatchSound(b, batch[b], item[b], job[b], install[b])'
  BY DEF BatchesSound
<1>1. BatchSound(b, batch[b], item[b], job[b], install[b]) BY DEF InstallInv, BatchesSound
<1>2. batch[b].runner = "launch" => batch[b].at \in Target BY <1>1 DEF BatchSound
<1> QED BY <1>1, <1>2 DEF BatchSound
LEMMA ProcessMoved == ASSUME InstallInv, NEW r \in Inst!Row, NEW t \in Target, Moved(r, t),
    batch' = batch, item' = item, stalled' = stalled, managed' = managed, installFaults' = installFaults, agent' \subseteq Target,
    install[r][t] = "none" <=> install'[r][t] = "none"
  PROVE InstallInv'
<1>0. Batch \subseteq Inst!Row BY DEF Inst!Row
<1>1. RowsSound' BY Rows
<1>2. BatchesSound'
  <2>2. ASSUME NEW b \in Batch, NEW u \in Target
        PROVE /\ install[b][u] = "none" <=> install'[b][u] = "none"
              /\ job[b][u].status = "COMPLETED" => job'[b][u].status = "COMPLETED"
    BY <1>0 DEF Moved
  <2> QED BY <2>2, Batches
<1>3. Types' BY DEF InstallInv, Types, Moved
<1> QED BY <1>1, <1>2, <1>3 DEF InstallInv
LEMMA Frame == ASSUME InstallInv, UNCHANGED installV PROVE InstallInv'
BY DEF InstallInv, Types, RowsSound, BatchesSound, installV, Inst!targetVars, Inst!batchVars, Grid
\* A write of the process.
LEMMA WritesRow == ASSUME InstallInv, NEW r \in Inst!Row, NEW t \in Target, NEW new, NEW pc, Inst!Writes(r, t, new, pc)
  PROVE \/ job[r][t].slot /\ Put(job, job', r, t, new) /\ Put(install, install', r, t, pc)
        \/ ~job[r][t].slot /\ Put(job, job', r, t, job[r][t]) /\ Put(install, install', r, t, "finally")
<1>1. Grid(job) /\ Grid(install) BY DEF InstallInv, Types
<1>2. Put(job, job, r, t, job[r][t]) BY <1>1 DEF Put
<1>3. CASE job[r][t].slot BY <1>1, <1>3, PutIs DEF Inst!Writes, Inst!Keeps, Inst!Goes
<1>4. CASE ~job[r][t].slot BY <1>1, <1>2, <1>4, PutIs DEF Inst!Writes, Inst!Keeps, Inst!Goes
<1> QED BY <1>3, <1>4
Failed(j, status, safe, invoked) == [Inst!Updated(j, status) EXCEPT !.safe = safe, !.invoked = invoked]
LEMMA FailedRow == ASSUME NEW j, IsRow(j), NEW st \in Statuses, NEW safe \in BOOLEAN, NEW inv \in BOOLEAN
  PROVE LET n == Failed(j, st, safe, inv) IN
   /\ IsRow(n) /\ n.status = st /\ n.safe = safe /\ n.invoked = inv
<1>1. IsRow(Inst!Updated(j, st)) /\ Inst!Updated(j, st).status = st BY UpdatedRow
<1> QED BY <1>1 DEF IsRow, Failed
LEMMA FailedSlot == ASSUME NEW j, IsRow(j), NEW st \in Statuses \ SlotKept, NEW safe \in BOOLEAN, NEW inv \in BOOLEAN
  PROVE Failed(j, st, safe, inv).slot = FALSE
<1>1. IsRow(Inst!Updated(j, st)) /\ Inst!Updated(j, st).slot = FALSE BY UpdatedRow, UpdatedSlot
<1> QED BY <1>1 DEF IsRow, Failed
LEMMA FailsRow == ASSUME InstallInv, NEW r \in Inst!Row, NEW t \in Target, NEW st, NEW safe, NEW inv, Inst!Fails(r, t, st, safe, inv)
  PROVE /\ Put(install, install', r, t, "finally")
        /\ \/ job[r][t].slot /\ Put(job, job', r, t, Failed(job[r][t], st, safe, inv))
           \/ ~job[r][t].slot /\ Put(job, job', r, t, job[r][t])
<1>1. Grid(job) /\ Grid(install) BY DEF InstallInv, Types
<1> DEFINE v == IF ~job[r][t].slot THEN job[r][t] ELSE Failed(job[r][t], st, safe, inv)
<1>2. job' = [job EXCEPT ![r][t] = v] BY DEF Inst!Fails, Inst!Keeps, Failed
<1>3. Put(install, install', r, t, "finally") BY <1>1, PutIs DEF Inst!Fails, Inst!Goes
<1>4. Put(job, job', r, t, v) 
  <2> HIDE DEF v
  <2> QED BY <1>1, <1>2, PutIs
<1> QED BY <1>3, <1>4
LEMMA OnePut == ASSUME InstallInv, NEW r \in Inst!Row, NEW t \in Target, NEW nj, NEW pc, NEW k, NEW s,
   Put(job, job', r, t, nj), Put(install, install', r, t, pc), Put(token, token', r, t, k), Put(script, script', r, t, s),
   RowSound(r, nj, pc, k, s, managed'[t]), job[r][t].status = "COMPLETED" => nj.status = "COMPLETED"
  PROVE Moved(r, t)
BY DEF Moved, Put
LEMMA Same == ASSUME InstallInv, NEW r \in Inst!Row, NEW t \in Target
  PROVE /\ Put(job, job, r, t, job[r][t]) /\ Put(install, install, r, t, install[r][t])
        /\ Put(token, token, r, t, token[r][t]) /\ Put(script, script, r, t, script[r][t])
BY DEF InstallInv, Types, Put
LEMMA RowOf == ASSUME InstallInv, NEW r \in Inst!Row, NEW t \in Target
  PROVE RowSound(r, job[r][t], install[r][t], token[r][t], script[r][t], managed[t])
BY DEF InstallInv, RowsSound
\* A failing handler keeps the row sound, unless it claims what is not so.
LEMMA FailsMoved == ASSUME InstallInv, NEW r \in Inst!Row, NEW t \in Target, NEW st, NEW safe, NEW inv, Inst!Fails(r, t, st, safe, inv),
    UNCHANGED <<token, managed>>, st \in Inst!Ended \ {"COMPLETED"}, safe \in BOOLEAN, inv \in BOOLEAN,
    NEW s \in Scripts, Put(script, script', r, t, s), 
    job[r][t].slot \/ s = script[r][t],
    job[r][t].slot /\ s \in {"sent", "running", "done", "bad"} => inv = TRUE,
    job[r][t].slot /\ s = "present" => inv = TRUE \/ safe = FALSE
  PROVE Moved(r, t)
<1> DEFINE j == job[r][t]
           f == Failed(j, st, safe, inv)
<1>1. RowSound(r, j, install[r][t], token[r][t], script[r][t], managed[t]) BY RowOf
<1>2. IsRow(j) BY <1>1 DEF RowSound
<1>0. st \in Statuses OBVIOUS
<1>3. IsRow(f) /\ f.status = st /\ f.safe = safe /\ f.invoked = inv
  <2> HIDE DEF j
  <2>1. safe \in BOOLEAN /\ inv \in BOOLEAN OBVIOUS
  <2> QED BY ONLY <1>0, <1>2, <2>1, FailedRow
<1>7. st # "OUTCOME_UNKNOWN" => f.slot = FALSE
  <2> HIDE DEF j
  <2> QED BY <1>0, <1>2, FailedSlot DEF SlotKept
<1>4. Put(install, install', r, t, "finally") /\ Put(token, token', r, t, token[r][t]) BY FailsRow, Same
<1>5. CASE j.slot
  <2>1. Put(job, job', r, t, f) BY <1>5, FailsRow
  <2>2. RowSound(r, f, "finally", token[r][t], s, managed'[t]) 
    <3>1. s \in {"sent", "running", "done", "bad"} => inv = TRUE BY <1>5
    <3>2. s = "present" => inv = TRUE \/ safe = FALSE BY <1>5
    <3> HIDE DEF f, j
    <3> QED BY <1>1, <1>3, <1>7, <3>1, <3>2 DEF RowSound
  <2>3. j.status # "COMPLETED" BY <1>1, <1>5 DEF RowSound
  <2> QED BY <1>4, <2>1, <2>2, <2>3, OnePut
<1>6. CASE ~j.slot
  <2>1. Put(job, job', r, t, j) BY <1>6, FailsRow
  <2>2. RowSound(r, j, "finally", token[r][t], s, managed'[t]) 
    <3>1. s = script[r][t] BY <1>6
    <3> HIDE DEF j
    <3> QED BY <1>1, <3>1 DEF RowSound
  <2> QED BY <1>4, <2>1, <2>2, OnePut
<1> QED BY <1>5, <1>6
\* A write with the slot.
LEMMA WritesMoved == ASSUME InstallInv, NEW r \in Inst!Row, NEW t \in Target, NEW new, NEW pc, Inst!Writes(r, t, new, pc),
    managed' = managed, NEW k, NEW s, 
    Put(token, token', r, t, IF job[r][t].slot THEN k ELSE token[r][t]),
    Put(script, script', r, t, IF job[r][t].slot THEN s ELSE script[r][t]),
    job[r][t].slot => RowSound(r, new, pc, k, s, managed[t])
  PROVE Moved(r, t)
<1>1. RowSound(r, job[r][t], install[r][t], token[r][t], script[r][t], managed[t]) BY RowOf
<1>2. CASE job[r][t].slot
  <2>1. Put(job, job', r, t, new) /\ Put(install, install', r, t, pc) BY <1>2, WritesRow
  <2>2. job[r][t].status # "COMPLETED" BY <1>1, <1>2 DEF RowSound
  <2> QED BY <1>2, <2>1, <2>2, OnePut
<1>3. CASE ~job[r][t].slot
  <2>1. Put(job, job', r, t, job[r][t]) /\ Put(install, install', r, t, "finally") BY <1>3, WritesRow
  <2>2. RowSound(r, job[r][t], "finally", token[r][t], script[r][t], managed[t]) BY <1>1 DEF RowSound
  <2> QED BY <1>3, <2>1, <2>2, OnePut
<1> QED BY <1>2, <1>3
\* Without another effect.
LEMMA WritesOnly == ASSUME InstallInv, NEW r \in Inst!Row, NEW t \in Target, NEW new, NEW pc, Inst!Writes(r, t, new, pc),
    UNCHANGED <<managed, token, script>>,
    job[r][t].slot => RowSound(r, new, pc, token[r][t], script[r][t], managed[t])
  PROVE Moved(r, t)
BY WritesMoved, Same
LEMMA FailsOnly == ASSUME InstallInv, NEW r \in Inst!Row, NEW t \in Target, NEW st, NEW safe, NEW inv, Inst!Fails(r, t, st, safe, inv),
    UNCHANGED <<managed, token, script>>, st \in Inst!Ended \ {"COMPLETED"}, safe \in BOOLEAN, inv \in BOOLEAN,
    script[r][t] \in {"sent", "running", "done", "bad"} => inv = TRUE, script[r][t] = "present" => inv = TRUE \/ safe = FALSE
  PROVE Moved(r, t)
<1>1. script[r][t] \in Scripts BY RowOf DEF RowSound
<1> QED BY <1>1, FailsMoved, Same
LEMMA Gone == ASSUME InstallInv, NEW r \in Inst!Row, NEW t \in Target, NEW pc, install[r][t] = pc, pc # "none",
    Moved(r, t), NEW q, q # "none", Put(install, install', r, t, q), Inst!InProcess
  PROVE InstallInv'
<1>1. install'[r][t] = q BY DEF Put
<1>2. UNCHANGED <<batch, item, stalled, managed, installFaults, agent>> /\ agent \subseteq Target
  BY DEF Inst!InProcess, Inst!batchVars, InstallInv, Types
<1> QED BY <1>1, <1>2, ProcessMoved
\* The end of a step of the process: it wrote, or one of its handlers did.
LEMMA Wrote == ASSUME InstallInv, NEW r \in Inst!Row, NEW t \in Target, NEW new, NEW pc, pc # "none", install[r][t] # "none",
    Inst!Writes(r, t, new, pc), Moved(r, t), Inst!InProcess
  PROVE InstallInv'
BY WritesRow, Gone
LEMMA Gave == ASSUME InstallInv, NEW r \in Inst!Row, NEW t \in Target, NEW st, NEW safe, NEW inv, install[r][t] # "none",
    Inst!Fails(r, t, st, safe, inv), Moved(r, t), Inst!InProcess
  PROVE InstallInv'
BY FailsRow, Gone
LEMMA ValidateStep == ASSUME InstallInv, NEW r \in Inst!Row, NEW t \in Target, Inst!Validate(r, t) PROVE InstallInv'
<1> DEFINE j == job[r][t]
           u == Inst!Updated(j, "RUNNING")
<1>1. RowSound(r, j, install[r][t], token[r][t], script[r][t], managed[t]) BY RowOf
<1>2. install[r][t] = "start" /\ UNCHANGED <<managed, token, script>> /\ Inst!InProcess BY DEF Inst!Validate, Inst!At, Inst!InProcess
<1>3. IsRow(u) /\ u.status = "RUNNING" /\ u.invoked = j.invoked BY <1>1, UpdatedRow DEF RowSound
<1>4. RowSound(r, u, "prepare", token[r][t], script[r][t], managed[t]) 
  <2> HIDE DEF u, j
  <2> QED BY <1>1, <1>2, <1>3 DEF RowSound
<1>5. script[r][t] = "none" BY <1>1, <1>2 DEF RowSound
<1>6. CASE Inst!Writes(r, t, u, "prepare") BY <1>2, <1>4, <1>6, WritesOnly, Wrote
<1>7. ASSUME NEW st \in {"FAILED", "INTERRUPTED"}, NEW safe \in BOOLEAN, Inst!Fails(r, t, st, safe, FALSE) PROVE InstallInv'
  <2>1. Moved(r, t) BY <1>2, <1>5, <1>7, FailsOnly
  <2> QED BY <1>2, <1>7, <2>1, Gave
<1> QED BY <1>6, <1>7 DEF Inst!Validate
LEMMA PrepareStep == ASSUME InstallInv, NEW r \in Inst!Row, NEW t \in Target, Inst!PrepareDeployment(r, t) PROVE InstallInv'
<1> DEFINE j == job[r][t]
           u == Inst!Updated(j, "RUNNING")
<1>1. RowSound(r, j, install[r][t], token[r][t], script[r][t], managed[t]) BY RowOf
<1>2. install[r][t] = "prepare" /\ UNCHANGED <<managed, script>> /\ Inst!InProcess BY DEF Inst!PrepareDeployment, Inst!At, Inst!InProcess
<1>3. IsRow(u) /\ u.status = "RUNNING" /\ u.invoked = j.invoked BY <1>1, UpdatedRow DEF RowSound
<1>4. RowSound(r, u, "intend", "waiting", script[r][t], managed[t]) 
  <2> HIDE DEF u, j
  <2> QED BY <1>1, <1>2, <1>3 DEF RowSound
<1>5. script[r][t] = "none" BY <1>1, <1>2 DEF RowSound
<1>6. CASE Inst!Writes(r, t, u, "intend") /\ token' = [token EXCEPT ![r][t] = IF job[r][t].slot THEN "waiting" ELSE @]
  <2>1. Put(token, token', r, t, IF job[r][t].slot THEN "waiting" ELSE token[r][t])
    BY <1>6, PutIs DEF InstallInv, Types
  <2>2. Put(script, script', r, t, IF job[r][t].slot THEN script[r][t] ELSE script[r][t])
    BY <1>2, Same
  <2>3. Moved(r, t) BY <1>2, <1>4, <1>6, <2>1, <2>2, WritesMoved
  <2> QED BY <1>2, <1>6, <2>3, Wrote
<1>7. CASE Inst!Fails(r, t, "FAILED", TRUE, FALSE) /\ UNCHANGED token
  <2>1. Moved(r, t) BY <1>2, <1>5, <1>7, FailsOnly
  <2> QED BY <1>2, <1>7, <2>1, Gave
<1> QED BY <1>6, <1>7 DEF Inst!PrepareDeployment
LEMMA IntendStep == ASSUME InstallInv, NEW r \in Inst!Row, NEW t \in Target, Inst!Intend(r, t) PROVE InstallInv'
<1> DEFINE j == job[r][t]
           u == Inst!Updated(j, "RUNNING")
           n == [u EXCEPT !.invoked = TRUE, !.safe = FALSE]
<1>1. RowSound(r, j, install[r][t], token[r][t], script[r][t], managed[t]) BY RowOf
<1>2. install[r][t] = "intend" /\ UNCHANGED <<managed, token, script>> /\ Inst!InProcess BY DEF Inst!Intend, Inst!At, Inst!InProcess
<1>3. IsRow(u) /\ u.status = "RUNNING" /\ u.invoked = j.invoked BY <1>1, UpdatedRow DEF RowSound
<1>4. IsRow(n) /\ n.status = "RUNNING" /\ n.invoked = TRUE 
  <2> HIDE DEF u
  <2> QED BY <1>3 DEF IsRow
<1>5. RowSound(r, n, "send", token[r][t], script[r][t], managed[t]) 
  <2> HIDE DEF n, j
  <2> QED BY <1>1, <1>2, <1>4 DEF RowSound
<1>6. Inst!Writes(r, t, n, "send") BY DEF Inst!Intend
<1> QED BY <1>2, <1>5, <1>6, WritesOnly, Wrote
LEMMA SendStep == ASSUME InstallInv, NEW r \in Inst!Row, NEW t \in Target, Inst!Send(r, t) PROVE InstallInv'
<1> DEFINE j == job[r][t]
           u == Inst!Updated(j, "RUNNING")
<1>1. RowSound(r, j, install[r][t], token[r][t], script[r][t], managed[t]) BY RowOf
<1>2. install[r][t] = "send" /\ UNCHANGED <<managed, token>> /\ Inst!InProcess BY DEF Inst!Send, Inst!At, Inst!InProcess
<1>3. IsRow(u) /\ u.status = "RUNNING" /\ u.invoked = j.invoked BY <1>1, UpdatedRow DEF RowSound
<1>4. RowSound(r, u, "watch", token[r][t], "sent", managed[t]) 
  <2> HIDE DEF u, j
  <2> QED BY <1>1, <1>2, <1>3 DEF RowSound
<1>5. script[r][t] = "none" BY <1>1, <1>2 DEF RowSound
<1>6. CASE Inst!Writes(r, t, u, "watch") /\ script' = [script EXCEPT ![r][t] = IF job[r][t].slot THEN "sent" ELSE @]
  <2>1. Put(script, script', r, t, IF job[r][t].slot THEN "sent" ELSE script[r][t])
    BY <1>6, PutIs DEF InstallInv, Types
  <2>2. Put(token, token', r, t, IF job[r][t].slot THEN token[r][t] ELSE token[r][t])
    BY <1>2, Same
  <2>3. Moved(r, t) BY <1>2, <1>4, <1>6, <2>1, <2>2, WritesMoved
  <2> QED BY <1>2, <1>6, <2>3, Wrote
<1>7. CASE Inst!Fails(r, t, "FAILED", TRUE, FALSE) /\ UNCHANGED script
  <2>1. Moved(r, t) BY <1>2, <1>5, <1>7, FailsOnly
  <2> QED BY <1>2, <1>7, <2>1, Gave
<1>8. CASE /\ job[r][t].slot /\ Inst!Fails(r, t, "OUTCOME_UNKNOWN", FALSE, TRUE)
           /\ script' \in {script, [script EXCEPT ![r][t] = "sent"]}
  <2>1. ASSUME NEW s \in Scripts, Put(script, script', r, t, s) PROVE InstallInv'
    <3>1. Moved(r, t) BY <1>2, <1>8, <2>1, FailsMoved
    <3> QED BY <1>2, <1>8, <3>1, Gave
  <2>2. CASE script' = script BY <1>5, <2>1, <2>2, Same
  <2>3. CASE script' = [script EXCEPT ![r][t] = "sent"]
    <3>1. Put(script, script', r, t, "sent") BY <2>3, PutIs DEF InstallInv, Types
    <3> QED BY <2>1, <3>1
  <2> QED BY <1>8, <2>2, <2>3
<1> QED BY <1>6, <1>7, <1>8 DEF Inst!Send
LEMMA WatchStep == ASSUME InstallInv, NEW r \in Inst!Row, NEW t \in Target, Inst!WatchScript(r, t) PROVE InstallInv'
<1> DEFINE j == job[r][t]
           u == Inst!Updated(j, "RUNNING")
           n == [u EXCEPT !.began = TRUE, !.safe = FALSE]
           s == script[r][t]
<1>1. RowSound(r, j, install[r][t], token[r][t], s, managed[t]) BY RowOf
<1>2. install[r][t] = "watch" /\ UNCHANGED <<managed, token, script>> /\ Inst!InProcess BY DEF Inst!WatchScript, Inst!At, Inst!InProcess
<1>3. IsRow(u) /\ u.status = "RUNNING" /\ u.invoked = j.invoked /\ u.safe = j.safe BY <1>1, UpdatedRow DEF RowSound
<1>4. IsRow(n) /\ n.status = "RUNNING" /\ n.invoked = u.invoked /\ n.safe = FALSE
  <2> HIDE DEF u
  <2> QED BY <1>3 DEF IsRow
<1>5. RowSound(r, n, "watch", token[r][t], s, managed[t]) /\ RowSound(r, u, "enroll", token[r][t], s, managed[t])
  <2>1. n.invoked = j.invoked BY <1>3, <1>4
  <2> HIDE DEF n, u, j, s
  <2> QED BY <1>1, <1>2, <1>3, <1>4, <2>1 DEF RowSound
<1>6. ASSUME NEW new \in {n, u}, NEW pc \in {"watch", "enroll"}, Inst!Writes(r, t, new, pc),
             RowSound(r, new, pc, token[r][t], s, managed[t])
      PROVE  InstallInv'
  BY <1>2, <1>6, WritesOnly, Wrote
<1>7. ASSUME NEW st \in {"INSTALLED_UNVERIFIED", "OUTCOME_UNKNOWN"}, Inst!Fails(r, t, st, FALSE, TRUE) PROVE InstallInv'
  <2>1. Moved(r, t) BY <1>2, <1>7, FailsOnly
  <2> QED BY <1>2, <1>7, <2>1, Gave
<1>8. CASE s = "present" /\ Inst!Fails(r, t, "FAILED", FALSE, FALSE)
  <2>1. Moved(r, t) BY <1>2, <1>8, FailsOnly
  <2> QED BY <1>2, <1>8, <2>1, Gave
<1>9. CASE s = "refused" /\ Inst!Fails(r, t, "FAILED", TRUE, FALSE)
  <2>1. Moved(r, t) BY <1>2, <1>9, FailsOnly
  <2> QED BY <1>2, <1>9, <2>1, Gave
<1>10. \/ Inst!Writes(r, t, n, "watch") \/ Inst!Writes(r, t, u, "enroll")
       \/ Inst!Fails(r, t, "INSTALLED_UNVERIFIED", FALSE, TRUE) \/ Inst!Fails(r, t, "OUTCOME_UNKNOWN", FALSE, TRUE)
       \/ s = "present" /\ Inst!Fails(r, t, "FAILED", s = "refused", FALSE)
       \/ s = "refused" /\ Inst!Fails(r, t, "FAILED", s = "refused", FALSE)
  BY DEF Inst!WatchScript
<1>11. s = "present" => (s = "refused") = FALSE OBVIOUS
<1>12. s = "refused" => (s = "refused") = TRUE OBVIOUS
<1> HIDE DEF n, u, s
<1> QED BY <1>5, <1>6, <1>7, <1>8, <1>9, <1>10, <1>11, <1>12
LEMMA EnrollmentStep == ASSUME InstallInv, NEW r \in Inst!Row, NEW t \in Target, Inst!AwaitEnrollment(r, t) PROVE InstallInv'
<1> DEFINE j == job[r][t]
           u == Inst!Updated(j, "RUNNING")
<1>1. RowSound(r, j, install[r][t], token[r][t], script[r][t], managed[t]) BY RowOf
<1>2. install[r][t] = "enroll" /\ UNCHANGED <<managed, token, script>> /\ Inst!InProcess BY DEF Inst!AwaitEnrollment, Inst!At, Inst!InProcess
<1>3. IsRow(u) /\ u.status = "RUNNING" /\ u.invoked = j.invoked /\ u.safe = j.safe BY <1>1, UpdatedRow DEF RowSound
<1>4. RowSound(r, u, "beat", token[r][t], script[r][t], managed[t]) 
  <2> HIDE DEF u, j
  <2> QED BY <1>1, <1>2, <1>3 DEF RowSound
<1>6. CASE Inst!Writes(r, t, u, "beat") BY <1>2, <1>4, <1>6, WritesOnly, Wrote
<1>7. CASE Inst!Fails(r, t, "INSTALLED_UNVERIFIED", FALSE, TRUE)
  <2>1. Moved(r, t) BY <1>2, <1>7, FailsOnly
  <2> QED BY <1>2, <1>7, <2>1, Gave
<1> QED BY <1>6, <1>7 DEF Inst!AwaitEnrollment
LEMMA HeartbeatStep == ASSUME InstallInv, NEW r \in Inst!Row, NEW t \in Target, Inst!AwaitHeartbeat(r, t) PROVE InstallInv'
<1> DEFINE j == job[r][t]
           c == [Inst!Updated(j, "COMPLETED") EXCEPT !.safe = FALSE]
           n == [Inst!Updated(j, "INSTALLED_UNVERIFIED") EXCEPT !.safe = FALSE, !.late = TRUE]
<1>1. RowSound(r, j, install[r][t], token[r][t], script[r][t], managed[t]) BY RowOf
<1>2. install[r][t] = "beat" /\ UNCHANGED <<managed, script>> /\ Inst!InProcess BY DEF Inst!AwaitHeartbeat, Inst!At, Inst!InProcess
<1>3. IsRow(j) BY <1>1 DEF RowSound
<1>4. IsRow(c) /\ c.status = "COMPLETED" /\ c.invoked = j.invoked /\ c.slot = FALSE /\ c.safe = FALSE
  <2>1. "COMPLETED" \in Statuses \ SlotKept BY DEF SlotKept
  <2>2. IsRow(Inst!Updated(j, "COMPLETED")) /\ Inst!Updated(j, "COMPLETED").status = "COMPLETED"
        /\ Inst!Updated(j, "COMPLETED").invoked = j.invoked
    BY <1>3, <2>1, UpdatedRow
  <2>3. Inst!Updated(j, "COMPLETED").slot = FALSE BY <1>3, <2>1, UpdatedSlot
  <2> HIDE DEF j
  <2> QED BY <2>2, <2>3 DEF IsRow
<1>5. IsRow(n) /\ n.status = "INSTALLED_UNVERIFIED" /\ n.invoked = j.invoked /\ n.slot = FALSE /\ n.safe = FALSE
  <2>1. "INSTALLED_UNVERIFIED" \in Statuses \ SlotKept BY DEF SlotKept
  <2>2. IsRow(Inst!Updated(j, "INSTALLED_UNVERIFIED")) /\ Inst!Updated(j, "INSTALLED_UNVERIFIED").status = "INSTALLED_UNVERIFIED"
        /\ Inst!Updated(j, "INSTALLED_UNVERIFIED").invoked = j.invoked
    BY <1>3, <2>1, UpdatedRow
  <2>3. Inst!Updated(j, "INSTALLED_UNVERIFIED").slot = FALSE BY <1>3, <2>1, UpdatedSlot
  <2> HIDE DEF j
  <2> QED BY <2>2, <2>3 DEF IsRow
<1> HIDE DEF c, n
<1>6. CASE /\ managed[t] = r /\ Inst!Writes(r, t, c, "finally")
           /\ token' = [token EXCEPT ![r][t] = IF job[r][t].slot THEN "completed" ELSE @]
  <2>1. Put(token, token', r, t, IF job[r][t].slot THEN "completed" ELSE token[r][t])
    BY <1>6, PutIs DEF InstallInv, Types
  <2>2. Put(script, script', r, t, IF job[r][t].slot THEN script[r][t] ELSE script[r][t])
    BY <1>2, Same
  <2>3. RowSound(r, c, "finally", "completed", script[r][t], managed[t]) 
    <3> HIDE DEF j
    <3> QED BY <1>1, <1>2, <1>4, <1>6 DEF RowSound
  <2>4. Moved(r, t) BY <1>2, <1>6, <2>1, <2>2, <2>3, WritesMoved
  <2> QED BY <1>2, <1>6, <2>4, Wrote
<1>7. CASE Inst!Writes(r, t, n, "finally") /\ UNCHANGED token
  <2>1. RowSound(r, n, "finally", token[r][t], script[r][t], managed[t]) 
    <3> HIDE DEF j
    <3> QED BY <1>1, <1>2, <1>5 DEF RowSound
  <2> QED BY <1>2, <1>7, <2>1, WritesOnly, Wrote
<1> QED BY <1>6, <1>7 DEF Inst!AwaitHeartbeat, c, n
LEMMA FinishStep == ASSUME InstallInv, NEW r \in Inst!Row, NEW t \in Target, Inst!FinishInstall(r, t) PROVE InstallInv'
<1> DEFINE k == IF token[r][t] \in Inst!Usable THEN "failed" ELSE token[r][t]
<1>1. RowSound(r, job[r][t], install[r][t], token[r][t], script[r][t], managed[t]) BY RowOf
<1>2. install[r][t] = "finally" /\ UNCHANGED <<managed, job, script>> /\ Inst!InProcess BY DEF Inst!FinishInstall, Inst!At, Inst!InProcess
<1>3. Put(token, token', r, t, k) /\ Put(install, install', r, t, "over")
  BY PutIs DEF Inst!FinishInstall, Inst!Goes, InstallInv, Types
<1>4. RowSound(r, job[r][t], "over", k, script[r][t], managed'[t]) 
  BY <1>1, <1>2 DEF RowSound
<1> HIDE DEF k
<1>5. Moved(r, t) BY <1>2, <1>3, <1>4, Same, OnePut
<1> QED BY <1>2, <1>3, <1>5, Gone
LEMMA ProcessStep == ASSUME InstallInv, NEW r \in Inst!Row, NEW t \in Target, Inst!InstallStep(r, t) PROVE InstallInv'
BY ValidateStep, PrepareStep, IntendStep, SendStep, WatchStep, EnrollmentStep, HeartbeatStep, FinishStep DEF Inst!InstallStep
----
\* The computer.
LEMMA OnTargetStep == ASSUME InstallInv, NEW r \in Inst!Row, NEW t \in Target, Moved(r, t), Inst!OnTarget, managed' = managed,
    agent' \subseteq Target
  PROVE InstallInv'
BY ProcessMoved DEF Inst!OnTarget, Inst!batchVars
LEMMA ScriptStep == ASSUME InstallInv, NEW r \in Inst!Row, NEW t \in Target, Inst!ScriptStarts(r, t) \/ Inst!ScriptEnds(r, t) PROVE InstallInv'
<1>1. RowSound(r, job[r][t], install[r][t], token[r][t], script[r][t], managed[t]) BY RowOf
<1>2. UNCHANGED <<managed, job, token, install>> /\ Inst!OnTarget BY DEF Inst!ScriptStarts, Inst!ScriptEnds, Inst!OnTarget
<1>3. script[r][t] \in {"sent", "running"} BY DEF Inst!ScriptStarts, Inst!ScriptEnds
<1>4. \E s \in {"present", "running", "refused", "done", "bad"} : script' = [script EXCEPT ![r][t] = s]
  BY DEF Inst!ScriptStarts, Inst!ScriptEnds
<1>5. PICK s \in {"present", "running", "refused", "done", "bad"} : script' = [script EXCEPT ![r][t] = s]
  BY <1>4
<1>6. Put(script, script', r, t, s) BY <1>5, PutIs DEF InstallInv, Types
<1>7. RowSound(r, job[r][t], install[r][t], token[r][t], s, managed[t]) 
  BY <1>1, <1>3 DEF RowSound
<1>8. Moved(r, t) BY <1>2, <1>6, <1>7, Same, OnePut
<1>9. agent' \subseteq Target BY DEF Inst!ScriptStarts, Inst!ScriptEnds, InstallInv, Types
<1> QED BY <1>2, <1>8, <1>9, OnTargetStep
LEMMA LateStep == ASSUME InstallInv, NEW r \in Inst!Row, NEW t \in Target, Inst!LateHeartbeat(r, t) PROVE InstallInv'
<1> DEFINE j == job[r][t]
           n == [job[r][t] EXCEPT !.status = "COMPLETED"]
<1>1. RowSound(r, j, install[r][t], token[r][t], script[r][t], managed[t]) BY RowOf
<1>2. UNCHANGED <<managed, script, install, agent>> /\ Inst!OnTarget BY DEF Inst!LateHeartbeat, Inst!OnTarget, Inst!targetVars
<1>3. token[r][t] = "failed" /\ j.status = "INSTALLED_UNVERIFIED" /\ managed[t] = r BY DEF Inst!LateHeartbeat
<1>4. Put(token, token', r, t, "completed") /\ Put(job, job', r, t, n)
  BY PutIs DEF Inst!LateHeartbeat, Inst!Keeps, InstallInv, Types
<1>5. IsRow(n) /\ n.status = "COMPLETED" /\ n.invoked = j.invoked /\ n.slot = j.slot /\ n.safe = j.safe
  BY <1>1 DEF RowSound, IsRow
<1>6. RowSound(r, n, install[r][t], "completed", script[r][t], managed'[t]) 
  <2> HIDE DEF n, j
  <2> QED BY <1>1, <1>2, <1>3, <1>5 DEF RowSound
<1>7. n.status = "COMPLETED" BY <1>5
<1> HIDE DEF n
<1>8. Moved(r, t) BY <1>2, <1>4, <1>6, <1>7, Same, OnePut
<1>9. agent' \subseteq Target BY <1>2 DEF InstallInv, Types
<1> QED BY <1>2, <1>8, <1>9, OnTargetStep
\* Enrolling changes what every row of that computer is held against.
LEMMA EnrollStep == ASSUME Inst!InstallAssumption, InstallInv, NEW r \in Inst!Row, NEW t \in Target, Inst!Enroll(r, t) PROVE InstallInv'
<1>1. UNCHANGED <<job, script, install, agent, stalled, batch, item, installFaults>>
  BY DEF Inst!Enroll, Inst!OnTarget, Inst!batchVars
<1>2. token[r][t] = "waiting" /\ managed[t] = NoBatch BY DEF Inst!Enroll
<1>3. Put(token, token', r, t, "installing") BY PutIs DEF Inst!Enroll, InstallInv, Types
<1>4. managed' = [managed EXCEPT ![t] = r] /\ managed \in [Target -> Inst!Row \cup {NoBatch}]
  BY DEF Inst!Enroll, InstallInv, Types
<1>5. ASSUME NEW x \in Inst!Row, NEW u \in Target
      PROVE RowSound(x, job'[x][u], install'[x][u], token'[x][u], script'[x][u], managed'[u])
  <2>1. RowSound(x, job[x][u], install[x][u], token[x][u], script[x][u], managed[u]) BY RowOf
  <2>2. x # NoBatch BY DEF Inst!InstallAssumption, Inst!Row
  <2>3. u # t => managed'[u] = managed[u] BY <1>4
  <2>4. x # r \/ u # t => token'[x][u] = token[x][u] BY <1>3 DEF Put
  <2>5. token'[r][t] = "installing" BY <1>3 DEF Put
  <2> QED BY <1>1, <1>2, <2>1, <2>2, <2>3, <2>4, <2>5 DEF RowSound
<1>6. BatchesSound' BY <1>1, Batches
<1>7. Types' BY <1>1, <1>3, <1>4 DEF Put, InstallInv, Types
<1> QED BY <1>5, <1>6, <1>7 DEF InstallInv, RowsSound
\* Faults.
LEMMA DieStep == ASSUME Inst!InstallAssumption, InstallInv, NEW r \in Inst!Row, NEW t \in Target, Inst!Die(r, t) PROVE InstallInv'
<1>1. RowSound(r, job[r][t], install[r][t], token[r][t], script[r][t], managed[t]) BY RowOf
<1>2. UNCHANGED <<managed, job, token, script, agent, batch, item>> BY DEF Inst!Die, Inst!targetVars, Inst!batchVars
<1>3. Put(install, install', r, t, "dead") BY PutIs DEF Inst!Die, Inst!Goes, InstallInv, Types
<1>4. RowSound(r, job[r][t], "dead", token[r][t], script[r][t], managed'[t]) BY <1>1, <1>2 DEF RowSound
<1>5. Moved(r, t) BY <1>2, <1>3, <1>4, Same, OnePut
<1>6. RowsSound' BY <1>2, <1>5, Rows
<1>7. install[r][t] # "none" BY DEF Inst!Die
<1>8. BatchesSound'
  <2>1. Batch \subseteq Inst!Row BY DEF Inst!Row
  <2>2. ASSUME NEW b \in Batch, NEW u \in Target PROVE install[b][u] = "none" <=> install'[b][u] = "none"
    BY <1>3, <1>7, <2>1 DEF Put
  <2> QED BY <1>2, <2>2, Batches
<1>9. Types'
  <2>1. installFaults' \in 0..MaxInstallFaults BY DEF Inst!Die, Inst!InstallFault, InstallInv, Types, Inst!InstallAssumption
  <2>2. stalled' \subseteq Inst!Row \X Target BY DEF Inst!Die, InstallInv, Types
  <2> QED BY <1>2, <1>3, <2>1, <2>2 DEF InstallInv, Types, Put
<1> QED BY <1>6, <1>8, <1>9 DEF InstallInv
LEMMA StallStep == ASSUME Inst!InstallAssumption, InstallInv, NEW r \in Inst!Row, NEW t \in Target, Inst!Stall(r, t) \/ Inst!WakeUp(r, t) PROVE InstallInv'
<1>1. UNCHANGED <<job, install, token, script, agent, managed, batch, item>>
  BY DEF Inst!Stall, Inst!WakeUp, Inst!targetVars, Inst!batchVars
<1>2. installFaults' \in 0..MaxInstallFaults BY DEF Inst!Stall, Inst!WakeUp, Inst!InstallFault, InstallInv, Types, Inst!InstallAssumption
<1>3. stalled' \subseteq Inst!Row \X Target BY DEF Inst!Stall, Inst!WakeUp, InstallInv, Types
<1> QED BY <1>1, <1>2, <1>3 DEF InstallInv, Types, RowsSound, BatchesSound, Grid
----
\* Rows given up by somebody else.
StillSound(j, n) ==
  /\ IsRow(n) /\ n.invoked = j.invoked /\ (n.safe => j.safe)
  /\ n.slot => n.status \in Inst!Open \cup {"OUTCOME_UNKNOWN"}
  /\ n.status = "COMPLETED" <=> j.status = "COMPLETED"
LEMMA KeptSound == ASSUME NEW r, NEW j, NEW n, NEW pc, NEW k, NEW s, NEW m, RowSound(r, j, pc, k, s, m), StillSound(j, n)
  PROVE RowSound(r, n, pc, k, s, m)
BY DEF RowSound, StillSound
LEMMA KeptSame == ASSUME NEW r, NEW j, NEW pc, NEW k, NEW s, NEW m, RowSound(r, j, pc, k, s, m) PROVE StillSound(j, j)
BY DEF RowSound, StillSound
LEMMA KeptFree == ASSUME NEW j, IsRow(j) PROVE StillSound(j, [j EXCEPT !.slot = FALSE])
BY DEF IsRow, StillSound
LEMMA KeptAbandoned == ASSUME NEW j, IsRow(j), j.status \in Inst!Open PROVE StillSound(j, Inst!Abandoned(j))
BY AbandonedRow DEF StillSound
LEMMA KeptReconciled == ASSUME NEW j, IsRow(j), j.status \in Inst!Open
  PROVE StillSound(j, [Inst!Abandoned(j) EXCEPT !.slot = ~Inst!JobIsRetrySafe(j)])
BY DEF StillSound, IsRow, Inst!Abandoned, Inst!JobIsRetrySafe
\* All rows at once.
LEMMA AllKept == ASSUME InstallInv, UNCHANGED <<install, token, script, managed>>, 
    \A x \in Inst!Row, u \in Target : StillSound(job[x][u], job'[x][u])
  PROVE RowsSound'
BY KeptSound DEF InstallInv, RowsSound
LEMMA ReconciledKept == ASSUME InstallInv
  PROVE Grid(Inst!Reconciled) /\ \A x \in Inst!Row, u \in Target : StillSound(job[x][u], Inst!Reconciled[x][u])
<1>1. Grid(Inst!Reconciled) BY DEF Grid, Inst!Reconciled
<1>2. ASSUME NEW x \in Inst!Row, NEW u \in Target PROVE StillSound(job[x][u], Inst!Reconciled[x][u])
  <2>0. RowSound(x, job[x][u], install[x][u], token[x][u], script[x][u], managed[u]) BY RowOf
  <2>1. IsRow(job[x][u]) BY <2>0 DEF RowSound
  <2>2. StillSound(job[x][u], job[x][u]) BY <2>0, KeptSame
  <2> DEFINE gone == x \in Solo /\ job[x][u].slot /\ job[x][u].status \in Inst!Open /\ Inst!Stale(x, u)
  <2>3. Inst!Reconciled[x][u] = IF gone THEN [Inst!Abandoned(job[x][u]) EXCEPT !.slot = ~Inst!JobIsRetrySafe(job[x][u])]
                           ELSE job[x][u]
    BY DEF Inst!Reconciled
  <2>4. CASE gone BY <2>1, <2>3, <2>4, KeptReconciled
  <2>5. CASE ~gone BY <2>2, <2>3, <2>5
  <2> QED BY <2>4, <2>5
<1> QED BY <1>1, <1>2
----
\* Single installs.
LEMMA AskStep == ASSUME Inst!InstallAssumption, InstallInv, NEW s \in Solo, NEW t \in Target, Inst!AskSolo(s, t) PROVE InstallInv'
<1>1. job' = Inst!Reconciled /\ UNCHANGED <<stalled, token, script, agent, managed, batch, item, installFaults>>
  BY DEF Inst!AskSolo, Inst!Check, Inst!targetVars
<1>2. install[s][t] = "none" /\ s \in Inst!Row /\ s \notin Batch
  BY DEF Inst!AskSolo, Inst!MayAsk, Inst!Requests, Inst!InstallAssumption, Inst!Row
<1>3. Put(install, install', s, t, "asked") BY <1>2, PutIs DEF Inst!AskSolo, InstallInv, Types
<1>4. ASSUME NEW x \in Inst!Row, NEW u \in Target
      PROVE  RowSound(x, job'[x][u], install'[x][u], token'[x][u], script'[x][u], managed'[u])
  <2>1. RowSound(x, job[x][u], install[x][u], token[x][u], script[x][u], managed[u]) BY RowOf
  <2>2. StillSound(job[x][u], Inst!Reconciled[x][u]) BY ReconciledKept
  <2>3. RowSound(x, Inst!Reconciled[x][u], install[x][u], token[x][u], script[x][u], managed[u])
    BY <2>1, <2>2, KeptSound
  <2>4. CASE x = s /\ u = t
    <3>1. install'[x][u] = "asked" BY <1>3, <2>4 DEF Put
    <3>2. install[x][u] = "none" BY <1>2, <2>4
    <3> QED BY <1>1, <2>3, <3>1, <3>2 DEF RowSound
  <2>5. CASE x # s \/ u # t
    <3>1. install'[x][u] = install[x][u] BY <1>3, <2>5 DEF Put
    <3> QED BY <1>1, <2>3, <3>1
  <2> QED BY <2>4, <2>5
<1>5. BatchesSound'
  <2>1. ASSUME NEW b \in Batch, NEW u \in Target
        PROVE /\ install[b][u] = "none" <=> install'[b][u] = "none"
              /\ job[b][u].status = "COMPLETED" => job'[b][u].status = "COMPLETED"
    <3>1. b \in Inst!Row /\ b # s BY <1>2 DEF Inst!Row
    <3>2. install'[b][u] = install[b][u] BY <1>3, <3>1 DEF Put
    <3>3. StillSound(job[b][u], job'[b][u]) BY <1>1, <3>1, ReconciledKept
    <3> QED BY <3>2, <3>3 DEF StillSound
  <2> QED BY <1>1, <2>1, Batches
<1>6. Types' BY <1>1, <1>3, ReconciledKept DEF Put, InstallInv, Types
<1> QED BY <1>4, <1>5, <1>6 DEF InstallInv, RowsSound
\* A row that is admitted, and those whose slot it takes over.
LEMMA AdmittedRows == ASSUME InstallInv, NEW r \in Inst!Row, NEW t \in Target, install[r][t] \in Early
  PROVE /\ Grid(Inst!Admitted(r, t))
        /\ \A x \in Inst!Row, u \in Target : x # r \/ u # t => StillSound(job[x][u], Inst!Admitted(r, t)[x][u])
        /\ \A pc \in Early : RowSound(r, Inst!Admitted(r, t)[r][t], pc, token[r][t], script[r][t], managed[t])
<1>1. Grid(Inst!Admitted(r, t)) BY DEF Grid, Inst!Admitted
<1>2. ASSUME NEW x \in Inst!Row, NEW u \in Target, x # r \/ u # t PROVE StillSound(job[x][u], Inst!Admitted(r, t)[x][u])
  <2>0. RowSound(x, job[x][u], install[x][u], token[x][u], script[x][u], managed[u]) BY RowOf
  <2>1. IsRow(job[x][u]) BY <2>0 DEF RowSound
  <2>2. StillSound(job[x][u], job[x][u]) BY <2>0, KeptSame
  <2>3. StillSound(job[x][u], [job[x][u] EXCEPT !.slot = FALSE]) BY <2>1, KeptFree
  <2>4. Inst!Admitted(r, t)[x][u] \in {job[x][u], [job[x][u] EXCEPT !.slot = FALSE]} BY <1>2 DEF Inst!Admitted
  <2> QED BY <2>2, <2>3, <2>4
<1>3. ASSUME NEW pc \in Early
      PROVE RowSound(r, Inst!Admitted(r, t)[r][t], pc, token[r][t], script[r][t], managed[t])
  <2>0. RowSound(r, job[r][t], install[r][t], token[r][t], script[r][t], managed[t]) BY RowOf
  <2> DEFINE c == 1 + Cardinality({y \in Inst!Row : job[y][t].status # "none"})
             n == Inst!Admitted(r, t)[r][t]
  <2>1. n = [Inst!NoJob EXCEPT !.status = "QUEUED", !.slot = TRUE, !.safe = TRUE, !.nr = c]
    BY SameCardinality DEF Inst!Admitted
  <2> HIDE DEF n, c
  <2>2. IsRow(n) /\ n.status = "QUEUED" BY <2>1 DEF IsRow, Inst!NoJob
  <2> QED BY <2>0, <2>2 DEF RowSound, n
<1> QED BY <1>1, <1>2, <1>3
LEMMA AdmitStep == ASSUME Inst!InstallAssumption, InstallInv, NEW s \in Solo, NEW t \in Target, Inst!AdmitSolo(s, t) PROVE InstallInv'
<1>1. UNCHANGED <<stalled, token, script, agent, managed, batch, item, installFaults>>
  BY DEF Inst!AdmitSolo, Inst!targetVars, Inst!batchVars
<1>2. install[s][t] = "asked" /\ s \in Inst!Row /\ s \notin Batch BY DEF Inst!AdmitSolo, Inst!InstallAssumption, Inst!Row
<1>3. RowSound(s, job[s][t], install[s][t], token[s][t], script[s][t], managed[t]) BY <1>2, RowOf
<1>4. CASE job' = Inst!Admitted(s, t) /\ install' = [install EXCEPT ![s][t] = "made"]
  <2>1. Put(install, install', s, t, "made") BY <1>2, <1>4, PutIs DEF InstallInv, Types
  <2>2. RowSound(s, job'[s][t], "made", token[s][t], script[s][t], managed[t]) BY <1>2, <1>4, AdmittedRows
  <2>3. \A x \in Inst!Row, u \in Target : x # s \/ u # t => StillSound(job[x][u], job'[x][u])
    BY <1>2, <1>4, AdmittedRows
  <2>4. ASSUME NEW x \in Inst!Row, NEW u \in Target
        PROVE  RowSound(x, job'[x][u], install'[x][u], token'[x][u], script'[x][u], managed'[u])
    <3>1. CASE x = s /\ u = t BY <1>1, <2>1, <2>2, <3>1 DEF Put
    <3>2. CASE x # s \/ u # t
      <4>1. RowSound(x, job[x][u], install[x][u], token[x][u], script[x][u], managed[u]) BY RowOf
      <4>2. install'[x][u] = install[x][u] BY <2>1, <3>2 DEF Put
      <4> QED BY <1>1, <2>3, <3>2, <4>1, <4>2, KeptSound
    <3> QED BY <3>1, <3>2
  <2>5. ASSUME NEW b \in Batch, NEW u \in Target
        PROVE /\ install[b][u] = "none" <=> install'[b][u] = "none"
              /\ job[b][u].status = "COMPLETED" => job'[b][u].status = "COMPLETED"
    BY <1>2, <2>1, <2>3 DEF Put, Inst!Row, StillSound
  <2>6. BatchesSound' BY <1>1, <2>5, Batches
  <2>7. Types' BY <1>1, <1>2, <1>4, <2>1, AdmittedRows DEF Put, InstallInv, Types
  <2> QED BY <2>4, <2>6, <2>7 DEF InstallInv, RowsSound
<1>5. CASE install' = [install EXCEPT ![s][t] = "over"] /\ UNCHANGED job
  <2>1. Put(install, install', s, t, "over") BY <1>2, <1>5, PutIs DEF InstallInv, Types
  <2>2. RowSound(s, job[s][t], "over", token[s][t], script[s][t], managed'[t]) BY <1>1, <1>2, <1>3 DEF RowSound
  <2>3. Moved(s, t) BY <1>1, <1>2, <1>5, <2>1, <2>2, Same, OnePut
  <2>4. install'[s][t] = "over" BY <2>1 DEF Put
  <2> QED BY <1>1, <1>2, <2>3, <2>4, ProcessMoved DEF InstallInv, Types
<1> QED BY <1>4, <1>5 DEF Inst!AdmitSolo
\* The start: the row and its process, of a single install or of an item.
LEMMA StartRows == ASSUME Inst!InstallAssumption, InstallInv, NEW r \in Inst!Row, NEW t \in Target, install[r][t] \in {"none", "made"},
    Inst!Start(r, t), UNCHANGED <<token, script, managed>>
  PROVE /\ Moved(r, t) /\ installFaults' \in 0..MaxInstallFaults
        /\ \E q : q # "none" /\ Put(install, install', r, t, q)
<1>1. RowSound(r, job[r][t], install[r][t], token[r][t], script[r][t], managed[t]) BY RowOf
<1>2. CASE install' = [install EXCEPT ![r][t] = "start"] /\ UNCHANGED <<job, installFaults>>
  <2>1. Put(install, install', r, t, "start") BY <1>2, PutIs DEF InstallInv, Types
  <2>2. RowSound(r, job[r][t], "start", token[r][t], script[r][t], managed'[t]) BY <1>1 DEF RowSound
  <2>3. Moved(r, t) BY <1>2, <2>1, <2>2, Same, OnePut
  <2>4. installFaults' \in 0..MaxInstallFaults BY <1>2 DEF InstallInv, Types
  <2> QED BY <2>1, <2>3, <2>4
<1> DEFINE u == Inst!Updated(job[r][t], "INTERRUPTED")
           n == [u EXCEPT !.safe = TRUE]
           v == IF job[r][t].slot THEN n ELSE job[r][t]
<1>3. CASE /\ Inst!InstallFault /\ install' = [install EXCEPT ![r][t] = "over"]
           /\ job' = [job EXCEPT ![r][t] = v]
  <2>1. Put(install, install', r, t, "over") BY <1>3, PutIs DEF InstallInv, Types
  <2>2. IsRow(n) /\ n.status = "INTERRUPTED" /\ n.slot = FALSE
    <3>1. "INTERRUPTED" \in Statuses \ SlotKept BY DEF SlotKept
    <3>2. IsRow(job[r][t]) BY <1>1 DEF RowSound
    <3>3. IsRow(u) /\ u.status = "INTERRUPTED" BY <3>1, <3>2, UpdatedRow
    <3>4. u.slot = FALSE BY <3>1, <3>2, UpdatedSlot
    <3> HIDE DEF u
    <3> QED BY <3>3, <3>4 DEF IsRow
  <2> HIDE DEF n
  <2>3. RowSound(r, v, "over", token[r][t], script[r][t], managed'[t]) BY <1>1, <2>2 DEF RowSound
  <2>4. job[r][t].status = "COMPLETED" => v.status = "COMPLETED" BY <1>1 DEF RowSound
  <2>5. Put(job, job', r, t, v)
    <3> HIDE DEF v
    <3> QED BY <1>3, PutIs DEF InstallInv, Types
  <2>6. Moved(r, t)
    <3> HIDE DEF v
    <3> QED BY <2>1, <2>3, <2>4, <2>5, Same, OnePut
  <2>7. installFaults' \in 0..MaxInstallFaults BY <1>3 DEF Inst!InstallFault, InstallInv, Types, Inst!InstallAssumption
  <2> QED BY <2>1, <2>6, <2>7
<1> QED BY <1>2, <1>3 DEF Inst!Start
LEMMA StartSoloStep == ASSUME Inst!InstallAssumption, InstallInv, NEW s \in Solo, NEW t \in Target, Inst!StartSolo(s, t) PROVE InstallInv'
<1>1. UNCHANGED <<stalled, token, script, agent, managed, batch, item>> BY DEF Inst!StartSolo, Inst!targetVars, Inst!batchVars
<1>2. s \in Inst!Row /\ install[s][t] = "made" BY DEF Inst!StartSolo, Inst!Row
<1>3. Moved(s, t) /\ installFaults' \in 0..MaxInstallFaults BY <1>1, <1>2, StartRows DEF Inst!StartSolo
<1>4. PICK q : q # "none" /\ Put(install, install', s, t, q) BY <1>1, <1>2, StartRows DEF Inst!StartSolo
<1>5. RowsSound' BY <1>1, <1>2, <1>3, Rows
<1>6. BatchesSound'
  <2>1. ASSUME NEW b \in Batch, NEW u \in Target
        PROVE /\ install[b][u] = "none" <=> install'[b][u] = "none"
              /\ job[b][u].status = "COMPLETED" => job'[b][u].status = "COMPLETED"
    <3>1. b \in Inst!Row /\ b # s BY DEF Inst!Row, Inst!InstallAssumption
    <3> QED BY <1>3, <3>1 DEF Moved
  <2> QED BY <1>1, <2>1, Batches
<1>7. Types' BY <1>1, <1>3 DEF InstallInv, Types, Moved
<1> QED BY <1>5, <1>6, <1>7 DEF InstallInv
----
\* Batches.
LEMMA BatchOf == ASSUME InstallInv, NEW b \in Batch
  PROVE BatchSound(b, batch[b], item[b], job[b], install[b])
BY DEF InstallInv, BatchesSound
LEMMA OneBatch == ASSUME InstallInv, NEW b \in Batch,
    \A c \in Batch : c # b =>
      /\ batch'[c] = batch[c] /\ item'[c] = item[c] 
      /\ \A t \in Target : /\ install[c][t] = "none" <=> install'[c][t] = "none"
                           /\ job[c][t].status = "COMPLETED" => job'[c][t].status = "COMPLETED",
    BatchSound(b, batch'[b], item'[b], job'[b], install'[b])
  PROVE BatchesSound'
<1> SUFFICES ASSUME NEW c \in Batch PROVE BatchSound(c, batch[c], item[c], job[c], install[c])'
  BY DEF BatchesSound
<1>1. CASE c = b BY <1>1
<1>2. CASE c # b
  <2>1. BatchSound(c, batch[c], item[c], job[c], install[c]) BY BatchOf
  <2>2. batch[c].runner = "launch" => batch[c].at \in Target BY <2>1 DEF BatchSound
  <2> QED BY <1>2, <2>1, <2>2 DEF BatchSound
<1> QED BY <1>1, <1>2
\* The rows stay, or are given up.
LEMMA BatchMoves == ASSUME InstallInv, NEW b \in Batch,
    UNCHANGED <<install, token, script, managed, agent, stalled>>, installFaults' \in 0..MaxInstallFaults,
    Grid(job'), \A x \in Inst!Row, u \in Target : StillSound(job[x][u], job'[x][u]),
    NEW y \in BatchRec, batch' = [batch EXCEPT ![b] = y],
    NEW i \in [Target -> ItemStates], item' = [item EXCEPT ![b] = i],
    BatchSound(b, y, i, job'[b], install[b])
  PROVE InstallInv'
<1>1. RowsSound' BY AllKept
<1>2. Types' BY DEF InstallInv, Types
<1>3. batch \in [Batch -> BatchRec] /\ item \in [Batch -> [Target -> ItemStates]] BY DEF InstallInv, Types
<1>4. \A c \in Batch, t \in Target : job[c][t].status = "COMPLETED" => job'[c][t].status = "COMPLETED"
  BY DEF Inst!Row, StillSound
<1>5. BatchesSound' BY <1>3, <1>4, OneBatch
<1> QED BY <1>1, <1>2, <1>5 DEF InstallInv
LEMMA JobSame == ASSUME InstallInv PROVE Grid(job) /\ \A x \in Inst!Row, u \in Target : StillSound(job[x][u], job[x][u])
BY RowOf, KeptSame DEF InstallInv, Types
LEMMA ItemSame == ASSUME InstallInv, NEW b \in Batch
  PROVE /\ item = [item EXCEPT ![b] = item[b]] /\ item[b] \in [Target -> ItemStates]
        /\ batch = [batch EXCEPT ![b] = batch[b]] /\ batch[b] \in BatchRec
BY DEF InstallInv, Types
LEMMA BatchNew == ASSUME InstallInv, NEW b \in Batch, NEW targets, Inst!NewBatch(b, targets) PROVE InstallInv'
<1> DEFINE x == batch[b]
           y == [x EXCEPT !.status = "QUEUED", !.slot = TRUE, !.runner = "made"]
           i == [t \in Target |-> IF t \notin targets THEN "none"
                                  ELSE IF Inst!AdTarget(t) THEN "WAITING" ELSE "FAILED"]
<1>1. /\ batch' = [batch EXCEPT ![b] = y] /\ item' = [item EXCEPT ![b] = i]
      /\ UNCHANGED <<job, install, token, script, managed, agent, stalled, installFaults>>
  BY DEF Inst!NewBatch, Inst!targetVars
<1>2. x.status = "none" BY DEF Inst!NewBatch, Inst!MayAsk, Inst!Requests
<1>3. BatchSound(b, x, item[b], job[b], install[b]) BY BatchOf
<1>4. x \in BatchRec /\ installFaults' \in 0..MaxInstallFaults BY <1>1 DEF InstallInv, Types
<1>5. y \in BatchRec /\ y.status = "QUEUED" /\ y.slot = TRUE /\ y.runner = "made"
  <2> HIDE DEF x
  <2> QED BY <1>4 DEF BatchRec
<1>6. i \in [Target -> ItemStates] /\ \A t \in Target : i[t] \in {"none", "WAITING", "FAILED"} OBVIOUS
<1> HIDE DEF x, y, i
<1>7. BatchSound(b, y, i, job[b], install[b])
  BY <1>2, <1>3, <1>5, <1>6 DEF BatchSound
<1> QED BY <1>1, <1>4, <1>5, <1>6, <1>7, JobSame, BatchMoves
\* Both ends of interrupt_batch.
LEMMA BatchInterrupted == ASSUME InstallInv, NEW b \in Batch, NEW pc \in {"over", "dead"}, Inst!InterruptBatch(b, pc),
    UNCHANGED <<install, token, script, managed, agent, stalled>>, installFaults' \in 0..MaxInstallFaults,
    ~batch[b].slot => pc = "dead"
  PROVE InstallInv'
<1> DEFINE x == batch[b]
           left == {t \in Target : item[b][t] \notin Inst!ItemEnded \cup {"none"}}
<1>1. BatchSound(b, x, item[b], job[b], install[b]) /\ x \in BatchRec BY BatchOf, ItemSame
<1>2. CASE ~batch[b].slot
  <2> DEFINE y == [x EXCEPT !.runner = pc]
  <2>1. batch' = [batch EXCEPT ![b] = y] /\ UNCHANGED <<job, item>> /\ pc = "dead"
    BY <1>2, ItemSame DEF Inst!InterruptBatch, Inst!RunnerAt
  <2>2. y \in BatchRec /\ y.status = x.status /\ y.slot = x.slot /\ y.runner = "dead"
    <3> HIDE DEF x
    <3> QED BY <1>1, <2>1 DEF BatchRec
  <2> HIDE DEF x, y
  <2>3. BatchSound(b, y, item[b], job[b], install[b]) BY <1>1, <2>2 DEF BatchSound
  <2> QED BY <2>1, <2>2, <2>3, JobSame, ItemSame, BatchMoves
<1>3. CASE batch[b].slot
  <2> DEFINE y == [x EXCEPT !.status = "INTERRUPTED", !.slot = FALSE, !.runner = pc]
             g == [t \in Target |-> IF t \in left THEN Inst!Interrupted(b, t) ELSE job[b][t]]
             i == [t \in Target |->
                    IF t \notin left THEN item[b][t] ELSE IF job[b][t] = Inst!NoJob THEN "FAILED" ELSE Inst!ItemOf(Inst!Interrupted(b, t))]
  <2>1. batch' = [batch EXCEPT ![b] = y] /\ item' = [item EXCEPT ![b] = i] /\ job' = [job EXCEPT ![b] = g]
    BY <1>3 DEF Inst!InterruptBatch
  <2>2. y \in BatchRec /\ y.status = "INTERRUPTED" /\ y.slot = FALSE /\ y.runner = pc
    <3> HIDE DEF x
    <3> QED BY <1>1 DEF BatchRec
  <2>3. ASSUME NEW t \in Target PROVE StillSound(job[b][t], g[t])
    <3>0. RowSound(b, job[b][t], install[b][t], token[b][t], script[b][t], managed[t]) BY RowOf DEF Inst!Row
    <3>1. IsRow(job[b][t]) BY <3>0 DEF RowSound
    <3>2. StillSound(job[b][t], job[b][t]) BY <3>0, KeptSame
    <3>3. StillSound(job[b][t], Inst!Interrupted(b, t)) BY <3>1, KeptFree, KeptAbandoned DEF Inst!Interrupted
    <3>4. g[t] = Inst!Interrupted(b, t) \/ g[t] = job[b][t] OBVIOUS
    <3> HIDE DEF g
    <3> QED BY <3>2, <3>3, <3>4
  <2>4. ASSUME NEW t \in Target
        PROVE /\ i[t] \in Inst!ItemEnded \cup {"none"}
              /\ install[b][t] # "none" => i[t] \in Inst!ItemEnded
              /\ i[t] = "COMPLETED" => g[t].status = "COMPLETED"
    <3>1. t \in left => i[t] \in Inst!ItemEnded /\ g[t] = Inst!Interrupted(b, t) /\ (i[t] = "COMPLETED" => Inst!Interrupted(b, t).status = "COMPLETED")
      BY DEF Inst!ItemOf
    <3>2. t \notin left => i[t] = item[b][t] /\ g[t] = job[b][t] /\ item[b][t] \in Inst!ItemEnded \cup {"none"}
      OBVIOUS
    <3>3. install[b][t] # "none" => item[b][t] \in Progressed BY <1>1 DEF BatchSound
    <3>4. item[b][t] = "COMPLETED" => job[b][t].status = "COMPLETED" BY <1>1 DEF BatchSound
    <3> HIDE DEF left, i, g
    <3> QED BY <3>1, <3>2, <3>3, <3>4
  <2>5. i \in [Target -> ItemStates]
    <3>1. \A t \in Target : i[t] \in ItemStates BY <2>4
    <3>2. i = [t \in Target |-> i[t]] OBVIOUS
    <3> HIDE DEF i
    <3> QED BY <3>1, <3>2
  <2> HIDE DEF y, g, i, left
  <2>6. job'[b] = g /\ Grid(job)
    BY <2>1 DEF InstallInv, Types, Grid, Inst!Row
  <2>7. BatchSound(b, y, i, job'[b], install[b]) BY <2>2, <2>4, <2>6 DEF BatchSound
  <2>8. Grid(job')
    <3>1. DOMAIN g = Target BY DEF g
    <3> QED BY <2>1, <3>1 DEF InstallInv, Types, Grid
  <2>9. ASSUME NEW r \in Inst!Row, NEW u \in Target PROVE StillSound(job[r][u], job'[r][u])
    <3>1. CASE r = b BY <2>3, <2>6, <3>1
    <3>2. CASE r # b
      <4>1. job'[r] = job[r] BY <2>1, <2>6, <3>2 DEF Grid
      <4> QED BY <4>1, JobSame
    <3> QED BY <3>1, <3>2
  <2> QED BY <2>1, <2>2, <2>5, <2>7, <2>8, <2>9, BatchMoves
<1> QED BY <1>2, <1>3
LEMMA ItemPut == ASSUME InstallInv, NEW b \in Batch, NEW t \in Target, NEW v \in ItemStates
  PROVE LET i == [item[b] EXCEPT ![t] = v] IN
    /\ [item EXCEPT ![b][t] = v] = [item EXCEPT ![b] = i] /\ i \in [Target -> ItemStates]
    /\ i[t] = v /\ \A u \in Target : u # t => i[u] = item[b][u]
BY DEF InstallInv, Types
LEMMA Quiet == ASSUME InstallInv, Inst!InBatch, UNCHANGED <<install>>
  PROVE UNCHANGED <<install, token, script, managed, agent, stalled>> /\ installFaults' \in 0..MaxInstallFaults
BY DEF Inst!InBatch, Inst!targetVars, InstallInv, Types
LEMMA BatchStarts == ASSUME Inst!InstallAssumption, InstallInv, NEW b \in Batch, Inst!StartBatch(b) PROVE InstallInv'
<1> DEFINE x == batch[b]
           y == [x EXCEPT !.runner = "start"]
<1>1. UNCHANGED <<install, token, script, managed, agent, stalled>> BY DEF Inst!StartBatch, Inst!targetVars
<1>2. installFaults' \in 0..MaxInstallFaults
  BY DEF Inst!StartBatch, Inst!InstallFault, InstallInv, Types, Inst!InstallAssumption
<1>3. BatchSound(b, x, item[b], job[b], install[b]) /\ x \in BatchRec BY BatchOf, ItemSame
<1>4. x.runner = "made" BY DEF Inst!StartBatch
<1>5. CASE Inst!RunnerAt(b, "start") /\ UNCHANGED <<job, item>>
  <2>1. batch' = [batch EXCEPT ![b] = y] BY <1>5 DEF Inst!RunnerAt
  <2>2. y \in BatchRec /\ y.status = x.status /\ y.slot = x.slot /\ y.runner = "start"
    <3> HIDE DEF x
    <3> QED BY <1>3 DEF BatchRec
  <2> HIDE DEF x, y
  <2>3. BatchSound(b, y, item[b], job[b], install[b]) BY <1>3, <1>4, <2>2 DEF BatchSound
  <2> QED BY <1>1, <1>2, <1>5, <2>1, <2>2, <2>3, JobSame, ItemSame, BatchMoves
<1>6. CASE Inst!InterruptBatch(b, "over")
  <2>1. batch[b].slot BY <1>3, <1>4 DEF BatchSound
  <2> QED BY <1>1, <1>2, <1>6, <2>1, BatchInterrupted
<1> QED BY <1>5, <1>6 DEF Inst!StartBatch
LEMMA BatchClaimed == ASSUME InstallInv, NEW b \in Batch, Inst!ClaimBatch(b) PROVE InstallInv'
<1> DEFINE x == batch[b]
           y == [x EXCEPT !.status = "RUNNING", !.runner = "next"]
<1>1. UNCHANGED <<install, token, script, managed, agent, stalled>> /\ installFaults' \in 0..MaxInstallFaults
  BY Quiet DEF Inst!ClaimBatch
<1>2. BatchSound(b, x, item[b], job[b], install[b]) /\ x \in BatchRec BY BatchOf, ItemSame
<1>3. x.runner = "start" /\ UNCHANGED <<job, item>> BY DEF Inst!ClaimBatch
<1>4. x.status = "QUEUED" /\ x.slot BY <1>2, <1>3 DEF BatchSound
<1>5. batch' = [batch EXCEPT ![b] = y] BY <1>4 DEF Inst!ClaimBatch
<1>6. y \in BatchRec /\ y.status = "RUNNING" /\ y.slot = x.slot /\ y.runner = "next"
  <2> HIDE DEF x
  <2> QED BY <1>2 DEF BatchRec
<1> HIDE DEF x, y
<1>7. BatchSound(b, y, item[b], job[b], install[b]) BY <1>2, <1>3, <1>4, <1>6 DEF BatchSound
<1> QED BY <1>1, <1>3, <1>5, <1>6, <1>7, JobSame, ItemSame, BatchMoves
LEMMA BatchNext == ASSUME InstallInv, NEW b \in Batch, NEW t \in Target, Inst!NextItem(b, t) PROVE InstallInv'
<1> DEFINE x == batch[b]
           y == [x EXCEPT !.at = t, !.runner = "check"]
           i == [item[b] EXCEPT ![t] = "PREFLIGHT"]
<1>1. UNCHANGED <<install, token, script, managed, agent, stalled>> /\ installFaults' \in 0..MaxInstallFaults
  BY Quiet DEF Inst!NextItem
<1>2. BatchSound(b, x, item[b], job[b], install[b]) /\ x \in BatchRec BY BatchOf, ItemSame
<1>3. x.runner = "next" /\ x.status = "RUNNING" /\ x.slot /\ item[b][t] = "WAITING" /\ UNCHANGED job
      /\ batch' = [batch EXCEPT ![b] = y]
  BY DEF Inst!NextItem, Inst!Runs
<1>4. /\ item' = [item EXCEPT ![b] = i] /\ i \in [Target -> ItemStates]
      /\ i[t] = "PREFLIGHT" /\ \A u \in Target : u # t => i[u] = item[b][u]
  BY ItemPut DEF Inst!NextItem
<1>5. y \in BatchRec /\ y.status = x.status /\ y.slot = x.slot /\ y.runner = "check" /\ y.at = t
  <2> HIDE DEF x
  <2> QED BY <1>2 DEF BatchRec
<1> HIDE DEF x, y, i
<1>6. BatchSound(b, y, i, job[b], install[b]) BY <1>2, <1>3, <1>4, <1>5 DEF BatchSound
<1> QED BY <1>1, <1>3, <1>4, <1>5, <1>6, JobSame, BatchMoves
\* A target that is not started on.
LEMMA BatchUnlinked == ASSUME InstallInv, NEW b \in Batch, Inst!FailUnlinked(b), batch[b].runner \in {"check", "admit"},
    UNCHANGED <<job, install>>, Inst!InBatch
  PROVE InstallInv'
<1> DEFINE x == batch[b]
           y == [x EXCEPT !.runner = "next"]
           i == [item[b] EXCEPT ![x.at] = "FAILED"]
<1>1. UNCHANGED <<install, token, script, managed, agent, stalled>> /\ installFaults' \in 0..MaxInstallFaults
  BY Quiet
<1>2. BatchSound(b, x, item[b], job[b], install[b]) /\ x \in BatchRec BY BatchOf, ItemSame
<1>3. x.at \in Target /\ item[b][x.at] = "PREFLIGHT" /\ Inst!Runs(b) BY <1>2 DEF BatchSound, Inst!Runs
<1>4. batch' = [batch EXCEPT ![b] = y] BY DEF Inst!FailUnlinked, Inst!RunnerAt
<1>5. /\ item' = [item EXCEPT ![b] = i] /\ i \in [Target -> ItemStates]
      /\ i[x.at] = "FAILED" /\ \A u \in Target : u # x.at => i[u] = item[b][u]
  <2>1. item' = [item EXCEPT ![b][x.at] = "FAILED"] BY <1>3 DEF Inst!FailUnlinked
  <2> QED BY <1>3, <2>1, ItemPut
<1>6. y \in BatchRec /\ y.status = x.status /\ y.slot = x.slot /\ y.runner = "next"
  <2> HIDE DEF x
  <2> QED BY <1>2 DEF BatchRec
<1> HIDE DEF y, i
<1>7. BatchSound(b, y, i, job[b], install[b]) BY <1>2, <1>3, <1>5, <1>6 DEF BatchSound
<1> QED BY <1>1, <1>4, <1>5, <1>6, <1>7, JobSame, BatchMoves
LEMMA BatchChecks == ASSUME InstallInv, NEW b \in Batch, Inst!CheckItem(b) PROVE InstallInv'
<1> DEFINE x == batch[b]
           y == [x EXCEPT !.runner = "admit"]
<1>1. UNCHANGED <<install, token, script, managed, agent, stalled>> /\ installFaults' \in 0..MaxInstallFaults
  BY Quiet DEF Inst!CheckItem
<1>2. BatchSound(b, x, item[b], job[b], install[b]) /\ x \in BatchRec BY BatchOf, ItemSame
<1>3. x.runner = "check" BY DEF Inst!CheckItem
<1>4. CASE Inst!Check(b, x.at) /\ Inst!RunnerAt(b, "admit") /\ UNCHANGED item
  <2>1. job' = Inst!Reconciled /\ batch' = [batch EXCEPT ![b] = y] BY <1>4 DEF Inst!Check, Inst!RunnerAt
  <2>2. y \in BatchRec /\ y.status = x.status /\ y.slot = x.slot /\ y.runner = "admit" /\ y.at = x.at
    <3> HIDE DEF x
    <3> QED BY <1>2 DEF BatchRec
  <2>3. \A t \in Target : job[b][t].status = "COMPLETED" => job'[b][t].status = "COMPLETED"
    BY <2>1, ReconciledKept DEF Inst!Row, StillSound
  <2> HIDE DEF x, y
  <2>4. BatchSound(b, y, item[b], job'[b], install[b]) BY <1>2, <1>3, <2>2, <2>3 DEF BatchSound
  <2> QED BY <1>1, <1>4, <2>1, <2>2, <2>4, ReconciledKept, ItemSame, BatchMoves
<1>5. CASE Inst!FailUnlinked(b) /\ UNCHANGED job BY <1>3, <1>5, BatchUnlinked DEF Inst!CheckItem
<1> QED BY <1>4, <1>5 DEF Inst!CheckItem
LEMMA BatchAdmits == ASSUME InstallInv, NEW b \in Batch, Inst!AdmitItem(b) PROVE InstallInv'
<1> DEFINE x == batch[b]
           y == [x EXCEPT !.runner = "launch"]
           i == [item[b] EXCEPT ![x.at] = "INSTALLING"]
           t == x.at
<1>1. UNCHANGED <<install, token, script, managed, agent, stalled>> /\ installFaults' \in 0..MaxInstallFaults
  BY Quiet DEF Inst!AdmitItem
<1>2. BatchSound(b, x, item[b], job[b], install[b]) /\ x \in BatchRec BY BatchOf, ItemSame
<1>3. x.runner = "admit" BY DEF Inst!AdmitItem
<1>4. t \in Target /\ item[b][t] = "PREFLIGHT" /\ x.status = "RUNNING" /\ x.slot /\ b \in Inst!Row
  BY <1>2, <1>3 DEF BatchSound, Inst!Row
<1>5. install[b][t] = "none" BY <1>2, <1>4 DEF BatchSound
<1>6. CASE /\ job' = Inst!Admitted(b, t) /\ Inst!RunnerAt(b, "launch")
           /\ item' = [item EXCEPT ![b][t] = "INSTALLING"]
  <2>1. batch' = [batch EXCEPT ![b] = y] BY <1>6 DEF Inst!RunnerAt
  <2>2. /\ item' = [item EXCEPT ![b] = i] /\ i \in [Target -> ItemStates]
        /\ i[t] = "INSTALLING" /\ \A u \in Target : u # t => i[u] = item[b][u]
    BY <1>4, <1>6, ItemPut
  <2>3. y \in BatchRec /\ y.status = x.status /\ y.slot = x.slot /\ y.runner = "launch" /\ y.at = t
    <3> HIDE DEF x
    <3> QED BY <1>2 DEF BatchRec
  <2>4. /\ Grid(job')
        /\ \A r \in Inst!Row, u \in Target : r # b \/ u # t => StillSound(job[r][u], job'[r][u])
        /\ RowSound(b, job'[b][t], "none", token[b][t], script[b][t], managed[t])
    BY <1>4, <1>5, <1>6, AdmittedRows
  <2>5. \A c \in Batch, u \in Target : c # b \/ u # t => (job[c][u].status = "COMPLETED" => job'[c][u].status = "COMPLETED")
    BY <2>4 DEF StillSound, Inst!Row
  <2> HIDE DEF x, y, i, t
  <2>6. BatchSound(b, y, i, job'[b], install[b])
    BY <1>2, <1>3, <1>4, <1>5, <2>2, <2>3, <2>5 DEF BatchSound
  <2>7. BatchesSound'
    <3>1. \A c \in Batch : c # b => batch'[c] = batch[c] /\ item'[c] = item[c] BY <2>1, <2>2, ItemSame DEF InstallInv, Types
    <3>2. batch'[b] = y /\ item'[b] = i BY <2>1, <2>2 DEF InstallInv, Types
    <3> QED BY <1>1, <2>5, <2>6, <3>1, <3>2, OneBatch
  <2>8. RowsSound'
    <3>1. ASSUME NEW r \in Inst!Row, NEW u \in Target
          PROVE  RowSound(r, job'[r][u], install'[r][u], token'[r][u], script'[r][u], managed'[u])
      <4>1. CASE r = b /\ u = t BY <1>1, <1>5, <2>4, <4>1
      <4>2. CASE r # b \/ u # t BY <1>1, <2>4, <4>2, RowOf, KeptSound
      <4> QED BY <4>1, <4>2
    <3> QED BY <3>1 DEF RowsSound
  <2>9. Types' BY <1>1, <2>1, <2>2, <2>3, <2>4 DEF InstallInv, Types
  <2> QED BY <2>7, <2>8, <2>9 DEF InstallInv
<1>7. CASE Inst!FailUnlinked(b) /\ UNCHANGED job BY <1>3, <1>7, BatchUnlinked DEF Inst!AdmitItem
<1> QED BY <1>6, <1>7 DEF Inst!AdmitItem
LEMMA BatchLaunches == ASSUME Inst!InstallAssumption, InstallInv, NEW b \in Batch, Inst!LaunchItem(b) PROVE InstallInv'
<1> DEFINE x == batch[b]
           y == [x EXCEPT !.runner = "reflect"]
           t == x.at
<1>1. UNCHANGED <<stalled, token, script, agent, managed, item>> /\ batch' = [batch EXCEPT ![b] = y]
  BY DEF Inst!LaunchItem, Inst!targetVars, Inst!RunnerAt
<1>2. BatchSound(b, x, item[b], job[b], install[b]) /\ x \in BatchRec BY BatchOf, ItemSame
<1>3. x.runner = "launch" BY DEF Inst!LaunchItem
<1>4. t \in Target /\ item[b][t] \in Progressed /\ install[b][t] = "none" /\ b \in Inst!Row
  BY <1>2, <1>3 DEF BatchSound, Inst!Row
<1>5. Moved(b, t) /\ installFaults' \in 0..MaxInstallFaults BY <1>1, <1>4, StartRows DEF Inst!LaunchItem
<1>6. PICK q : q # "none" /\ Put(install, install', b, t, q) BY <1>1, <1>4, StartRows DEF Inst!LaunchItem
<1>7. y \in BatchRec /\ y.status = x.status /\ y.slot = x.slot /\ y.runner = "reflect" /\ y.at = t
  <2> HIDE DEF x
  <2> QED BY <1>2 DEF BatchRec
<1>8. RowsSound' BY <1>1, <1>4, <1>5, Rows
<1>9. \A c \in Batch, u \in Target : job[c][u].status = "COMPLETED" => job'[c][u].status = "COMPLETED"
  BY <1>5 DEF Moved, Inst!Row
<1>10. \A c \in Batch, u \in Target : c # b \/ u # t => install'[c][u] = install[c][u]
  BY <1>6 DEF Put, Inst!Row
<1> HIDE DEF x, y
<1>11. BatchSound(b, y, item[b], job'[b], install'[b])
  BY <1>2, <1>3, <1>4, <1>7, <1>9, <1>10 DEF BatchSound
<1>12. BatchesSound'
  <2>1. \A c \in Batch : c # b => batch'[c] = batch[c] BY <1>1 DEF InstallInv, Types
  <2>2. batch'[b] = y BY <1>1 DEF InstallInv, Types
  <2> QED BY <1>1, <1>9, <1>10, <1>11, <2>1, <2>2, OneBatch
<1>13. Types' BY <1>1, <1>5, <1>7 DEF InstallInv, Types, Moved
<1> QED BY <1>8, <1>12, <1>13 DEF InstallInv
\* One row is given up, the others stay.
LEMMA KeptPut == ASSUME InstallInv, NEW r \in Inst!Row, NEW t \in Target, NEW n, StillSound(job[r][t], n), Inst!Keeps(r, t, n)
  PROVE /\ Put(job, job', r, t, n) /\ Grid(job')
        /\ \A x \in Inst!Row, u \in Target : StillSound(job[x][u], job'[x][u])
<1>1. Put(job, job', r, t, n) BY PutIs DEF Inst!Keeps, InstallInv, Types
<1> QED BY <1>1, JobSame DEF Put
LEMMA BatchReflects == ASSUME InstallInv, NEW b \in Batch, Inst!ReflectJob(b) PROVE InstallInv'
<1> DEFINE x == batch[b]
           y == [x EXCEPT !.runner = "next"]
           t == x.at
           v == Inst!ItemOf(job[b][t])
           i == [item[b] EXCEPT ![t] = v]
<1>1. UNCHANGED <<install, token, script, managed, agent, stalled>> /\ installFaults' \in 0..MaxInstallFaults
  BY Quiet DEF Inst!ReflectJob
<1>2. BatchSound(b, x, item[b], job[b], install[b]) /\ x \in BatchRec BY BatchOf, ItemSame
<1>3. x.runner = "reflect" /\ batch' = [batch EXCEPT ![b] = y] BY DEF Inst!ReflectJob, Inst!RunnerAt
<1>4. t \in Target /\ item[b][t] \in Progressed /\ x.status = "RUNNING" /\ b \in Inst!Row
  BY <1>2, <1>3 DEF BatchSound, Inst!Row
<1>5. y \in BatchRec /\ y.status = x.status /\ y.slot = x.slot /\ y.runner = "next"
  <2> HIDE DEF x
  <2> QED BY <1>2 DEF BatchRec
<1>6. CASE /\ Inst!Keeps(b, t, [job[b][t] EXCEPT !.slot = FALSE])
           /\ item' = [item EXCEPT ![b][t] = v]
  <2>1. StillSound(job[b][t], [job[b][t] EXCEPT !.slot = FALSE]) BY <1>4, RowOf, KeptFree DEF RowSound
  <2>2. Grid(job') /\ \A r \in Inst!Row, u \in Target : StillSound(job[r][u], job'[r][u])
    BY <1>4, <1>6, <2>1, KeptPut
  <2>3. v \in Inst!ItemEnded /\ (v = "COMPLETED" => job[b][t].status = "COMPLETED") BY DEF Inst!ItemOf
  <2>7. v \in ItemStates BY <2>3
  <2> HIDE DEF v
  <2>4. /\ item' = [item EXCEPT ![b] = i] /\ i \in [Target -> ItemStates]
        /\ i[t] = v /\ \A u \in Target : u # t => i[u] = item[b][u]
    BY <1>4, <1>6, <2>7, ItemPut
  <2>5. \A u \in Target : job[b][u].status = "COMPLETED" => job'[b][u].status = "COMPLETED"
    BY <1>4, <2>2 DEF StillSound
  <2> HIDE DEF x, y, i
  <2>6. BatchSound(b, y, i, job'[b], install[b])
    BY <1>2, <1>3, <1>4, <1>5, <2>3, <2>4, <2>5 DEF BatchSound
  <2> QED BY <1>1, <1>3, <1>5, <2>2, <2>4, <2>6, BatchMoves
<1>7. CASE UNCHANGED <<job, item>> /\ ~(Inst!Runs(b) /\ item[b][t] \notin Inst!ItemEnded)
  <2>1. item[b][t] \in Inst!ItemEnded BY <1>2, <1>3, <1>4, <1>7 DEF Inst!Runs, BatchSound
  <2> HIDE DEF x, y
  <2>2. BatchSound(b, y, item[b], job[b], install[b]) BY <1>2, <1>3, <1>4, <1>5, <2>1 DEF BatchSound
  <2> QED BY <1>1, <1>3, <1>5, <1>7, <2>2, JobSame, ItemSame, BatchMoves
<1> QED BY <1>6, <1>7 DEF Inst!ReflectJob
LEMMA BatchResolves == ASSUME InstallInv, NEW b \in Batch, Inst!ResolveStall(b) PROVE InstallInv'
<1> DEFINE x == batch[b]
           t == x.at
           v == IF Inst!JobIsRetrySafe(job[b][t]) THEN "FAILED" ELSE "REVIEW_REQUIRED"
           i == [item[b] EXCEPT ![t] = v]
<1>1. UNCHANGED <<install, token, script, managed, agent, stalled>> /\ installFaults' \in 0..MaxInstallFaults
      /\ UNCHANGED batch
  BY Quiet DEF Inst!ResolveStall
<1>2. BatchSound(b, x, item[b], job[b], install[b]) /\ x \in BatchRec BY BatchOf, ItemSame
<1>3. x.status = "RUNNING" /\ x.slot /\ t # NoTarget /\ item[b][t] = "INSTALLING" BY DEF Inst!ResolveStall, Inst!Runs
<1>4. t \in Target /\ b \in Inst!Row BY <1>2, <1>3 DEF BatchRec, Inst!Row
<1>5. v \in ItemStates /\ v \in {"FAILED", "REVIEW_REQUIRED"} OBVIOUS
<1>6. StillSound(job[b][t], Inst!Abandoned(job[b][t])) BY <1>4, RowOf, KeptAbandoned DEF RowSound, Inst!ResolveStall
<1>7. Grid(job') /\ \A r \in Inst!Row, u \in Target : StillSound(job[r][u], job'[r][u])
  BY <1>4, <1>6, KeptPut DEF Inst!ResolveStall
<1>8. /\ item' = [item EXCEPT ![b] = i] /\ i \in [Target -> ItemStates]
      /\ i[t] = v /\ \A u \in Target : u # t => i[u] = item[b][u]
  <2>1. item' = [item EXCEPT ![b][t] = v] BY DEF Inst!ResolveStall
  <2> HIDE DEF v
  <2> QED BY <1>4, <1>5, <2>1, ItemPut
<1>9. \A u \in Target : job[b][u].status = "COMPLETED" => job'[b][u].status = "COMPLETED"
  BY <1>4, <1>7 DEF StillSound
<1> HIDE DEF x, t, v, i
<1>10. BatchSound(b, x, i, job'[b], install[b])
  BY <1>2, <1>3, <1>4, <1>5, <1>8, <1>9 DEF BatchSound
<1> QED BY <1>1, <1>2, <1>7, <1>8, <1>10, ItemSame, BatchMoves DEF x
LEMMA BatchFinishes == ASSUME InstallInv, NEW b \in Batch, Inst!FinishBatch(b) PROVE InstallInv'
<1> DEFINE x == batch[b]
           all == {item[b][t] : t \in Target}
           st == IF all \cap {"FAILED", "REVIEW_REQUIRED"} # {} THEN "COMPLETED_WITH_ERRORS" ELSE "COMPLETED"
           y == [x EXCEPT !.slot = FALSE, !.runner = "over", !.status = st]
<1>1. UNCHANGED <<install, token, script, managed, agent, stalled, job, item>> /\ installFaults' \in 0..MaxInstallFaults
  BY Quiet DEF Inst!FinishBatch
<1>2. BatchSound(b, x, item[b], job[b], install[b]) /\ x \in BatchRec BY BatchOf, ItemSame
<1>3. x.runner = "next" BY DEF Inst!FinishBatch
<1>4. Inst!Runs(b) BY <1>2, <1>3 DEF BatchSound, Inst!Runs
<1>5. batch' = [batch EXCEPT ![b] = y] BY <1>4 DEF Inst!FinishBatch
<1>6. \A t \in Target : item[b][t] # "WAITING" BY <1>4 DEF Inst!FinishBatch
<1>7. \A t \in Target : item[b][t] \in Inst!ItemEnded \cup {"none"}
  BY <1>2, <1>3, <1>6, ItemSame DEF BatchSound
<1>8. st \in {"COMPLETED_WITH_ERRORS", "COMPLETED"}
      /\ (st = "COMPLETED" => \A t \in Target : item[b][t] \in {"COMPLETED", "none"})
  BY <1>7
<1> HIDE DEF st
<1>9. y \in BatchRec /\ y.status = st /\ y.slot = FALSE /\ y.runner = "over"
  <2> HIDE DEF x
  <2> QED BY <1>2, <1>8 DEF BatchRec
<1> HIDE DEF x, y
<1>10. BatchSound(b, y, item[b], job[b], install[b]) BY <1>2, <1>7, <1>8, <1>9 DEF BatchSound
<1> QED BY <1>1, <1>5, <1>9, <1>10, JobSame, ItemSame, BatchMoves
LEMMA BatchSwept == ASSUME InstallInv, NEW b \in Batch, Inst!SweepBatch(b) PROVE InstallInv'
BY Quiet, BatchInterrupted DEF Inst!SweepBatch
LEMMA BatchStops == ASSUME Inst!InstallAssumption, InstallInv, NEW b \in Batch, Inst!BatchDies(b) PROVE InstallInv'
<1> DEFINE x == batch[b]
           y == [x EXCEPT !.runner = "dead"]
<1>1. UNCHANGED <<install, token, script, managed, agent, stalled, job, item>> BY DEF Inst!BatchDies, Inst!targetVars
<1>2. installFaults' \in 0..MaxInstallFaults
  BY DEF Inst!BatchDies, Inst!InstallFault, InstallInv, Types, Inst!InstallAssumption
<1>3. BatchSound(b, x, item[b], job[b], install[b]) /\ x \in BatchRec BY BatchOf, ItemSame
<1>4. batch' = [batch EXCEPT ![b] = y] BY DEF Inst!BatchDies, Inst!RunnerAt
<1>5. y \in BatchRec /\ y.status = x.status /\ y.slot = x.slot /\ y.runner = "dead"
  <2> HIDE DEF x
  <2> QED BY <1>3 DEF BatchRec
<1> HIDE DEF x, y
<1>6. BatchSound(b, y, item[b], job[b], install[b]) BY <1>3, <1>5 DEF BatchSound
<1> QED BY <1>1, <1>2, <1>4, <1>5, <1>6, JobSame, ItemSame, BatchMoves
----
LEMMA InstallSteps == ASSUME Inst!InstallAssumption, InstallInv, Inst!InstallNext PROVE InstallInv'
<1>1. ASSUME NEW s \in Solo, NEW t \in Target, Inst!AskSolo(s, t) \/ Inst!AdmitSolo(s, t) \/ Inst!StartSolo(s, t) PROVE InstallInv'
  BY <1>1, AskStep, AdmitStep, StartSoloStep
<1>2. ASSUME NEW r \in Inst!Row, NEW t \in Target,
             \/ Inst!InstallStep(r, t) \/ Inst!ScriptStarts(r, t) \/ Inst!ScriptEnds(r, t) \/ Inst!Enroll(r, t)
             \/ Inst!LateHeartbeat(r, t) \/ Inst!Die(r, t) \/ Inst!Stall(r, t) \/ Inst!WakeUp(r, t)
      PROVE InstallInv'
  BY <1>2, ProcessStep, ScriptStep, EnrollStep, LateStep, DieStep, StallStep
<1>3. ASSUME NEW b \in Batch,
             \/ Inst!StartBatch(b) \/ Inst!ClaimBatch(b) \/ Inst!CheckItem(b) \/ Inst!AdmitItem(b) \/ Inst!LaunchItem(b)
             \/ Inst!ReflectJob(b) \/ Inst!FinishBatch(b) \/ Inst!ResolveStall(b) \/ Inst!SweepBatch(b) \/ Inst!BatchDies(b)
             \/ (\E t \in Target : Inst!NextItem(b, t))
      PROVE InstallInv'
  BY <1>3, BatchStarts, BatchClaimed, BatchChecks, BatchAdmits, BatchLaunches, BatchReflects,
     BatchFinishes, BatchResolves, BatchSwept, BatchStops, BatchNext
<1>4. ASSUME NEW b \in Batch, NEW targets, Inst!NewBatch(b, targets) PROVE InstallInv'
  BY <1>4, BatchNew
<1> QED BY <1>1, <1>2, <1>3, <1>4 DEF Inst!InstallNext, Inst!BatchStep, Inst!RetryBatch
LEMMA InstallKept == Inst!InstallAssumption /\ InstallInv /\ [Inst!InstallNext]_installV => InstallInv'
BY InstallSteps, Frame
LEMMA InstallInitInv == Inst!InstallAssumption /\ Inst!InstallInit => InstallInv
<1> SUFFICES ASSUME Inst!InstallAssumption, Inst!InstallInit PROVE InstallInv OBVIOUS
<1>1. Grid(job) /\ Grid(install) /\ Grid(token) /\ Grid(script)
      /\ \A r \in Inst!Row, t \in Target : job[r][t] = Inst!NoJob /\ install[r][t] = "none" /\ token[r][t] = "none"
                                     /\ script[r][t] = "none"
  BY DEF Inst!InstallInit, Grid
<1>2. IsRow(Inst!NoJob) /\ Inst!NoJob.slot = FALSE /\ Inst!NoJob.status = "none" BY DEF IsRow, Inst!NoJob
<1>3. RowsSound
  <2>1. ASSUME NEW r \in Inst!Row, NEW t \in Target
        PROVE RowSound(r, job[r][t], install[r][t], token[r][t], script[r][t], managed[t])
    BY <1>1, <1>2 DEF RowSound
  <2> QED BY <2>1 DEF RowsSound
<1>4. \A b \in Batch : batch[b] = [status |-> "none", slot |-> FALSE, at |-> NoTarget, runner |-> "none"]
                      /\ item[b] = [t \in Target |-> "none"]
  BY DEF Inst!InstallInit
<1>5. BatchesSound
  <2>1. ASSUME NEW b \in Batch PROVE BatchSound(b, batch[b], item[b], job[b], install[b])
    <3>1. b \in Inst!Row BY DEF Inst!Row
    <3> QED BY <1>1, <1>4, <3>1 DEF BatchSound
  <2> QED BY <2>1 DEF BatchesSound
<1>6. batch \in [Batch -> BatchRec] /\ item \in [Batch -> [Target -> ItemStates]]
  BY DEF Inst!InstallInit, BatchRec
<1>7. stalled \subseteq Inst!Row \X Target /\ agent \subseteq Target /\ managed \in [Target -> Inst!Row \cup {NoBatch}]
  BY DEF Inst!InstallInit
<1>8. installFaults \in 0..MaxInstallFaults BY DEF Inst!InstallInit, Inst!InstallAssumption
<1>9. Types BY <1>1, <1>6, <1>7, <1>8 DEF Types
<1> QED BY <1>3, <1>5, <1>9 DEF InstallInv
LEMMA InstallSound == Inst!InstallAssumption /\ InstallInv => Inst!InstallIsHonest /\ Inst!InstallTypeOK
<1> SUFFICES ASSUME Inst!InstallAssumption, InstallInv PROVE Inst!InstallIsHonest /\ Inst!InstallTypeOK OBVIOUS
<1>1. Inst!SafeMeansNotRun
  <2>1. ASSUME NEW r \in Inst!Row, NEW t \in Target, Inst!JobIsRetrySafe(job[r][t]), job[r][t].status \in {"FAILED", "INTERRUPTED"}
        PROVE script[r][t] \in {"none", "refused"}
    <3>1. RowSound(r, job[r][t], install[r][t], token[r][t], script[r][t], managed[t]) BY RowOf
    <3> QED BY <2>1, <3>1 DEF RowSound, Inst!JobIsRetrySafe
  <2> QED BY <2>1 DEF Inst!SafeMeansNotRun
<1>2. Inst!CompletedIsManaged
  <2>1. ASSUME NEW r \in Inst!Row, NEW t \in Target
        PROVE /\ job[r][t].status = "COMPLETED" => managed[t] = r /\ token[r][t] = "completed"
              /\ r \in Batch /\ item[r][t] = "COMPLETED" => job[r][t].status = "COMPLETED"
    BY RowOf, BatchOf DEF RowSound, BatchSound
  <2> QED BY <2>1 DEF Inst!CompletedIsManaged
<1>3. Inst!BatchTellsItems BY BatchOf DEF Inst!BatchTellsItems, BatchSound
<1>4. Inst!TokensAreSpent BY RowOf DEF Inst!TokensAreSpent, RowSound
<1>5. Inst!InstallTypeOK
  <2>1. ASSUME NEW r \in Inst!Row, NEW t \in Target
        PROVE /\ job[r][t].status \in Statuses /\ install[r][t] \in Pcs /\ token[r][t] \in Tokens
              /\ script[r][t] \in Scripts
    BY RowOf DEF RowSound, IsRow
  <2>2. \A b \in Batch : batch[b].status \in {"none", "QUEUED", "RUNNING"} \cup Inst!BatchEnded
    BY DEF InstallInv, Types, BatchRec
  <2>3. installFaults <= MaxInstallFaults BY DEF InstallInv, Types, Inst!InstallAssumption
  <2> QED BY <2>1, <2>2, <2>3 DEF Inst!InstallTypeOK, InstallInv, Types
<1> QED BY <1>1, <1>2, <1>3, <1>4, <1>5 DEF Inst!InstallIsHonest

-----------------------------------------------------------------------------
(* Remote terminals.                                                        *)

SessionRec == [status : {"none"} \cup Term!Active \cup Term!Closed, mode : {"none"} \cup Mode,
           operator : {"none", "issued", "used"}, agent : {"none", "issued", "used"},
           owner : Nat]
ConnRec == [session : Session \cup {NoSession}, role : {"operator", "agent"},
            at : {"none", "open", "consumed", "refused", "readying", "joined", "ending", "gone"}]
LinkRec == [peers : SUBSET {"operator", "agent"}, transport : BOOLEAN, ready : BOOLEAN,
            ended : BOOLEAN]
HostRec == [at : {"idle", "asking", "opening", "holding", "connected"},
            session : Session \cup {NoSession}]
ProcessState == {"none", "running", "stopped"}

LetIn == {"consumed", "refused", "readying", "joined", "ending"}
Used(x, role) == IF role = "operator" THEN session[x].operator = "used"
                 ELSE session[x].agent = "used"
BothUsed(x) == session[x].operator = "used" /\ session[x].agent = "used"

\* Rows.
RowInv ==
  /\ session \in [Session -> SessionRec]
  /\ \A x \in Session : session[x].status = "none" =>
       session[x].operator = "none" /\ session[x].agent = "none"
  /\ \A x \in Session : session[x].status = "ready" => BothUsed(x)

\* The relay.
RelayInv ==
  /\ conn \in [Conn -> ConnRec] /\ link \in [Session -> LinkRec] /\ told \subseteq Session
  /\ epoch \in Nat
  /\ \A c \in Conn : conn[c].at # "none" => conn[c].session \in Session
  /\ \A c \in Conn : conn[c].at \in LetIn => Used(conn[c].session, conn[c].role)
  /\ \A c, d \in Conn :
       /\ conn[c].at \in LetIn /\ conn[d].at \in LetIn
       /\ conn[c].session = conn[d].session /\ conn[c].role = conn[d].role
       => c = d
  /\ \A x \in Session : \A role \in link[x].peers : Used(x, role)
  /\ \A c \in Conn : conn[c].at = "readying" => BothUsed(conn[c].session)
  /\ \A x \in told : BothUsed(x)

\* The agent.
HostInv ==
  /\ host \in HostRec /\ consentFile \in Session \cup {NoSession} /\ approved \subseteq Session
  /\ process \in [Session -> ProcessState]
  /\ host.at # "idle" => host.session \in Session
  /\ consentFile # NoSession => consentFile \in approved
  /\ \A x \in Session : process[x] = "running" =>
       BothUsed(x) /\ (session[x].mode = "conpty" => x \in approved)

TerminalInv == Term!TerminalAssumption /\ RowInv /\ RelayInv /\ HostInv

-----------------------------------------------------------------------------
(* Rows are locked: what a request does to one never takes a use back.     *)

RowsKeep ==
  /\ RowInv'
  /\ \A x \in Session :
       /\ session[x].operator = "used" => session'[x].operator = "used"
       /\ session[x].agent = "used" => session'[x].agent = "used"
       /\ session[x].status # "none" => session'[x].mode = session[x].mode

LEMMA RowsStay == TerminalInv /\ UNCHANGED session => RowsKeep
BY DEF TerminalInv, RowInv, RowsKeep, BothUsed

LEMMA UsesStay == ASSUME RowsKeep, NEW x \in Session, NEW role, Used(x, role) PROVE Used(x, role)'
BY DEF RowsKeep, Used

LEMMA RelayStays ==
  ASSUME TerminalInv, RowsKeep, UNCHANGED Term!relayVars
  PROVE  RelayInv'
BY DEF TerminalInv, RelayInv, RowsKeep, Term!relayVars, Used, BothUsed, LetIn, ConnRec

LEMMA HostStays ==
  ASSUME TerminalInv, RowsKeep, UNCHANGED Term!hostVars
  PROVE  HostInv'
<1>1. \A x \in Session : BothUsed(x) => session[x].status # "none"
  BY DEF TerminalInv, RowInv, BothUsed
<1> QED
  BY <1>1 DEF TerminalInv, HostInv, RowsKeep, Term!hostVars, BothUsed

\* Shutting a row changes its status alone.
LEMMA ShutKeeps ==
  ASSUME TerminalInv, NEW x \in Session, NEW status \in Term!Closed, session' = Term!Shut(x, status)
  PROVE  RowsKeep
<1>1. /\ session' \in [Session -> SessionRec]
      /\ \A y \in Session : /\ session'[y].operator = session[y].operator
                            /\ session'[y].agent = session[y].agent
                            /\ session'[y].mode = session[y].mode
                            /\ session'[y].status = session[y].status
                                 \/ (session[y].status \in Term!Active /\ session'[y].status \in Term!Closed)
  BY DEF TerminalInv, RowInv, Term!Shut, SessionRec
<1> QED
  BY <1>1 DEF TerminalInv, RowInv, RowsKeep, BothUsed, Term!Active, Term!Closed

\* Changing a row's tickets forward, or its status for one that needs no use.
LEMMA RowKeeps ==
  ASSUME TerminalInv, NEW x \in Session, NEW r \in SessionRec, session' = [session EXCEPT ![x] = r],
         session[x].operator = "used" => r.operator = "used",
         session[x].agent = "used" => r.agent = "used",
         session[x].status # "none" => r.mode = session[x].mode,
         r.status # "none",
         r.status = "ready" => r.operator = "used" /\ r.agent = "used"
  PROVE  RowsKeep
<1>1. session' \in [Session -> SessionRec] /\ session'[x] = r
      /\ \A y \in Session \ {x} : session'[y] = session[y]
  BY DEF TerminalInv, RowInv
<1> QED
  BY <1>1 DEF TerminalInv, RowInv, RowsKeep, BothUsed

-----------------------------------------------------------------------------
(* The server's requests.                                                  *)

LEMMA TerminalInitInv == Term!TerminalAssumption /\ Term!TerminalInit => TerminalInv
<1> SUFFICES ASSUME Term!TerminalAssumption, Term!TerminalInit PROVE RowInv /\ RelayInv /\ HostInv
  BY DEF TerminalInv
<1>1. RowInv
  BY DEF Term!TerminalInit, RowInv, SessionRec, Term!NoRow, BothUsed
<1>2. RelayInv
  BY DEF Term!TerminalInit, RelayInv, ConnRec, LinkRec, Term!NoLink, LetIn
<1>3. HostInv
  BY DEF Term!TerminalInit, HostInv, HostRec, ProcessState, Term!Idle
<1> QED
  BY <1>1, <1>2, <1>3

LEMMA CreateKeeps ==
  ASSUME TerminalInv, NEW x \in Session, NEW mode \in Mode, Term!CreateSession(x, mode)
  PROVE  RowsKeep
<1>1. session[x].status = "none"
  BY DEF Term!CreateSession
<1>2. /\ session' \in [Session -> SessionRec]
      /\ session'[x].status \in {"awaiting_consent", "authorized"} /\ session'[x].agent = "none"
      /\ session'[x].operator \in {"none", "issued"}
      /\ \A y \in Session \ {x} :
           /\ session'[y].operator = session[y].operator /\ session'[y].agent = session[y].agent
           /\ session'[y].mode = session[y].mode
           /\ session'[y].status = session[y].status
                \/ (session[y].status \in Term!Active /\ session'[y].status = "expired")
  <2>1. \A y \in Session \ {x} :
          session'[y] \in {session[y], [session[y] EXCEPT !.status = "expired"]}
          /\ (session'[y] # session[y] => session[y].status \in Term!Active)
    BY DEF Term!CreateSession, Term!Live
  <2>2. \A y \in Session : session[y] \in SessionRec
    BY DEF TerminalInv, RowInv
  <2>3. session'[x] = [Term!NoRow EXCEPT !.mode = mode,
                        !.status = IF mode = "conpty" THEN "awaiting_consent" ELSE "authorized",
                        !.operator = IF mode = "conpty" THEN "none" ELSE "issued"]
    BY DEF Term!CreateSession
  <2>4. session'[x] \in SessionRec /\ session'[x].status \in {"awaiting_consent", "authorized"}
        /\ session'[x].agent = "none" /\ session'[x].operator \in {"none", "issued"}
    <3>1. Term!NoRow \in SessionRec /\ Term!NoRow.agent = "none"
      BY DEF Term!NoRow, SessionRec
    <3> QED
      BY <2>3, <3>1 DEF SessionRec, Term!Active
  <2>5. \A y \in Session \ {x} :
           /\ session'[y] \in SessionRec
           /\ session'[y].operator = session[y].operator /\ session'[y].agent = session[y].agent
           /\ session'[y].mode = session[y].mode
           /\ session'[y].status = session[y].status
                \/ (session[y].status \in Term!Active /\ session'[y].status = "expired")
    BY <2>1, <2>2 DEF SessionRec, Term!Closed
  <2>6. session' = [y \in Session |-> session'[y]]
    BY DEF Term!CreateSession
  <2> QED
    BY <2>4, <2>5, <2>6
<1> QED
  BY <1>1, <1>2 DEF TerminalInv, RowInv, RowsKeep, BothUsed, Term!Active

\* What remains of the rows when neither the relay nor the agent moves.
LEMMA RowSteps ==
  ASSUME TerminalInv, NEW x \in Session,
         \/ \E mode \in Mode : Term!CreateSession(x, mode)
         \/ Term!Void(x) \/ Term!Cancel(x) \/ Term!ShowStatus(x) \/ Term!IssueOperatorTicket(x)
  PROVE  TerminalInv'
<1>1. UNCHANGED <<Term!relayVars, Term!hostVars>>
  BY DEF Term!CreateSession, Term!Void, Term!Cancel, Term!ShowStatus, Term!IssueOperatorTicket
<1>2. CASE \E mode \in Mode : Term!CreateSession(x, mode)
  BY <1>1, <1>2, CreateKeeps, RelayStays, HostStays DEF TerminalInv, RowsKeep
<1>3. CASE Term!Void(x)
  BY <1>1, <1>3, RowsStay, RelayStays, HostStays DEF TerminalInv, RowsKeep, Term!Void
<1>4. CASE Term!Cancel(x) \/ Term!ShowStatus(x)
  <2>1. RowsKeep
    BY <1>4, ShutKeeps DEF Term!Cancel, Term!ShowStatus, Term!Closed
  <2> QED
    BY <1>1, <2>1, RelayStays, HostStays DEF TerminalInv, RowsKeep
<1>5. CASE Term!IssueOperatorTicket(x)
  <2>1. session[x] \in SessionRec /\ session[x].status \in {"authorized", "connecting"}
        /\ session[x].operator = "none"
        /\ session' = [session EXCEPT ![x] = [session[x] EXCEPT !.operator = "issued"]]
    BY <1>5 DEF Term!IssueOperatorTicket, TerminalInv, RowInv
  <2> DEFINE r == [session[x] EXCEPT !.operator = "issued"]
  <2>2. r \in SessionRec /\ r.agent = session[x].agent /\ r.status = session[x].status
        /\ r.mode = session[x].mode
    BY <2>1 DEF SessionRec
  <2> HIDE DEF r
  <2>3. RowsKeep
    BY <2>1, <2>2, RowKeeps DEF r
  <2> QED
    BY <1>1, <2>3, RelayStays, HostStays DEF TerminalInv, RowsKeep
<1> QED
  BY <1>2, <1>3, <1>4, <1>5

-----------------------------------------------------------------------------
(* The agent's loop.                                                       *)

LEMMA PollStep == ASSUME TerminalInv, NEW x \in Session, Term!Poll(x) PROVE TerminalInv'
<1>1. UNCHANGED <<Term!relayVars, process, approved>> /\ session[x].status # "none"
      /\ session[x] \in SessionRec /\ session[x].agent = "none"
  BY DEF Term!Poll, Term!ValidSession, Term!Live, Term!Active, TerminalInv, RowInv
<1>2. RowsKeep
  <2>1. CASE UNCHANGED session
    BY <2>1, RowsStay
  <2>2. CASE session' = [session EXCEPT ![x].agent = "issued"]
    <3> DEFINE r == [session[x] EXCEPT !.agent = "issued"]
    <3>1. r \in SessionRec /\ r.operator = session[x].operator /\ r.status = session[x].status
          /\ r.mode = session[x].mode
      BY <1>1 DEF SessionRec
    <3>2. session' = [session EXCEPT ![x] = r]
      BY <2>2
    <3>3. r.status # "ready"
      BY <1>1, <3>1 DEF TerminalInv, RowInv, BothUsed
    <3> HIDE DEF r
    <3> QED
      BY <1>1, <3>1, <3>2, <3>3, RowKeeps
  <2> QED
    BY <2>1, <2>2 DEF Term!Poll
<1>3. RelayInv'
  BY <1>1, <1>2, RelayStays
<1>4. host' \in HostRec /\ (host'.at # "idle" => host'.session \in Session)
      /\ consentFile' \in {consentFile, NoSession}
  BY DEF Term!Poll, Term!Rest, Term!Idle, HostRec
<1>5. HostInv'
  <2>1. \A y \in Session : BothUsed(y) => session[y].status # "none"
    BY DEF TerminalInv, RowInv, BothUsed
  <2> QED
    BY <1>1, <1>2, <1>4, <2>1 DEF TerminalInv, HostInv, RowsKeep, BothUsed
<1> QED
  BY <1>2, <1>3, <1>5 DEF TerminalInv, RowsKeep

LEMMA PostStep ==
  ASSUME TerminalInv, NEW answer \in {"approved", "denied", "expired"}, Term!PostConsent(answer)
  PROVE  TerminalInv'
<1> DEFINE x == host.session
<1>1. x \in Session /\ UNCHANGED <<Term!relayVars, process, approved>>
  BY DEF Term!PostConsent, TerminalInv, HostInv
<1>2. session[x] \in SessionRec
  BY <1>1 DEF TerminalInv, RowInv
<1>3. session' = Term!Consented(x, answer) => RowsKeep
  <2> SUFFICES ASSUME session' = Term!Consented(x, answer) PROVE RowsKeep
    OBVIOUS
  <2>1. CASE session' = session
    BY <2>1, RowsStay
  <2>2. CASE \E status \in Term!Closed : session' = Term!Shut(x, status)
    BY <1>1, <2>2, ShutKeeps
  <2>3. CASE /\ session[x].status = "awaiting_consent"
             /\ session' = [session EXCEPT ![x].status = "authorized"]
    <3> DEFINE r == [session[x] EXCEPT !.status = "authorized"]
    <3>1. r \in SessionRec /\ r.operator = session[x].operator /\ r.agent = session[x].agent
          /\ r.mode = session[x].mode /\ r.status = "authorized"
      BY <1>2 DEF SessionRec, Term!Active
    <3>2. session' = [session EXCEPT ![x] = r]
      BY <2>3
    <3> HIDE DEF r, x
    <3> QED
      BY <1>1, <3>1, <3>2, RowKeeps
  <2> QED
    BY <2>1, <2>2, <2>3 DEF Term!Consented, Term!Closed
<1>4. RowsKeep
  BY <1>3, RowsStay DEF Term!PostConsent
<1>5. host' \in HostRec /\ (host'.at # "idle" => host'.session \in Session)
      /\ consentFile' \in {consentFile, NoSession}
  BY <1>1 DEF Term!PostConsent, Term!Rest, Term!Idle, HostRec, TerminalInv, HostInv
<1>6. HostInv'
  <2>1. \A y \in Session : BothUsed(y) => session[y].status # "none"
    BY DEF TerminalInv, RowInv, BothUsed
  <2> QED
    BY <1>1, <1>4, <1>5, <2>1 DEF TerminalInv, HostInv, RowsKeep, BothUsed
<1>7. RelayInv'
  BY <1>1, <1>4, RelayStays
<1> QED
  BY <1>4, <1>6, <1>7 DEF TerminalInv, RowsKeep

LEMMA HostSteps ==
  ASSUME TerminalInv,
         Term!PollNothing \/ Term!UserApproves \/ Term!ConsentGone \/ Term!StartProcess \/ Term!Disconnect
  PROVE  TerminalInv'
<1>1. UNCHANGED <<session, Term!relayVars>>
  BY DEF Term!PollNothing, Term!UserApproves, Term!ConsentGone, Term!StartProcess, Term!Disconnect, Term!rowVars
<1>2. RowsKeep
  BY <1>1, RowsStay
<1>3. HostInv'
  <2> USE <1>1 DEF TerminalInv, HostInv, BothUsed, Term!Rest, Term!Idle, HostRec
  <2>1. CASE Term!PollNothing
    BY <2>1 DEF Term!PollNothing
  <2>2. CASE Term!UserApproves
    BY <2>2 DEF Term!UserApproves
  <2>3. CASE Term!ConsentGone
    BY <2>3 DEF Term!ConsentGone
  <2>4. CASE Term!StartProcess
    <3> DEFINE x == host.session
    <3>1. x \in Session /\ x \in told /\ (session[x].mode = "conpty" => consentFile = x)
          /\ process' = [process EXCEPT ![x] = "running"]
          /\ UNCHANGED <<host, consentFile, approved>>
      BY <2>4 DEF Term!StartProcess
    <3>2. BothUsed(x) /\ (session[x].mode = "conpty" => x \in approved)
      BY <3>1 DEF RelayInv, Term!TerminalAssumption
    <3> HIDE DEF x
    <3> QED
      BY <3>1, <3>2 DEF ProcessState
  <2>5. CASE Term!Disconnect
    BY <2>5 DEF Term!Disconnect, ProcessState
  <2> QED
    BY <2>1, <2>2, <2>3, <2>4, <2>5
<1> QED
  BY <1>1, <1>2, <1>3, RelayStays DEF TerminalInv, RowsKeep

-----------------------------------------------------------------------------
(* The relay.                                                              *)

LEMMA ConnStep ==
  ASSUME TerminalInv, NEW c \in Conn, NEW r \in ConnRec, conn' = [conn EXCEPT ![c] = r]
  PROVE  /\ conn' \in [Conn -> ConnRec] /\ conn'[c] = r
         /\ \A d \in Conn \ {c} : conn'[d] = conn[d]
BY DEF TerminalInv, RelayInv

LEMMA GoesStep ==
  ASSUME TerminalInv, NEW c \in Conn, Term!Goes(c, "gone") \/ Term!Goes(c, "ending") \/ Term!Goes(c, "refused")
           \/ Term!Goes(c, "joined") \/ Term!Goes(c, "readying") \/ Term!Goes(c, "consumed")
  PROVE  /\ conn' \in [Conn -> ConnRec]
         /\ conn'[c].session = conn[c].session /\ conn'[c].role = conn[c].role
         /\ \A d \in Conn \ {c} : conn'[d] = conn[d]
BY DEF TerminalInv, RelayInv, Term!Goes, ConnRec

\* A connection that moves on within what its ticket let in, or leaves.
LEMMA ConnMoves ==
  ASSUME TerminalInv, RowsKeep, NEW c \in Conn,
         conn[c].at \in LetIn \/ conn'[c].at \notin LetIn,
         conn[c].at # "none", conn' \in [Conn -> ConnRec],
         conn'[c].session = conn[c].session, conn'[c].role = conn[c].role,
         \A d \in Conn \ {c} : conn'[d] = conn[d],
         conn'[c].at = "readying" => BothUsed(conn[c].session),
         link' \in [Session -> LinkRec],
         \A x \in Session : \A role \in link'[x].peers : Used(x, role),
         told' \subseteq Session, \A x \in told' : BothUsed(x), epoch' \in Nat
  PROVE  RelayInv'
<1>1. \A x \in Session : BothUsed(x) => BothUsed(x)'
  BY DEF RowsKeep, BothUsed
<1>2. \A x \in Session, role \in {"operator", "agent"} : Used(x, role) => Used(x, role)'
  BY UsesStay
<1>3. \A x \in Session : link'[x].peers \subseteq {"operator", "agent"}
  BY DEF LinkRec
<1>4. \A d \in Conn : conn[d].role \in {"operator", "agent"} /\ conn'[d].role \in {"operator", "agent"}
  BY DEF TerminalInv, RelayInv, ConnRec
<1>5. \A d \in Conn : conn'[d].at # "none" => conn'[d].session \in Session
  BY DEF TerminalInv, RelayInv
<1>6. \A d \in Conn : conn'[d].at \in LetIn =>
         /\ conn[d].at \in LetIn /\ conn'[d].session = conn[d].session /\ conn'[d].role = conn[d].role
  BY DEF TerminalInv, RelayInv
<1>7. \A d \in Conn : conn'[d].at \in LetIn => Used(conn[d].session, conn[d].role)'
  <2> SUFFICES ASSUME NEW d \in Conn, conn'[d].at \in LetIn
               PROVE  Used(conn[d].session, conn[d].role)'
    OBVIOUS
  <2>1. Used(conn[d].session, conn[d].role) /\ conn[d].session \in Session
    BY <1>6 DEF TerminalInv, RelayInv, LetIn
  <2> QED
    BY <1>2, <1>4, <1>6, <2>1
<1>8. \A d \in Conn : conn'[d].at = "readying" => BothUsed(conn[d].session)'
  BY <1>1, <1>5 DEF TerminalInv, RelayInv, LetIn
<1>9. \A d, e \in Conn :
       /\ conn'[d].at \in LetIn /\ conn'[e].at \in LetIn
       /\ conn'[d].session = conn'[e].session /\ conn'[d].role = conn'[e].role
       => d = e
  BY <1>6 DEF TerminalInv, RelayInv
<1>10. (\A x \in Session : \A role \in link[x].peers : Used(x, role))'
  BY <1>2, <1>3
<1>11. (\A x \in told : BothUsed(x))'
  BY <1>1
<1> QED
  BY <1>5, <1>7, <1>8, <1>9, <1>10, <1>11 DEF RelayInv

\* The peers of a link, unchanged, stay the ones it let in.
LEMMA LinkUnchanged ==
  TerminalInv => /\ link \in [Session -> LinkRec] /\ told \subseteq Session /\ epoch \in Nat
                 /\ \A x \in Session : \A role \in link[x].peers : Used(x, role)
                 /\ \A x \in told : BothUsed(x)
BY DEF TerminalInv, RelayInv

LEMMA ConnectSteps ==
  ASSUME TerminalInv, NEW c \in Conn, (\E x \in Session : Term!OperatorConnects(c, x)) \/ Term!AgentConnects(c)
  PROVE  TerminalInv'
<1>1. PICK x \in Session, role \in {"operator", "agent"} :
        conn' = [conn EXCEPT ![c] = [session |-> x, role |-> role, at |-> "open"]]
  BY DEF Term!OperatorConnects, Term!AgentConnects, TerminalInv, HostInv
<1>2. /\ conn' \in [Conn -> ConnRec] /\ conn'[c] = [session |-> x, role |-> role, at |-> "open"]
      /\ \A d \in Conn \ {c} : conn'[d] = conn[d]
  <2>1. [session |-> x, role |-> role, at |-> "open"] \in ConnRec
    BY DEF ConnRec
  <2> QED
    BY <1>1, <2>1, ConnStep
<1>3. UNCHANGED <<session, link, told, epoch, consentFile, process, approved>>
  BY DEF Term!OperatorConnects, Term!AgentConnects, Term!rowVars, Term!hostVars
<1>4. RowsKeep
  BY <1>3, RowsStay
<1>5. RelayInv'
  BY <1>2, <1>3 DEF TerminalInv, RelayInv, Used, BothUsed, LetIn
<1>6. host' \in HostRec /\ (host'.at # "idle" => host'.session \in Session)
  BY DEF Term!OperatorConnects, Term!AgentConnects, Term!hostVars, TerminalInv, HostInv, HostRec
<1>7. HostInv'
  BY <1>3, <1>6 DEF TerminalInv, HostInv, BothUsed
<1> QED
  BY <1>4, <1>5, <1>7 DEF TerminalInv, RowsKeep

LEMMA ConsumeStep == ASSUME TerminalInv, NEW c \in Conn, Term!ConsumeTicket(c) PROVE TerminalInv'
<1> DEFINE x == conn[c].session
           role == conn[c].role
           r == IF role = "operator"
                THEN [session[x] EXCEPT !.operator = "used", !.owner = epoch, !.status = "connecting"]
                ELSE [session[x] EXCEPT !.agent = "used", !.owner = epoch, !.status = "connecting"]
<1>1. /\ conn[c].at = "open" /\ x \in Session /\ role \in {"operator", "agent"}
      /\ session[x] \in SessionRec /\ epoch \in Nat /\ session[x].status \in Term!Active
      /\ UNCHANGED <<link, told, epoch, Term!hostVars>>
      /\ Term!Goes(c, "consumed") \/ Term!Goes(c, "gone")
  BY DEF Term!ConsumeTicket, Term!Is, Term!MayConsume, Term!ValidSession, Term!Live, TerminalInv, RelayInv, RowInv,
    ConnRec
<1>2. session' = [session EXCEPT ![x] = r]
  BY DEF Term!ConsumeTicket
<1>3. ~Used(x, role)
  BY <1>1 DEF Term!ConsumeTicket, Term!MayConsume, Used
<1>4. /\ r \in SessionRec /\ r.mode = session[x].mode /\ r.status = "connecting"
      /\ r.operator = IF role = "operator" THEN "used" ELSE session[x].operator
      /\ r.agent = IF role = "operator" THEN session[x].agent ELSE "used"
  BY <1>1 DEF SessionRec, Term!Active
<1>5. RowsKeep
  <2> HIDE DEF r, x
  <2> QED
    BY <1>1, <1>2, <1>4, RowKeeps
<1>6. session'[x] = r
  BY <1>1, <1>2 DEF TerminalInv, RowInv
<1>7. /\ conn' \in [Conn -> ConnRec] /\ conn'[c].session = x /\ conn'[c].role = role
      /\ \A d \in Conn \ {c} : conn'[d] = conn[d]
  BY <1>1, GoesStep
<1>8. conn'[c].at \in {"consumed", "gone"}
  BY <1>1 DEF Term!Goes, TerminalInv, RelayInv, ConnRec
<1>9. Used(conn[c].session, conn[c].role)'
  BY <1>4, <1>6, <1>7 DEF Used
<1>10. \A y \in Session, p \in {"operator", "agent"} : Used(y, p) => Used(y, p)'
  BY <1>5, UsesStay
<1>11. \A y \in Session : BothUsed(y) => BothUsed(y)'
  BY <1>5 DEF RowsKeep, BothUsed
<1>12. \A d \in Conn : d # c /\ conn[d].at \in LetIn =>
          ~(conn[d].session = x /\ conn[d].role = role)
  BY <1>3 DEF TerminalInv, RelayInv
<1>13. RelayInv'
  <2> HIDE DEF r, x, role
  <2>1. \A d \in Conn : conn'[d].at # "none" => conn'[d].session \in Session
    BY <1>1, <1>7 DEF TerminalInv, RelayInv
  <2>2. \A d \in Conn : conn'[d].at \in LetIn => Used(conn[d].session, conn[d].role)'
    <3> SUFFICES ASSUME NEW d \in Conn, d # c, conn[d].at \in LetIn
                 PROVE  Used(conn[d].session, conn[d].role)'
      BY <1>7, <1>9
    <3>1. Used(conn[d].session, conn[d].role) /\ conn[d].session \in Session
          /\ conn[d].role \in {"operator", "agent"}
      BY DEF TerminalInv, RelayInv, LetIn, ConnRec
    <3> QED
      BY <1>7, <1>10, <3>1
  <2>3. \A d, e \in Conn :
         /\ conn'[d].at \in LetIn /\ conn'[e].at \in LetIn
         /\ conn'[d].session = conn'[e].session /\ conn'[d].role = conn'[e].role
         => d = e
    BY <1>7, <1>12 DEF TerminalInv, RelayInv
  <2>4. (\A y \in Session : \A p \in link[y].peers : Used(y, p))'
    <3>1. \A y \in Session : link[y].peers \subseteq {"operator", "agent"}
      BY DEF TerminalInv, RelayInv, LinkRec
    <3> QED
      BY <1>1, <1>10, <3>1, LinkUnchanged
  <2>5. \A d \in Conn : conn'[d].at = "readying" => BothUsed(conn[d].session)'
    <3> SUFFICES ASSUME NEW d \in Conn, d # c, conn[d].at = "readying"
                 PROVE  BothUsed(conn[d].session)'
      BY <1>7, <1>8
    <3> QED
      BY <1>7, <1>11 DEF TerminalInv, RelayInv
  <2>6. (\A y \in told : BothUsed(y))'
    BY <1>1, <1>11, LinkUnchanged
  <2> QED
    BY <1>1, <1>7, <2>1, <2>2, <2>3, <2>4, <2>5, <2>6, LinkUnchanged DEF RelayInv
<1>14. HostInv'
  BY <1>1, <1>5, HostStays
<1> QED
  BY <1>5, <1>13, <1>14 DEF TerminalInv, RowsKeep

LEMMA RejectStep == ASSUME TerminalInv, NEW c \in Conn, Term!Reject(c) PROVE TerminalInv'
<1>1. /\ conn[c].at = "open" /\ Term!Goes(c, "gone") /\ UNCHANGED <<session, link, told, epoch, Term!hostVars>>
  BY DEF Term!Reject, Term!Is, Term!rowVars
<1>2. RowsKeep
  BY <1>1, RowsStay
<1>3. conn'[c].at = "gone"
  BY <1>1 DEF Term!Goes, TerminalInv, RelayInv, ConnRec
<1>4. RelayInv'
  BY <1>1, <1>2, <1>3, GoesStep, LinkUnchanged, ConnMoves DEF LetIn
<1>5. HostInv'
  BY <1>1, <1>2, HostStays
<1> QED
  BY <1>2, <1>4, <1>5 DEF TerminalInv, RowsKeep

LEMMA AttachStep == ASSUME TerminalInv, NEW c \in Conn, Term!Attach(c) PROVE TerminalInv'
<1> DEFINE x == conn[c].session
           new == [link[x] EXCEPT !.peers = @ \cup {conn[c].role}]
<1>1. /\ conn[c].at = "consumed" /\ x \in Session /\ conn[c].role \in {"operator", "agent"}
      /\ Used(x, conn[c].role) /\ UNCHANGED <<session, epoch, Term!hostVars>>
  BY DEF Term!Attach, Term!Is, Term!rowVars, TerminalInv, RelayInv, ConnRec, LetIn
<1>2. RowsKeep
  BY <1>1, RowsStay
<1>3. link[x] \in LinkRec /\ \A role \in link[x].peers : Used(x, role)
  BY <1>1, LinkUnchanged
<1>4. new \in LinkRec /\ new.peers = link[x].peers \cup {conn[c].role}
  BY <1>1, <1>3 DEF LinkRec
<1>5. \A role \in new.peers : Used(x, role)
  BY <1>1, <1>3, <1>4
<1>6. Term!Both(new) => BothUsed(x)
  BY <1>5 DEF Term!Both, Used, BothUsed
<1>7. ASSUME Term!Goes(c, "refused"), UNCHANGED <<link, told>> PROVE RelayInv'
  <2>1. conn'[c].at = "refused"
    BY <1>7 DEF Term!Goes, TerminalInv, RelayInv, ConnRec
  <2>2. /\ conn' \in [Conn -> ConnRec]
        /\ conn'[c].session = conn[c].session /\ conn'[c].role = conn[c].role
        /\ \A d \in Conn \ {c} : conn'[d] = conn[d]
    BY <1>7, GoesStep
  <2> HIDE DEF new, x
  <2> QED
    BY <1>1, <1>2, <1>7, <2>1, <2>2, LinkUnchanged, ConnMoves DEF LetIn
<1>8. ASSUME link' = [link EXCEPT ![x] = [new EXCEPT !.transport = Term!Both(new)]],
             told' = IF Term!Both(new) THEN told \cup {x} ELSE told,
             Term!Goes(c, IF Term!Both(new) /\ session[x].mode = "synthetic" THEN "readying" ELSE "joined")
      PROVE  RelayInv'
  <2> DEFINE l == [new EXCEPT !.transport = Term!Both(new)]
  <2>1. l \in LinkRec /\ l.peers = new.peers
    BY <1>4 DEF LinkRec, Term!Both
  <2>2. /\ link' \in [Session -> LinkRec]
        /\ \A y \in Session : \A role \in link'[y].peers : Used(y, role)
    <3> HIDE DEF new, l, x
    <3>1. link' = [link EXCEPT ![x] = l]
      BY <1>8 DEF l
    <3> QED
      BY <1>1, <1>5, <2>1, <3>1, LinkUnchanged
  <2>3. told' \subseteq Session /\ \A y \in told' : BothUsed(y)
    BY <1>1, <1>6, <1>8, LinkUnchanged
  <2>4. Term!Goes(c, "readying") \/ Term!Goes(c, "joined")
    BY <1>8
  <2>5. conn'[c].at = "readying" => BothUsed(x)
    <3>1. conn'[c].at = "readying" => Term!Both(new)
      BY <1>8 DEF Term!Goes, TerminalInv, RelayInv, ConnRec
    <3> QED
      BY <1>6, <3>1
  <2>6. /\ conn' \in [Conn -> ConnRec]
        /\ conn'[c].session = conn[c].session /\ conn'[c].role = conn[c].role
        /\ \A d \in Conn \ {c} : conn'[d] = conn[d]
    BY <2>4, GoesStep
  <2>7. conn[c].at \in LetIn /\ conn[c].at # "none" /\ epoch' \in Nat
    BY <1>1, LinkUnchanged DEF LetIn
  <2>8. conn'[c].at = "readying" => BothUsed(conn[c].session)
    BY <2>5
  <2> HIDE DEF new, l, x
  <2> QED
    BY <1>2, <2>2, <2>3, <2>6, <2>7, <2>8, ConnMoves
<1>9. RelayInv'
  <2>1. \/ Term!Goes(c, "refused") /\ UNCHANGED <<link, told>>
        \/ /\ link' = [link EXCEPT ![x] = [new EXCEPT !.transport = Term!Both(new)]]
           /\ told' = IF Term!Both(new) THEN told \cup {x} ELSE told
           /\ Term!Goes(c, IF Term!Both(new) /\ session[x].mode = "synthetic" THEN "readying" ELSE "joined")
    BY DEF Term!Attach
  <2> QED
    BY <1>7, <1>8, <2>1
<1>10. HostInv'
  BY <1>1, <1>2, HostStays
<1> QED
  BY <1>2, <1>9, <1>10 DEF TerminalInv, RowsKeep

LEMMA MarkReadyStep == ASSUME TerminalInv, NEW c \in Conn, Term!MarkReady(c) PROVE TerminalInv'
<1> DEFINE x == conn[c].session
<1>1. /\ conn[c].at \in {"readying", "joined"} /\ x \in Session /\ BothUsed(x)
      /\ UNCHANGED <<told, epoch, Term!hostVars>> /\ session[x] \in SessionRec /\ link[x] \in LinkRec
  BY DEF Term!MarkReady, Term!Is, TerminalInv, RelayInv, HostInv, RowInv
<1>2. RowsKeep
  <2>1. CASE UNCHANGED session
    BY <2>1, RowsStay
  <2>2. CASE session' = [session EXCEPT ![x].status = "ready"]
    <3> DEFINE r == [session[x] EXCEPT !.status = "ready"]
    <3>1. r \in SessionRec /\ r.operator = "used" /\ r.agent = "used"
          /\ r.mode = session[x].mode /\ r.status = "ready"
      BY <1>1 DEF SessionRec, Term!Active, BothUsed
    <3>2. session' = [session EXCEPT ![x] = r]
      BY <2>2
    <3> HIDE DEF r, x
    <3> QED
      BY <1>1, <3>1, <3>2, RowKeeps
  <2> QED
    BY <2>1, <2>2 DEF Term!MarkReady
<1>3. \E l \in LinkRec : link' = [link EXCEPT ![x] = l] /\ l.peers = link[x].peers
  <2>1. [link[x] EXCEPT !.ready = TRUE] \in LinkRec /\ [link[x] EXCEPT !.ended = TRUE] \in LinkRec
        /\ [link[x] EXCEPT !.ready = TRUE].peers = link[x].peers
        /\ [link[x] EXCEPT !.ended = TRUE].peers = link[x].peers
    BY <1>1 DEF LinkRec
  <2> QED
    BY <2>1 DEF Term!MarkReady
<1>4. /\ link' \in [Session -> LinkRec]
      /\ \A y \in Session : \A role \in link'[y].peers : Used(y, role)
  BY <1>1, <1>3, LinkUnchanged
<1>5. conn'[c].at \in {"joined", "ending"} /\ (Term!Goes(c, "joined") \/ Term!Goes(c, "ending"))
  BY DEF Term!MarkReady, Term!Goes, TerminalInv, RelayInv, ConnRec
<1>6. RelayInv'
  BY <1>1, <1>2, <1>4, <1>5, GoesStep, LinkUnchanged, ConnMoves DEF LetIn
<1>7. HostInv'
  BY <1>1, <1>2, HostStays
<1> QED
  BY <1>2, <1>6, <1>7 DEF TerminalInv, RowsKeep

LEMMA LeaveStep == ASSUME TerminalInv, NEW c \in Conn, Term!Leave(c) PROVE TerminalInv'
<1> DEFINE x == conn[c].session
<1>1. /\ conn[c].at \in {"readying", "joined"} /\ x \in Session
      /\ UNCHANGED <<session, told, epoch, Term!hostVars>> /\ link[x] \in LinkRec
  BY DEF Term!Leave, Term!rowVars, TerminalInv, RelayInv
<1>2. RowsKeep
  BY <1>1, RowsStay
<1>3. \E l \in LinkRec : link' = [link EXCEPT ![x] = l] /\ l.peers = link[x].peers
  <2>1. [link[x] EXCEPT !.ended = TRUE] \in LinkRec
        /\ [link[x] EXCEPT !.ended = TRUE].peers = link[x].peers
    BY <1>1 DEF LinkRec
  <2> QED
    BY <2>1 DEF Term!Leave
<1>4. /\ link' \in [Session -> LinkRec]
      /\ \A y \in Session : \A role \in link'[y].peers : Used(y, role)
  BY <1>1, <1>3, LinkUnchanged
<1>5. conn'[c].at = "ending" /\ Term!Goes(c, "ending")
  BY DEF Term!Leave, Term!Goes, TerminalInv, RelayInv, ConnRec
<1>6. RelayInv'
  BY <1>1, <1>2, <1>4, <1>5, GoesStep, LinkUnchanged, ConnMoves DEF LetIn
<1>7. HostInv'
  BY <1>1, <1>2, HostStays
<1> QED
  BY <1>2, <1>6, <1>7 DEF TerminalInv, RowsKeep

LEMMA CloseStep == ASSUME TerminalInv, NEW c \in Conn, Term!Finish(c) PROVE TerminalInv'
<1> DEFINE x == conn[c].session
           rest == link[x].peers \ {conn[c].role}
<1>1. /\ conn[c].at \in {"ending", "refused"} /\ x \in Session /\ Term!Goes(c, "gone")
      /\ UNCHANGED <<told, epoch, Term!hostVars>> /\ link[x] \in LinkRec
  BY DEF Term!Finish, TerminalInv, RelayInv
<1>2. RowsKeep
  BY <1>1, RowsStay, ShutKeeps DEF Term!Finish, Term!Closed
<1>3. Term!NoLink \in LinkRec /\ Term!NoLink.peers = {} /\ [link[x] EXCEPT !.peers = rest] \in LinkRec
      /\ [link[x] EXCEPT !.peers = rest].peers \subseteq link[x].peers
  BY <1>1 DEF Term!NoLink, LinkRec
<1>4. link' = link \/ \E l \in LinkRec : link' = [link EXCEPT ![x] = l] /\ l.peers \subseteq link[x].peers
  BY <1>3 DEF Term!Finish
<1>5. /\ link' \in [Session -> LinkRec]
      /\ \A y \in Session : \A role \in link'[y].peers : Used(y, role)
  <2> HIDE DEF rest
  <2> QED
    BY <1>1, <1>4, LinkUnchanged
<1>6. conn'[c].at = "gone"
  BY <1>1 DEF Term!Goes, TerminalInv, RelayInv, ConnRec
<1>7. RelayInv'
  BY <1>1, <1>2, <1>5, <1>6, GoesStep, LinkUnchanged, ConnMoves DEF LetIn
<1>8. HostInv'
  BY <1>1, <1>2, HostStays
<1> QED
  BY <1>2, <1>7, <1>8 DEF TerminalInv, RowsKeep

LEMMA RestartStep == ASSUME TerminalInv, Term!ServerRestarts PROVE TerminalInv'
<1>1. UNCHANGED <<session, told, Term!hostVars>>
  BY DEF Term!ServerRestarts, Term!rowVars
<1>2. RowsKeep
  BY <1>1, RowsStay
<1>3. conn' \in [Conn -> ConnRec] /\ \A c \in Conn :
        conn'[c].at \in {"none", "gone"}
        /\ (conn'[c].at # "none" => conn[c].at # "none" /\ conn'[c].session = conn[c].session)
  BY DEF Term!ServerRestarts, Term!Is, TerminalInv, RelayInv, ConnRec
<1>4. link' \in [Session -> LinkRec] /\ \A x \in Session : link'[x].peers = {}
  BY DEF Term!ServerRestarts, Term!NoLink, LinkRec
<1>5. epoch' \in Nat
  BY DEF Term!ServerRestarts, TerminalInv, RelayInv
<1>6. RelayInv'
  BY <1>1, <1>3, <1>4, <1>5 DEF TerminalInv, RelayInv, LetIn, BothUsed
<1>7. HostInv'
  BY <1>1, <1>2, HostStays
<1> QED
  BY <1>2, <1>6, <1>7 DEF TerminalInv, RowsKeep

LEMMA StutterStep == ASSUME TerminalInv, UNCHANGED terminalV PROVE TerminalInv'
<1>1. UNCHANGED <<session, Term!relayVars, Term!hostVars>>
  BY DEF terminalV, Term!rowVars, Term!relayVars, Term!hostVars
<1> QED
  BY <1>1, RowsStay, RelayStays, HostStays DEF TerminalInv, RowsKeep

LEMMA TerminalStep == ASSUME TerminalInv, [Term!TerminalNext]_terminalV PROVE TerminalInv'
BY RowSteps, PollStep, PostStep, HostSteps, ConnectSteps, ConsumeStep, RejectStep, AttachStep,
  MarkReadyStep, LeaveStep, CloseStep, RestartStep, StutterStep DEF Term!TerminalNext

-----------------------------------------------------------------------------
(* What is bounded, what is closed.                                        *)

\* Every restart of the server is a fault.
TerminalCounts ==
  /\ void \subseteq Session /\ terminalFaults \in 0..MaxTerminalFaults
  /\ epoch \in 1..1 + terminalFaults

LEMMA CountsInit == Term!TerminalAssumption /\ Term!TerminalInit => TerminalCounts
BY DEF Term!TerminalAssumption, Term!TerminalInit, TerminalCounts

LEMMA CountsStep ==
  ASSUME Term!TerminalAssumption, TerminalCounts, [Term!TerminalNext]_terminalV
  PROVE  TerminalCounts'
<1>1. void' \subseteq Session
  BY DEF TerminalCounts, Term!TerminalNext, Term!CreateSession, Term!Void, Term!Cancel, Term!ShowStatus, Term!IssueOperatorTicket, Term!Poll,
     Term!PollNothing, Term!UserApproves, Term!ConsentGone, Term!StartProcess, Term!Disconnect, Term!ServerRestarts, Term!PostConsent,
     Term!OperatorConnects, Term!AgentConnects, Term!ConsumeTicket, Term!Reject, Term!Attach, Term!MarkReady, Term!Leave, Term!Finish,
     terminalV, Term!rowVars
<1>2. \/ UNCHANGED <<terminalFaults, epoch>>
      \/ Term!TerminalFault /\ epoch' \in {epoch, epoch + 1}
  BY DEF Term!TerminalNext, Term!CreateSession, Term!Void, Term!Cancel, Term!ShowStatus, Term!IssueOperatorTicket, Term!Poll,
     Term!PollNothing, Term!UserApproves, Term!ConsentGone, Term!StartProcess, Term!Disconnect, Term!ServerRestarts, Term!PostConsent,
     Term!OperatorConnects, Term!AgentConnects, Term!ConsumeTicket, Term!Reject, Term!Attach, Term!MarkReady, Term!Leave, Term!Finish,
     Term!NoTerminalFault, terminalV, Term!relayVars
<1> QED
  BY <1>1, <1>2 DEF TerminalCounts, Term!TerminalFault, Term!TerminalAssumption

LEMMA ClosedSessionStays ==
  ASSUME TerminalInv, [Term!TerminalNext]_terminalV, NEW x \in Session, session[x].status \in Term!Closed
  PROVE  session'[x] = session[x]
<1>1. session \in [Session -> SessionRec] /\ session[x].status \notin Term!Active /\ session[x].status # "none"
  BY DEF TerminalInv, RowInv, Term!Active, Term!Closed
<1>2. ASSUME NEW y, NEW status PROVE Term!Shut(y, status)[x] = session[x]
  BY <1>1 DEF Term!Shut, SessionRec
<1>3. ASSUME NEW y, NEW r, session' = [session EXCEPT ![y] = r], Term!Live(y) PROVE session'[x] = session[x]
  BY <1>1, <1>3 DEF Term!Live
<1>4. ASSUME NEW y \in Session, NEW mode \in Mode, Term!CreateSession(y, mode) PROVE session'[x] = session[x]
  BY <1>1, <1>4 DEF Term!CreateSession, Term!Live
<1>5. ASSUME NEW y \in Session, Term!Cancel(y) \/ Term!ShowStatus(y) \/ Term!IssueOperatorTicket(y) \/ Term!Void(y) \/ Term!Poll(y)
      PROVE  session'[x] = session[x]
  <2>1. CASE Term!IssueOperatorTicket(y)
    BY <1>1, <2>1 DEF Term!IssueOperatorTicket, Term!ValidSession, Term!Live
  <2>2. CASE Term!Poll(y)
    BY <1>1, <2>2 DEF Term!Poll, Term!ValidSession, Term!Live
  <2>3. CASE Term!Cancel(y) \/ Term!ShowStatus(y) \/ Term!Void(y)
    BY <1>2, <2>3 DEF Term!Cancel, Term!ShowStatus, Term!Void
  <2> QED
    BY <1>5, <2>1, <2>2, <2>3
<1>6. ASSUME NEW answer, Term!PostConsent(answer) PROVE session'[x] = session[x]
  <2>1. Term!Consented(host.session, answer)[x] = session[x]
    BY <1>1, <1>2 DEF Term!Consented, Term!Active
  <2> QED
    BY <1>6, <2>1 DEF Term!PostConsent
<1>7. ASSUME NEW c \in Conn, Term!ConsumeTicket(c) \/ Term!MarkReady(c) \/ Term!Finish(c) PROVE session'[x] = session[x]
  <2>1. CASE Term!ConsumeTicket(c)
    BY <1>1, <2>1 DEF Term!ConsumeTicket, Term!MayConsume, Term!ValidSession, Term!Live
  <2>2. CASE Term!MarkReady(c)
    BY <1>1, <2>2 DEF Term!MarkReady, Term!ValidSession, Term!Live
  <2>3. CASE Term!Finish(c)
    BY <1>2, <2>3 DEF Term!Finish
  <2> QED
    BY <1>7, <2>1, <2>2, <2>3
<1> QED
  BY <1>4, <1>5, <1>6, <1>7
     DEF Term!TerminalNext, Term!PollNothing, Term!UserApproves, Term!ConsentGone, Term!StartProcess, Term!Disconnect, Term!ServerRestarts,
         Term!OperatorConnects, Term!AgentConnects, Term!Reject, Term!Attach, Term!Leave, terminalV, Term!rowVars

LEMMA TerminalSound ==
  TerminalInv /\ TerminalCounts => Term!TerminalIsGuarded /\ Term!TerminalTypeOK
<1> SUFFICES ASSUME TerminalInv, TerminalCounts PROVE Term!TerminalIsGuarded /\ Term!TerminalTypeOK
  OBVIOUS
<1>1. Term!TicketsWorkOnce
  <2> SUFFICES ASSUME NEW x \in Session, NEW role \in {"operator", "agent"}
               PROVE  Cardinality(Term!Authenticated(x, role)) <= 1
    BY SameCardinality DEF Term!TicketsWorkOnce
  <2>1. \A c, d \in Term!Authenticated(x, role) : c = d
    BY DEF TerminalInv, RelayInv, Term!Authenticated, LetIn
  <2>2. CASE Term!Authenticated(x, role) = {}
    BY <2>2, FS_EmptySet
  <2>3. CASE Term!Authenticated(x, role) # {}
    <3>1. PICK c : Term!Authenticated(x, role) = {c}
      BY <2>1, <2>3
    <3>2. Cardinality({c}) = 1
      BY FS_Singleton
    <3> QED
      BY <3>1, <3>2
  <2> QED
    BY <2>2, <2>3
<1>2. Term!RunsByConsent
  BY DEF TerminalInv, RowInv, HostInv, BothUsed, Term!RunsByConsent
<1>3. Term!TerminalTypeOK
  <2>1. ASSUME NEW x \in Session
        PROVE  /\ session[x].status \in {"none"} \cup Term!Active \cup Term!Closed /\ session[x].mode \in {"none"} \cup Mode
               /\ session[x].operator \in {"none", "issued", "used"} /\ session[x].agent \in {"none", "issued", "used"}
               /\ link[x].peers \subseteq {"operator", "agent"} /\ process[x] \in {"none", "running", "stopped"}
    BY DEF TerminalInv, RowInv, RelayInv, HostInv, SessionRec, LinkRec, ProcessState
  <2>2. void \cup told \cup approved \subseteq Session /\ consentFile \in Session \cup {NoSession}
    BY DEF TerminalInv, RelayInv, HostInv, TerminalCounts
  <2>3. \A c \in Conn : conn[c].at \in {"none", "open", "consumed", "refused", "readying", "joined", "ending", "gone"}
    BY DEF TerminalInv, RelayInv, ConnRec
  <2>4. host.at \in {"idle", "asking", "opening", "holding", "connected"}
    BY DEF TerminalInv, HostInv, HostRec
  <2>5. epoch \in 1..1 + MaxTerminalFaults
    BY DEF TerminalInv, Term!TerminalAssumption, TerminalCounts
  <2> QED
    BY <2>1, <2>2, <2>3, <2>4, <2>5 DEF Term!TerminalTypeOK
<1> QED
  BY <1>1, <1>2, <1>3 DEF Term!TerminalIsGuarded

-----------------------------------------------------------------------------
(* Automations and their calendar.                                          *)

DefinitionRec ==
  [state : {"none", "active", "paused"} \cup Cal!ClosedState, revision : Nat, kind : {"once", "interval"},
   start : {0} \cup Cal!Time, next : {0} \cup Cal!Time, retries : 0..MaxRetries, retryAt : Nat]
OccurrenceRec ==
  [definition : Definition, revision : Nat, due : Cal!Time, run : RunRequest \cup {"scheduled"}, endpoint : Endpoint,
   status : {"enqueued", "skipped", "missed", "blocked", "cancelled"},
   job : {"none", "queued", "sent", "ended", "cancelled"}]
RoundRec ==
  [at : {"walk", "lost", "refused"}, now : {0} \cup Cal!Time, list : SUBSET Definition, failed : SUBSET Definition]

\* What is true of one definition: its next slot is one of its slots, and there is one while
\* it is active.
DefinitionSound(row) ==
  /\ row \in DefinitionRec
  /\ row.kind = "interval" => row.start \in Cal!Time
  /\ row.next # 0 => row.next \in Cal!Slots(row)
  /\ row.state = "active" => row.next # 0 /\ row.retries < MaxRetries
  /\ row.state = "none" => row.revision = 1

\* A round works on what it found active, at a time that has passed.
RoundSound(s) ==
  /\ round[s].now <= time
  /\ \A d \in round[s].list \cup round[s].failed : definition[d].state # "none"

Keys == {Cal!KeyOf(o) : o \in occurrences}
\* Two unfinished jobs of an endpoint are one.
OneActive ==
  \A o, p \in occurrences : o.job \in Cal!ActiveJob /\ p.job \in Cal!ActiveJob /\ o.endpoint = p.endpoint => o = p
OccurrencesSound ==
  /\ occurrences \subseteq OccurrenceRec
  /\ OneActive /\ Cal!OncePerSlot /\ Cal!CancelledWasNotSent

\* The slot t of the present revision has its occurrence on every endpoint.
Done(d, t) == \A e \in Endpoint : Cal!Key(d, t, "scheduled", e) \in Keys
Scheduled(d, k) == k \in Keys /\ k.definition = d /\ k.revision = definition[d].revision /\ k.run = "scheduled"
\* Between a slot that is still to come and one that has its occurrence all slots are done,
\* and so are those that have passed by the definition's next one.
Ordered(d) ==
  /\ \A k \in Keys : k.definition = d => definition[d].state # "none" /\ k.revision <= definition[d].revision
  /\ \A t \in Cal!Slots(definition[d]), k \in Keys : Scheduled(d, k) /\ t < k.due =>
       /\ definition[d].next # 0 /\ definition[d].next <= t => Done(d, t)
       /\ time <= t => Done(d, t)
  /\ \A t \in Cal!Slots(definition[d]) : time <= t /\ t < definition[d].next => Done(d, t)

AutomationInv ==
  /\ Cal!AutomationAssumption
  /\ time \in Cal!Time
  /\ definition \in [Definition -> DefinitionRec] /\ \A d \in Definition : DefinitionSound(definition[d]) /\ Ordered(d)
  /\ OccurrencesSound
  /\ endpoint \in [Endpoint -> {"online", "offline", "barred", "gone"}]
  /\ round \in [Scheduler -> RoundRec] /\ \A s \in Scheduler : RoundSound(s)

\* A finite set has a member with the least value: of the members' down-sets one is minimal.
LEMMA LeastMember ==
  ASSUME NEW W, IsFiniteSet(W), W # {}, NEW f \in [W -> Int]
  PROVE  \E w \in W : \A v \in W : f[w] <= f[v]
<1> DEFINE Down(w) == {v \in W : f[v] <= f[w]}
           Downs == {Down(w) : w \in W}
<1>1. Downs \subseteq SUBSET W /\ Downs # {}
  <2>1. \A w \in W : Down(w) \in SUBSET W OBVIOUS
  <2> HIDE DEF Down
  <2> QED BY <2>1
<1>2. IsWellFoundedOn(StrictSubsetOrdering(W), SUBSET W)
  BY FS_StrictSubsetOrderingWellFounded, FS_FiniteSubsetsOfFinite
<1>3. \E D \in Downs : \A E \in Downs : ~(<<E, D>> \in StrictSubsetOrdering(W))
  <2> HIDE DEF Downs
  <2> QED BY <1>1, <1>2, WFMin
<1>4. PICK w \in W : \A E \in Downs : ~(<<E, Down(w)>> \in StrictSubsetOrdering(W)) BY <1>3
<1>5. ASSUME NEW v \in W, f[v] < f[w] PROVE FALSE
  <2>1. Down(v) \subseteq Down(w) /\ w \in Down(w) /\ w \notin Down(v) BY <1>5 DEF Down
  <2>2. Down(v) # Down(w) BY <2>1
  <2>3. <<Down(v), Down(w)>> \in StrictSubsetOrdering(W)
    <3>1. Down(v) \in SUBSET W /\ Down(w) \in SUBSET W BY DEF Down
    <3> HIDE DEF Down
    <3> QED BY <3>1, <2>1, <2>2 DEF StrictSubsetOrdering
  <2> QED BY <2>3, <1>4
<1> QED BY <1>5

LEMMA AutomationInitInv == Cal!AutomationAssumption /\ Cal!AutomationInit => AutomationInv
<1> SUFFICES ASSUME Cal!AutomationAssumption, Cal!AutomationInit PROVE AutomationInv
  OBVIOUS
<1>0. MaxTime \in Nat \ {0} /\ MaxRetries \in Nat \ {0} BY DEF Cal!AutomationAssumption
<1>1. Cal!NoDefinition \in DefinitionRec /\ Cal!NoDefinition.kind # "interval" /\ Cal!NoDefinition.next = 0
      /\ Cal!NoDefinition.state = "none" /\ Cal!NoDefinition.revision = 1
  BY <1>0 DEF Cal!NoDefinition, DefinitionRec, Cal!ClosedState
<1>2. Cal!NoRound \in RoundRec /\ Cal!NoRound.now = 0 /\ Cal!NoRound.list \cup Cal!NoRound.failed = {}
  BY DEF Cal!NoRound, RoundRec
<1>3. Keys = {} BY DEF Cal!AutomationInit, Keys
<1>4. ASSUME NEW d \in Definition PROVE DefinitionSound(definition[d]) /\ Ordered(d)
  <2>1. \A t \in Cal!Slots(definition[d]) : ~(time <= t /\ t < definition[d].next)
    BY <1>0, <1>1 DEF Cal!AutomationInit, Cal!Slots, Cal!NoDefinition
  <2>2. DefinitionSound(definition[d])
    BY <1>1 DEF Cal!AutomationInit, DefinitionSound
  <2> QED BY <1>3, <2>1, <2>2 DEF Ordered, Scheduled
<1>5. OccurrencesSound
  BY DEF Cal!AutomationInit, OccurrencesSound, OneActive, Cal!OncePerSlot, Cal!CancelledWasNotSent
<1> QED BY <1>0, <1>1, <1>2, <1>4, <1>5 DEF Cal!AutomationInit, AutomationInv, RoundSound, Cal!Time

\* A set of times has a first and a last member.
LEMMA MinMax ==
  ASSUME Cal!AutomationAssumption, NEW S, S \subseteq Cal!Time, S # {}
  PROVE  /\ Cal!Min(S) \in S /\ \A t \in S : Cal!Min(S) <= t
         /\ Cal!Max(S) \in S /\ \A t \in S : t <= Cal!Max(S)
<1>0. MaxTime \in Nat BY DEF Cal!AutomationAssumption
<1>1. IsFiniteSet(S)
  <2>1. IsFiniteSet(1..MaxTime) BY <1>0, FS_Interval
  <2> QED BY <2>1, FS_Subset DEF Cal!Time
<1>2. \A t \in S : t \in Int BY <1>0 DEF Cal!Time
<1>3. \E t \in S : \A v \in S : t <= v
  <2> DEFINE f == [t \in S |-> t]
  <2>1. f \in [S -> Int] BY <1>2
  <2>2. \A t \in S : f[t] = t OBVIOUS
  <2> HIDE DEF f
  <2>3. \E t \in S : \A v \in S : f[t] <= f[v] BY <1>1, <2>1, LeastMember
  <2> QED BY <2>2, <2>3
<1>4. \E t \in S : \A v \in S : t >= v
  <2> DEFINE f == [t \in S |-> 0 - t]
  <2>1. f \in [S -> Int] BY <1>2
  <2>2. \A t \in S : f[t] = 0 - t OBVIOUS
  <2> HIDE DEF f
  <2>3. \E t \in S : \A v \in S : f[t] <= f[v] BY <1>1, <2>1, LeastMember
  <2> QED BY <1>2, <2>2, <2>3
<1>5. Cal!Min(S) \in S /\ \A t \in S : Cal!Min(S) <= t BY <1>3 DEF Cal!Min
<1>6. Cal!Max(S) \in S /\ \A t \in S : Cal!Max(S) >= t BY <1>4 DEF Cal!Max
<1> QED BY <1>2, <1>5, <1>6

\* The next slot from a time on: none, or the first.
LEMMA SlotIs ==
  ASSUME Cal!AutomationAssumption, NEW row, Cal!Slots(row) \subseteq Cal!Time \cup {0}, NEW from \in Nat \ {0}
  PROVE  /\ Cal!Slot(row, from) \in {0} \cup Cal!Time
         /\ Cal!Slot(row, from) = 0 => \A t \in Cal!Slots(row) : t < from
         /\ Cal!Slot(row, from) # 0 => /\ Cal!Slot(row, from) \in Cal!Slots(row) /\ from <= Cal!Slot(row, from)
                                       /\ \A t \in Cal!Slots(row) : from <= t => Cal!Slot(row, from) <= t
<1> DEFINE rest == {t \in Cal!Slots(row) : t >= from}
<1>0. MaxTime \in Nat BY DEF Cal!AutomationAssumption
<1>1. rest \subseteq Cal!Time /\ \A t \in Cal!Slots(row) : t \in Nat BY <1>0 DEF Cal!Time
<1>2. Cal!Slot(row, from) = IF rest = {} THEN 0 ELSE Cal!Min(rest) BY DEF Cal!Slot
<1>3. CASE rest = {}
  <2>1. \A t \in Cal!Slots(row) : ~(t >= from) BY <1>3
  <2> QED BY <1>1, <1>2, <1>3, <2>1
<1>4. CASE rest # {}
  <2>1. Cal!Min(rest) \in rest /\ \A t \in rest : Cal!Min(rest) <= t
    <3> HIDE DEF rest
    <3> QED BY <1>1, <1>4, MinMax
  <2>2. Cal!Min(rest) \in Cal!Time /\ Cal!Min(rest) # 0 BY <1>0, <1>1, <2>1 DEF Cal!Time
  <2>3. Cal!Slot(row, from) = Cal!Min(rest) BY <1>2, <1>4
  <2>4. Cal!Min(rest) \in Cal!Slots(row) /\ from <= Cal!Min(rest) BY <1>1, <2>1
  <2>5. \A t \in Cal!Slots(row) : from <= t => Cal!Min(rest) <= t BY <1>1, <2>1
  <2> HIDE DEF rest
  <2> QED BY <2>2, <2>3, <2>4, <2>5
<1> QED BY <1>3, <1>4

\* What a sound row says of its slots.
LEMMA SlotsOf ==
  ASSUME Cal!AutomationAssumption, NEW row, row \in DefinitionRec, row.kind = "interval" => row.start \in Cal!Time
  PROVE  /\ Cal!Slots(row) \subseteq Cal!Time \cup {0}
         /\ row.start \in Cal!Time => row.start \in Cal!Slots(row)
         /\ row.start \in Cal!Time => \A t \in Cal!Slots(row) : row.start <= t
         /\ row.kind = "once" => Cal!Slots(row) = {row.start}
<1>0. MaxTime \in Nat /\ Period \in Nat \ {0} BY DEF Cal!AutomationAssumption
<1>1. row.kind \in {"once", "interval"} /\ row.start \in Cal!Time \cup {0} BY DEF DefinitionRec
<1>2. CASE row.kind = "once"
  BY <1>0, <1>1, <1>2 DEF Cal!Slots, Cal!Time
<1>3. CASE row.kind = "interval"
  <2>1. row.start \in Cal!Time BY <1>3
  <2>2. row.start - row.start = 0 /\ 0 % Period = 0 BY <1>0, <2>1 DEF Cal!Time
  <2>3. Cal!Slots(row) = {t \in row.start..MaxTime : (t - row.start) % Period = 0} BY <1>3 DEF Cal!Slots
  <2> QED BY <1>0, <1>3, <2>1, <2>2, <2>3 DEF Cal!Time
<1> QED BY <1>1, <1>2, <1>3

\* The slot that is due: the last one that has passed, and not before the next.
LEMMA LatestIs ==
  ASSUME Cal!AutomationAssumption, NEW row, DefinitionSound(row), NEW now \in Cal!Time, row.next \in 1..now
  PROVE  /\ Cal!LatestDue(row, now) \in Cal!Slots(row) /\ Cal!LatestDue(row, now) \in Cal!Time
         /\ row.next <= Cal!LatestDue(row, now) /\ Cal!LatestDue(row, now) <= now
         /\ \A t \in Cal!Slots(row) : t <= now => t <= Cal!LatestDue(row, now)
<1> DEFINE past == {t \in Cal!Slots(row) : t <= now}
<1>0. MaxTime \in Nat BY DEF Cal!AutomationAssumption
<1>1. /\ Cal!Slots(row) \subseteq Cal!Time \cup {0} /\ row.next \in Cal!Slots(row) /\ row.next \in Cal!Time /\ row.next <= now
      /\ row.kind \in {"once", "interval"} /\ row.start \in Cal!Time \cup {0}
      /\ row.kind = "once" => Cal!Slots(row) = {row.start}
  BY <1>0, SlotsOf DEF DefinitionSound, DefinitionRec, Cal!Time
<1>2. row.next \in past BY <1>1
<1>3. Cal!LatestDue(row, now) = IF row.kind = "once" \/ past = {} THEN row.next ELSE Cal!Max(past) BY DEF Cal!LatestDue
<1>4. CASE row.kind = "once" BY <1>0, <1>1, <1>3, <1>4 DEF Cal!Time
<1>5. CASE row.kind # "once"
  <2>1. past \subseteq Cal!Time /\ past # {}
    <3>1. 0 \notin Cal!Slots(row)
      <4>1. row.kind = "interval" /\ row.start \in Cal!Time BY <1>1, <1>5 DEF DefinitionSound
      <4> QED BY <1>0, <4>1 DEF Cal!Slots, Cal!Time
    <3> QED BY <1>1, <1>2, <3>1
  <2> HIDE DEF past
  <2>2. Cal!Max(past) \in past /\ \A t \in past : t <= Cal!Max(past) BY <2>1, MinMax
  <2>3. Cal!LatestDue(row, now) = Cal!Max(past) BY <1>3, <1>5, <2>1
  <2> USE DEF past
  <2> QED BY <1>1, <1>2, <2>1, <2>2, <2>3
<1> QED BY <1>4, <1>5

\* Occurrences that are rewritten keep their key, and none becomes unfinished.
LEMMA Rewriting ==
  ASSUME OccurrencesSound, NEW g \in [occurrences -> OccurrenceRec], occurrences' = {g[o] : o \in occurrences},
         \A o \in occurrences : /\ Cal!KeyOf(g[o]) = Cal!KeyOf(o)
                                /\ g[o].job \in Cal!ActiveJob => o.job \in Cal!ActiveJob
                                /\ g[o].status = "cancelled" => g[o].job \in {"none", "cancelled"}
  PROVE  OccurrencesSound' /\ Keys' = Keys
<1>1. \A a \in occurrences' : \E o \in occurrences : a = g[o] OBVIOUS
<1>2. \A o \in occurrences : g[o] \in occurrences' OBVIOUS
<1>3. Keys' = Keys BY <1>1, <1>2 DEF Keys
<1>4. \A o, p \in occurrences : Cal!KeyOf(o) = Cal!KeyOf(p) => o = p BY DEF OccurrencesSound, Cal!OncePerSlot
<1>5. Cal!OncePerSlot' BY <1>1, <1>4 DEF Cal!OncePerSlot
<1>6. OneActive'
  <2> SUFFICES ASSUME NEW a \in occurrences', NEW b \in occurrences', a.job \in Cal!ActiveJob, b.job \in Cal!ActiveJob,
                      a.endpoint = b.endpoint
               PROVE  a = b
    BY DEF OneActive
  <2>1. PICK o \in occurrences : a = g[o] BY <1>1
  <2>2. PICK p \in occurrences : b = g[p] BY <1>1
  <2>3. a.endpoint = o.endpoint /\ b.endpoint = p.endpoint
    <3>1. Cal!KeyOf(a).endpoint = a.endpoint /\ Cal!KeyOf(o).endpoint = o.endpoint
          /\ Cal!KeyOf(b).endpoint = b.endpoint /\ Cal!KeyOf(p).endpoint = p.endpoint
      BY DEF Cal!KeyOf
    <3> QED BY <2>1, <2>2, <3>1
  <2> QED BY <2>1, <2>2, <2>3 DEF OccurrencesSound, OneActive
<1>7. occurrences' \subseteq OccurrenceRec /\ Cal!CancelledWasNotSent' BY <1>1 DEF Cal!CancelledWasNotSent
<1> QED BY <1>3, <1>5, <1>6, <1>7 DEF OccurrencesSound

\* One occurrence is rewritten.
LEMMA RewritingOne ==
  ASSUME OccurrencesSound, NEW o \in occurrences, NEW n \in OccurrenceRec, Cal!KeyOf(n) = Cal!KeyOf(o),
         n.job \in Cal!ActiveJob => o.job \in Cal!ActiveJob, n.status = "cancelled" => n.job \in {"none", "cancelled"},
         occurrences' = (occurrences \ {o}) \cup {n}
  PROVE  OccurrencesSound' /\ Keys' = Keys
<1> DEFINE g == [p \in occurrences |-> IF p = o THEN n ELSE p]
<1>1. g \in [occurrences -> OccurrenceRec] BY DEF OccurrencesSound
<1>2. occurrences' = {g[p] : p \in occurrences} OBVIOUS
<1>3. \A p \in occurrences : g[p] = IF p = o THEN n ELSE p OBVIOUS
<1> HIDE DEF g
<1>4. \A p \in occurrences : /\ Cal!KeyOf(g[p]) = Cal!KeyOf(p)
                             /\ g[p].job \in Cal!ActiveJob => p.job \in Cal!ActiveJob
                             /\ g[p].status = "cancelled" => g[p].job \in {"none", "cancelled"}
  BY <1>3 DEF OccurrencesSound, Cal!CancelledWasNotSent
<1> QED BY <1>1, <1>2, <1>4, Rewriting

\* New occurrences have new keys, one on an endpoint, unfinished only if nothing else is.
LEMMA Adding ==
  ASSUME OccurrencesSound, NEW N, N \subseteq OccurrenceRec, occurrences' = occurrences \cup N,
         \A n \in N : /\ ~Cal!Known(Cal!KeyOf(n)) /\ (n.job \in Cal!ActiveJob => ~Cal!Busy(n.endpoint))
                      /\ n.status = "cancelled" => n.job \in {"none", "cancelled"},
         \A n, m \in N : n.endpoint = m.endpoint => n = m
  PROVE  OccurrencesSound' /\ Keys' = Keys \cup {Cal!KeyOf(n) : n \in N}
<1>1. Keys' = Keys \cup {Cal!KeyOf(n) : n \in N} BY DEF Keys
<1>2. Cal!OncePerSlot'
  <2> SUFFICES ASSUME NEW a \in occurrences', NEW b \in occurrences', Cal!KeyOf(a) = Cal!KeyOf(b) PROVE a = b
    BY DEF Cal!OncePerSlot
  <2>1. a.endpoint = b.endpoint
    <3>1. Cal!KeyOf(a).endpoint = a.endpoint /\ Cal!KeyOf(b).endpoint = b.endpoint BY DEF Cal!KeyOf
    <3> QED BY <3>1
  <2>2. CASE a \in N /\ b \in N BY <2>1, <2>2
  <2>3. CASE a \in occurrences /\ b \in occurrences BY <2>3 DEF OccurrencesSound, Cal!OncePerSlot
  <2>4. CASE (a \in N /\ b \in occurrences) \/ (b \in N /\ a \in occurrences) BY <2>4 DEF Cal!Known
  <2> QED BY <2>2, <2>3, <2>4
<1>3. OneActive' BY DEF OccurrencesSound, OneActive, Cal!Busy
<1>4. occurrences' \subseteq OccurrenceRec /\ Cal!CancelledWasNotSent' BY DEF OccurrencesSound, Cal!CancelledWasNotSent
<1> QED BY <1>1, <1>2, <1>3, <1>4 DEF OccurrencesSound

LEMMA OccurrenceIs ==
  ASSUME AutomationInv, Cal!TargetsExist, NEW d \in Definition, NEW due \in Cal!Time, NEW run \in RunRequest \cup {"scheduled"},
         NEW now \in Cal!Time, NEW e \in Endpoint
  PROVE  LET o == Cal!Occurrence(Cal!Key(d, due, run, e), now) IN
         /\ o \in OccurrenceRec /\ Cal!KeyOf(o) = Cal!Key(d, due, run, e) /\ o.endpoint = e
         /\ o.status # "cancelled" /\ o.job \in {"none", "queued"} /\ (o.job = "queued" => ~Cal!Busy(e))
<1> DEFINE status == Cal!Outcome(d, due, now, e)
<1>1. /\ endpoint[e] \in {"online", "offline", "barred"} /\ definition[d].revision \in Nat
      /\ now \in Nat /\ due \in Nat /\ Validity \in Nat
  BY DEF AutomationInv, Cal!TargetsExist, DefinitionRec, Cal!Time, Cal!AutomationAssumption
<1>2. status \in {"enqueued", "skipped", "missed", "blocked"} /\ (status = "enqueued" => ~Cal!Busy(e))
  <2>1. CASE endpoint[e] = "barred" BY <2>1 DEF Cal!Outcome
  <2>2. CASE endpoint[e] # "barred" /\ now >= due + Validity BY <2>2 DEF Cal!Outcome
  <2>3. CASE endpoint[e] = "offline" /\ now < due + Validity /\ d \notin Patient
    <3>1. ~(now >= due + Validity) BY <1>1, <2>3
    <3> QED BY <2>3, <3>1 DEF Cal!Outcome
  <2>4. CASE endpoint[e] # "barred" /\ now < due + Validity /\ (endpoint[e] = "online" \/ d \in Patient)
    <3>1. ~(now >= due + Validity) BY <1>1, <2>4
    <3>2. status = IF Cal!Busy(e) THEN "skipped" ELSE "enqueued" BY <2>4, <3>1 DEF Cal!Outcome
    <3> QED BY <3>2
  <2> QED BY <1>1, <2>1, <2>2, <2>3, <2>4
<1>3. LET k == Cal!Key(d, due, run, e) IN /\ k.definition = d /\ k.revision = definition[d].revision /\ k.due = due
                                          /\ k.run = run /\ k.endpoint = e
  BY DEF Cal!Key
<1> HIDE DEF status
<1>4. Cal!Occurrence(Cal!Key(d, due, run, e), now) =
        [definition |-> d, revision |-> definition[d].revision, due |-> due, run |-> run, endpoint |-> e,
         status |-> status, job |-> IF status = "enqueued" THEN "queued" ELSE "none"]
  BY <1>3 DEF Cal!Occurrence, status
<1> QED BY <1>1, <1>2, <1>4 DEF OccurrenceRec, Cal!KeyOf, Cal!Key

LEMMA Materializing ==
  ASSUME AutomationInv, Cal!TargetsExist, NEW d \in Definition, NEW due \in Cal!Time, NEW run \in RunRequest \cup {"scheduled"},
         NEW now \in Cal!Time, occurrences' = Cal!Materialized(d, due, run, now)
  PROVE  OccurrencesSound' /\ Keys' = Keys \cup {Cal!Key(d, due, run, e) : e \in Endpoint}
<1> DEFINE new == {k \in {Cal!Key(d, due, run, e) : e \in Endpoint} : ~Cal!Known(k)}
           N == {Cal!Occurrence(k, now) : k \in new}
<1>1. occurrences' = occurrences \cup N BY DEF Cal!Materialized
<1>2. \A k \in new : \E e \in Endpoint : k = Cal!Key(d, due, run, e) OBVIOUS
<1>3. ASSUME NEW n \in N
      PROVE  \E e \in Endpoint : /\ n = Cal!Occurrence(Cal!Key(d, due, run, e), now) /\ n \in OccurrenceRec
                                 /\ Cal!KeyOf(n) = Cal!Key(d, due, run, e) /\ n.endpoint = e /\ n.status # "cancelled"
                                 /\ n.job \in {"none", "queued"} /\ (n.job = "queued" => ~Cal!Busy(e))
                                 /\ ~Cal!Known(Cal!KeyOf(n))
  <2>1. PICK k \in new : n = Cal!Occurrence(k, now) OBVIOUS
  <2>2. PICK e \in Endpoint : k = Cal!Key(d, due, run, e) BY <1>2
  <2> QED BY <2>1, <2>2, OccurrenceIs
<1>4. \A k \in new : \E n \in N : Cal!KeyOf(n) = k
  <2> SUFFICES ASSUME NEW k \in new PROVE \E n \in N : Cal!KeyOf(n) = k
    OBVIOUS
  <2>1. PICK e \in Endpoint : k = Cal!Key(d, due, run, e) BY <1>2
  <2>2. Cal!KeyOf(Cal!Occurrence(k, now)) = k BY <2>1, OccurrenceIs
  <2> QED BY <2>2
<1>5. \A e \in Endpoint : Cal!Key(d, due, run, e) \in new \/ Cal!Key(d, due, run, e) \in Keys BY DEF Cal!Known, Keys
<1> HIDE DEF new, N
<1>6. \A n \in N : n.job \in Cal!ActiveJob => n.job = "queued" BY <1>3 DEF Cal!ActiveJob
<1>7. OccurrencesSound' /\ Keys' = Keys \cup {Cal!KeyOf(n) : n \in N}
  <2>1. OccurrencesSound BY DEF AutomationInv
  <2>2. \A n \in N : /\ ~Cal!Known(Cal!KeyOf(n)) /\ (n.job \in Cal!ActiveJob => ~Cal!Busy(n.endpoint))
                     /\ n.status = "cancelled" => n.job \in {"none", "cancelled"}
    BY <1>3, <1>6
  <2>3. \A n, m \in N : n.endpoint = m.endpoint => n = m BY <1>3
  <2>4. N \subseteq OccurrenceRec BY <1>3
  <2> QED BY <1>1, <2>1, <2>2, <2>3, <2>4, Adding
<1>8. {Cal!KeyOf(n) : n \in N} \subseteq {Cal!Key(d, due, run, e) : e \in Endpoint} BY <1>3
<1> QED BY <1>4, <1>5, <1>7, <1>8

\* A step that adds no scheduled occurrence of d and leaves its calendar alone, or ends it.
LEMMA OrderKeeps ==
  ASSUME AutomationInv, NEW d \in Definition, time' \in Nat, time <= time',
         LET old == definition[d] new == definition'[d] IN
           /\ new.revision = old.revision /\ new.kind = old.kind /\ new.start = old.start
           /\ old.state # "none" => new.state # "none"
           /\ new.next \in {0, old.next},
         Keys \subseteq Keys',
         \A k \in Keys' : \/ k \in Keys \/ k.definition # d
                          \/ /\ k.run # "scheduled" /\ k.revision = definition[d].revision
                             /\ definition[d].state # "none"
  PROVE  Ordered(d)'
<1>1. Cal!Slots(definition[d])' = Cal!Slots(definition[d]) BY DEF Cal!Slots
<1>2. \A t : Done(d, t) => Done(d, t)' BY DEF Done, Cal!Key
<1>3. \A k \in Keys' : Scheduled(d, k)' => Scheduled(d, k) BY DEF Scheduled
<1>4. Ordered(d) /\ time \in Nat /\ definition[d].next \in Nat
  BY DEF AutomationInv, Cal!AutomationAssumption, Cal!Time, DefinitionRec
<1>5. Cal!Slots(definition[d]) \subseteq Nat
  BY SlotsOf DEF AutomationInv, DefinitionSound, Cal!AutomationAssumption, Cal!Time
<1>6. \A k \in Keys' : k.definition = d => definition'[d].state # "none" /\ k.revision <= definition'[d].revision
  <2>1. definition[d].revision \in Nat BY DEF AutomationInv, DefinitionRec
  <2> QED BY <2>1, <1>4 DEF Ordered
<1>7. ASSUME NEW t \in Cal!Slots(definition[d]), NEW k \in Keys', Scheduled(d, k)', t < k.due
      PROVE  /\ definition'[d].next # 0 /\ definition'[d].next <= t => Done(d, t)'
             /\ time' <= t => Done(d, t)'
  <2>1. Scheduled(d, k) /\ k \in Keys BY <1>3, <1>7 DEF Scheduled
  <2>2. /\ definition[d].next # 0 /\ definition[d].next <= t => Done(d, t)
        /\ time <= t => Done(d, t)
    BY <1>4, <1>7, <2>1 DEF Ordered
  <2>3. time' <= t => time <= t BY <1>4, <1>5
  <2> QED BY <1>2, <2>2, <2>3
<1>8. ASSUME NEW t \in Cal!Slots(definition[d]), time' <= t, t < definition'[d].next PROVE Done(d, t)'
  <2>1. time <= t /\ t < definition[d].next BY <1>4, <1>5, <1>8
  <2> QED BY <1>2, <1>4, <2>1 DEF Ordered
<1> QED BY <1>1, <1>6, <1>7, <1>8 DEF Ordered

\* The definitions and occurrences are left alone.
LEMMA Undisturbed ==
  ASSUME AutomationInv, UNCHANGED <<definition, occurrences>>, time' \in Cal!Time, time <= time'
  PROVE  /\ definition' \in [Definition -> DefinitionRec] /\ OccurrencesSound'
         /\ \A d \in Definition : DefinitionSound(definition'[d]) /\ Ordered(d)'
<1>1. OccurrencesSound' /\ Keys' = Keys
  BY DEF AutomationInv, OccurrencesSound, OneActive, Cal!OncePerSlot, Cal!CancelledWasNotSent, Keys
<1>2. time' \in Nat BY DEF AutomationInv, Cal!AutomationAssumption, Cal!Time
<1>3. \A d \in Definition : Ordered(d)'
  BY <1>1, <1>2, OrderKeeps
<1> QED BY <1>1, <1>3 DEF AutomationInv

\* The occurrences of definition d may be more, its row may be another.
LEMMA Saved ==
  ASSUME AutomationInv, NEW d \in Definition, NEW row \in DefinitionRec, Cal!Save(d, row), DefinitionSound(row), time' = time,
         OccurrencesSound', Keys \subseteq Keys', \A k \in Keys' : k \in Keys \/ k.definition = d,
         Ordered(d)'
  PROVE  /\ definition' \in [Definition -> DefinitionRec]
         /\ \A c \in Definition : DefinitionSound(definition'[c]) /\ Ordered(c)'
<1>1. /\ definition' \in [Definition -> DefinitionRec] /\ definition'[d] = row
      /\ \A c \in Definition : c # d => definition'[c] = definition[c]
  BY DEF Cal!Save, AutomationInv
<1>2. time' \in Nat /\ time <= time' BY DEF AutomationInv, Cal!AutomationAssumption, Cal!Time
<1>3. ASSUME NEW c \in Definition, c # d PROVE Ordered(c)' /\ DefinitionSound(definition'[c])
  <2>1. definition'[c] = definition[c] BY <1>1, <1>3
  <2>2. Ordered(c)' BY <1>2, <1>3, <2>1, OrderKeeps
  <2> QED BY <2>1, <2>2 DEF AutomationInv
<1> QED BY <1>1, <1>3

\* Rounds go on while no definition disappears.
LEMMA RoundsStay ==
  ASSUME AutomationInv, UNCHANGED round, time' \in Cal!Time, time <= time',
         \A d \in Definition : definition[d].state # "none" => definition'[d].state # "none"
  PROVE  round' \in [Scheduler -> RoundRec] /\ \A s \in Scheduler : RoundSound(s)'
<1>1. ASSUME NEW s \in Scheduler PROVE RoundSound(s)'
  <2>1. round[s] \in RoundRec /\ RoundSound(s) /\ time \in Nat BY DEF AutomationInv, Cal!AutomationAssumption, Cal!Time
  <2>2. round[s].now \in Nat /\ round[s].list \cup round[s].failed \subseteq Definition /\ time' \in Nat
    BY <2>1 DEF RoundRec, Cal!Time, AutomationInv, Cal!AutomationAssumption
  <2> QED BY <2>1, <2>2 DEF RoundSound
<1> QED BY <1>1 DEF AutomationInv

LEMMA Walks ==
  ASSUME AutomationInv, NEW s \in Scheduler, NEW next \in RoundRec, Cal!Walk(s, next), next.now <= time, time' = time,
         \A d \in next.list \cup next.failed : definition[d].state # "none",
         \A d \in Definition : definition[d].state # "none" => definition'[d].state # "none"
  PROVE  round' \in [Scheduler -> RoundRec] /\ \A q \in Scheduler : RoundSound(q)'
<1>1. Cal!NoRound \in RoundRec /\ Cal!NoRound.now = 0 /\ Cal!NoRound.list \cup Cal!NoRound.failed = {} BY DEF Cal!NoRound, RoundRec
<1>2. round' \in [Scheduler -> RoundRec] /\ (round'[s] = Cal!NoRound \/ round'[s] = next)
      /\ \A q \in Scheduler : q # s => round'[q] = round[q]
  BY <1>1 DEF Cal!Walk, AutomationInv
<1>3. ASSUME NEW q \in Scheduler PROVE RoundSound(q)'
  <2>1. \A d \in round'[q].list \cup round'[q].failed : d \in Definition BY <1>2 DEF RoundRec
  <2>2. round'[q].now <= time
    BY <1>1, <1>2 DEF AutomationInv, RoundSound, Cal!Time, Cal!AutomationAssumption
  <2>3. \A d \in round'[q].list \cup round'[q].failed : definition[d].state # "none"
    BY <1>1, <1>2 DEF AutomationInv, RoundSound
  <2> QED BY <2>1, <2>2, <2>3 DEF RoundSound
<1> QED BY <1>2, <1>3

\* The parts of the invariant together.
LEMMA Assembled ==
  ASSUME AutomationInv, time' \in Cal!Time,
         definition' \in [Definition -> DefinitionRec], \A d \in Definition : DefinitionSound(definition'[d]) /\ Ordered(d)',
         OccurrencesSound', endpoint' \in [Endpoint -> {"online", "offline", "barred", "gone"}],
         round' \in [Scheduler -> RoundRec], \A s \in Scheduler : RoundSound(s)'
  PROVE  AutomationInv'
<1>1. \A d \in Definition : DefinitionSound(definition[d])' BY DEF DefinitionSound, Cal!Slots
<1> QED BY <1>1 DEF AutomationInv

\* What operators leave alone.
LEMMA Operating ==
  ASSUME AutomationInv, Cal!Operate,
         definition' \in [Definition -> DefinitionRec], \A d \in Definition : DefinitionSound(definition'[d]) /\ Ordered(d)',
         \A d \in Definition : definition[d].state # "none" => definition'[d].state # "none", OccurrencesSound'
  PROVE  AutomationInv'
<1>1. UNCHANGED <<time, endpoint, round>> /\ time \in Nat BY DEF Cal!Operate, Cal!Quiet, AutomationInv, Cal!AutomationAssumption, Cal!Time
<1>2. round' \in [Scheduler -> RoundRec] /\ \A s \in Scheduler : RoundSound(s)'
  BY <1>1, RoundsStay DEF AutomationInv
<1> QED BY <1>1, <1>2, Assembled DEF AutomationInv

LEMMA SaveDefinitionStep ==
  ASSUME AutomationInv, NEW d \in Definition, NEW kind \in {"once", "interval"}, NEW start \in Cal!Time,
         Cal!SaveDefinition(d, kind, start)
  PROVE  AutomationInv'
<1> DEFINE old == definition[d]
           state == IF Cal!Is(d, {"none"}) THEN "active" ELSE old.state
           revision == IF Cal!Is(d, {"none"}) THEN 1 ELSE old.revision + 1
           row == [Cal!NoDefinition EXCEPT !.state = state, !.revision = revision, !.kind = kind, !.start = start]
           new == [row EXCEPT !.next = Cal!Slot(row, start)]
<1>0. /\ MaxTime \in Nat \ {0} /\ MaxRetries \in Nat \ {0} /\ time \in Nat /\ start \in Nat \ {0}
      /\ Cal!AutomationAssumption /\ old \in DefinitionRec
  BY DEF AutomationInv, Cal!AutomationAssumption, Cal!Time
<1>1. /\ start >= time /\ Cal!Is(d, {"none", "active", "paused"}) /\ Cal!Save(d, new) /\ UNCHANGED occurrences /\ Cal!Operate
  BY DEF Cal!SaveDefinition
<1>2. /\ state \in {"active", "paused"} /\ revision \in Nat /\ 0 \in 0..MaxRetries
      /\ \A r \in Nat : r <= old.revision /\ old.state # "none" => r < revision
  BY <1>0, <1>1 DEF Cal!Is, DefinitionRec
<1> HIDE DEF state, revision
<1>3. row \in DefinitionRec /\ row.start = start /\ row.kind = kind /\ row.state = state
      /\ row.revision = revision /\ row.retries = 0
  BY <1>0, <1>2 DEF Cal!NoDefinition, DefinitionRec, Cal!ClosedState
<1> HIDE DEF row
<1>4. /\ Cal!Slots(row) \subseteq Cal!Time \cup {0} /\ start \in Cal!Slots(row) /\ \A t \in Cal!Slots(row) : start <= t
  BY <1>0, <1>3, SlotsOf
<1>5. Cal!Slot(row, start) = start
  <2> DEFINE n == Cal!Slot(row, start)
  <2>1. n # 0 /\ n \in Cal!Slots(row) /\ start <= n /\ \A t \in Cal!Slots(row) : start <= t => n <= t
    <3>1. n = 0 => \A t \in Cal!Slots(row) : t < start BY <1>0, <1>4, SlotIs
    <3>2. ~(start < start) BY <1>0
    <3> QED BY <1>0, <1>4, <3>1, <3>2, SlotIs
  <2>2. n <= start BY <1>0, <1>4, <2>1
  <2>3. n \in Nat BY <1>0, <1>4, <2>1 DEF Cal!Time
  <2> HIDE DEF n
  <2>4. n = start BY <1>0, <2>1, <2>2, <2>3
  <2> QED BY <2>4 DEF n
<1>6. new = [row EXCEPT !.next = start] /\ new \in DefinitionRec /\ new.next = start /\ new.start = start
      /\ new.kind = kind /\ new.state = row.state /\ new.revision = row.revision /\ new.retries = 0
  BY <1>3, <1>5 DEF DefinitionRec
<1> HIDE DEF new
<1>7. Cal!Slots(new) = Cal!Slots(row) BY <1>3, <1>6 DEF Cal!Slots
<1>8. DefinitionSound(new) BY <1>0, <1>2, <1>3, <1>4, <1>6, <1>7 DEF DefinitionSound
<1>9. definition' = [definition EXCEPT ![d] = new] /\ definition'[d] = new BY <1>1 DEF Cal!Save, AutomationInv
<1>10. Keys' = Keys /\ OccurrencesSound'
  BY <1>1 DEF AutomationInv, OccurrencesSound, OneActive, Cal!OncePerSlot, Cal!CancelledWasNotSent, Keys
<1>11. \A k \in Keys : k.definition = d => k.revision < revision
  <2>1. \A k \in Keys : k.definition = d => old.state # "none" /\ k.revision <= old.revision
    BY DEF AutomationInv, Ordered
  <2>2. \A k \in Keys : k.revision \in Nat
    BY DEF Keys, Cal!KeyOf, AutomationInv, OccurrencesSound, OccurrenceRec
  <2> QED BY <1>2, <2>1, <2>2
<1>12. time' = time BY <1>1 DEF Cal!Operate, Cal!Quiet
<1>13. Ordered(d)'
  <2>0. \A k \in Keys : k.revision \in Nat
    BY DEF Keys, Cal!KeyOf, AutomationInv, OccurrencesSound, OccurrenceRec
  <2>5. definition'[d].revision = revision /\ revision \in Nat /\ definition'[d].state # "none"
    BY <1>2, <1>3, <1>6, <1>9
  <2>6. \A k \in Keys : k.definition = d => k.revision # revision /\ k.revision <= revision
    BY <1>11, <2>0, <2>5
  <2>1. \A k \in Keys : ~Scheduled(d, k)' BY <2>5, <2>6 DEF Scheduled
  <2>2. \A k \in Keys : k.definition = d => definition'[d].state # "none" /\ k.revision <= definition'[d].revision
    BY <2>5, <2>6
  <2>3. \A t \in Cal!Slots(new) : ~(t < start)
    <3>1. \A t \in Cal!Slots(new) : t \in Nat /\ start <= t BY <1>0, <1>4, <1>7 DEF Cal!Time
    <3> QED BY <1>0, <3>1
  <2>4. Cal!Slots(definition[d])' = Cal!Slots(new) BY <1>9 DEF Cal!Slots
  <2> QED BY <1>6, <1>9, <1>10, <2>1, <2>2, <2>3, <2>4 DEF Ordered
<1>14. /\ definition' \in [Definition -> DefinitionRec]
       /\ \A c \in Definition : DefinitionSound(definition'[c]) /\ Ordered(c)'
  BY <1>1, <1>6, <1>8, <1>10, <1>12, <1>13, Saved
<1>15. \A c \in Definition : definition[c].state # "none" => definition'[c].state # "none"
  BY <1>2, <1>3, <1>6, <1>9 DEF AutomationInv
<1> QED BY <1>1, <1>10, <1>14, <1>15, Operating

LEMMA RunImmediatelyStep ==
  ASSUME AutomationInv, NEW d \in Definition, Cal!RunImmediately(d) \/ \E ordered \in RunRequest : Cal!RunNow(d, ordered)
  PROVE  AutomationInv'
<1>0. /\ MaxTime \in Nat \ {0} /\ MaxRetries \in Nat \ {0} /\ time \in Cal!Time /\ time \in Nat \ {0}
      /\ Cal!AutomationAssumption
  BY DEF AutomationInv, Cal!AutomationAssumption, Cal!Time
<1>1. CASE Cal!RunImmediately(d)
  <2> DEFINE row == [Cal!NoDefinition EXCEPT !.state = "finished", !.start = time]
  <2>1. Cal!Is(d, {"none"}) /\ Cal!TargetsExist /\ Cal!Save(d, row) /\ Cal!Operate
        /\ occurrences' = Cal!Materialized(d, time, "scheduled", time)
    BY <1>1 DEF Cal!RunImmediately
  <2>0. 0 \in 0..MaxRetries BY <1>0
  <2>2. row \in DefinitionRec /\ row.state = "finished" /\ row.next = 0 /\ row.kind = "once" /\ row.start = time
        /\ row.revision = 1
    BY <1>0, <2>0 DEF Cal!NoDefinition, DefinitionRec, Cal!ClosedState
  <2> HIDE DEF row
  <2>3. DefinitionSound(row) BY <2>2 DEF DefinitionSound
  <2>4. OccurrencesSound' /\ Keys' = Keys \cup {Cal!Key(d, time, "scheduled", e) : e \in Endpoint}
    BY <1>0, <2>1, Materializing
  <2>5. definition' = [definition EXCEPT ![d] = row] /\ definition'[d] = row BY <2>1 DEF Cal!Save, AutomationInv
  <2>6. \A k \in Keys : k.definition # d BY <2>1 DEF AutomationInv, Ordered, Cal!Is
  <2>7. time' = time BY <2>1 DEF Cal!Operate, Cal!Quiet
  <2>8. Ordered(d)'
    <3>0. \A k \in Keys' : k \in Keys \/ \E e \in Endpoint : k = Cal!Key(d, time, "scheduled", e) BY <2>4
    <3>1. \A k \in Keys' : k.definition = d => k.due = time /\ k.revision = definition[d].revision
      BY <3>0, <2>6 DEF Cal!Key
    <3>2. \A k \in Keys' : k.definition = d => definition'[d].state # "none" /\ k.revision <= definition'[d].revision
      <4>1. definition[d].revision = 1 BY <2>1 DEF AutomationInv, DefinitionSound, Cal!Is
      <4> QED BY <3>1, <4>1, <2>2, <2>5
    <3>3. \A t \in Cal!Slots(definition[d])' : t \in Nat /\ ~(t < time)
      BY <1>0, <2>2, <2>5 DEF Cal!Slots
    <3> QED BY <1>0, <2>2, <2>5, <2>7, <3>1, <3>2, <3>3 DEF Ordered, Scheduled
  <2>9. /\ definition' \in [Definition -> DefinitionRec]
        /\ \A c \in Definition : DefinitionSound(definition'[c]) /\ Ordered(c)'
    <3>1. \A k \in Keys' : k \in Keys \/ k.definition = d BY <2>4 DEF Cal!Key
    <3> QED BY <2>1, <2>2, <2>3, <2>4, <2>7, <2>8, <3>1, Saved
  <2>10. \A c \in Definition : definition[c].state # "none" => definition'[c].state # "none"
    BY <2>2, <2>5 DEF AutomationInv
  <2> QED BY <2>1, <2>4, <2>9, <2>10, Operating
<1>2. ASSUME NEW ordered \in RunRequest, Cal!RunNow(d, ordered) PROVE AutomationInv'
  <2>1. Cal!Is(d, {"active"}) /\ Cal!TargetsExist /\ Cal!Operate /\ UNCHANGED definition
        /\ occurrences' = Cal!Materialized(d, time, ordered, time)
    BY <1>2 DEF Cal!RunNow
  <2>2. OccurrencesSound' /\ Keys' = Keys \cup {Cal!Key(d, time, ordered, e) : e \in Endpoint}
    BY <1>0, <2>1, Materializing
  <2>3. time' = time BY <2>1 DEF Cal!Operate, Cal!Quiet
  <2>4. ASSUME NEW c \in Definition PROVE Ordered(c)'
    <3>1. ordered # "scheduled" BY <1>0 DEF Cal!AutomationAssumption
    <3>2. \A k \in Keys' : \/ k \in Keys \/ k.definition # c
                           \/ /\ k.run # "scheduled" /\ k.revision = definition[c].revision
                              /\ definition[c].state # "none"
      BY <2>1, <2>2, <3>1 DEF Cal!Key, Cal!Is
    <3> QED BY <1>0, <2>1, <2>2, <2>3, <3>2, OrderKeeps
  <2> QED BY <2>1, <2>2, <2>4, Operating DEF AutomationInv
<1> QED BY <1>1, <1>2

LEMMA CancelNextStep == ASSUME AutomationInv, NEW d \in Definition, Cal!CancelNext(d) PROVE AutomationInv'
<1> DEFINE row == definition[d]
           keys == {k \in {Cal!Key(d, row.next, "scheduled", e) : e \in Endpoint} : ~Cal!Known(k)}
           O(k) == [definition |-> k.definition, revision |-> k.revision, due |-> k.due, run |-> k.run,
                    endpoint |-> k.endpoint, status |-> "cancelled", job |-> "none"]
           N == {O(k) : k \in keys}
<1>0. /\ time \in Nat /\ time' = time /\ row \in DefinitionRec /\ DefinitionSound(row) /\ Ordered(d) /\ Cal!Operate
      /\ UNCHANGED definition /\ occurrences' = occurrences \cup N /\ Cal!Is(d, {"active", "paused"}) /\ row.next # 0
  BY DEF AutomationInv, Cal!AutomationAssumption, Cal!Time, Cal!CancelNext, Cal!Operate, Cal!Quiet
<1>1. row.next \in Cal!Time /\ row.next \in Nat BY <1>0 DEF DefinitionRec, AutomationInv, Cal!AutomationAssumption, Cal!Time
<1>2. ASSUME NEW k \in keys
      PROVE  /\ O(k) \in OccurrenceRec /\ Cal!KeyOf(O(k)) = k /\ ~Cal!Known(k) /\ O(k).job = "none" /\ O(k).endpoint = k.endpoint
             /\ \E e \in Endpoint : k = Cal!Key(d, row.next, "scheduled", e)
  <2>1. PICK e \in Endpoint : k = Cal!Key(d, row.next, "scheduled", e) OBVIOUS
  <2>2. /\ k.definition = d /\ k.revision = row.revision /\ k.due = row.next /\ k.run = "scheduled" /\ k.endpoint = e
    BY <2>1 DEF Cal!Key
  <2>3. O(k) \in OccurrenceRec BY <1>0, <1>1, <2>2 DEF OccurrenceRec, DefinitionRec
  <2>4. Cal!KeyOf(O(k)) = k BY <2>1, <2>2 DEF Cal!KeyOf, Cal!Key
  <2> QED BY <2>1, <2>3, <2>4
<1>3. \A n \in N : \E k \in keys : n = O(k) OBVIOUS
<1>4. \A k, l \in keys : k.endpoint = l.endpoint => k = l BY <1>2 DEF Cal!Key
<1>5. \A k \in keys : O(k) \in N OBVIOUS
<1>6. \A e \in Endpoint : Cal!Key(d, row.next, "scheduled", e) \in keys \/ Cal!Key(d, row.next, "scheduled", e) \in Keys
  BY DEF Cal!Known, Keys
<1> HIDE DEF N, keys, O
<1>7. \A n \in N : /\ n \in OccurrenceRec /\ Cal!KeyOf(n) \in keys /\ n = O(Cal!KeyOf(n)) /\ ~Cal!Known(Cal!KeyOf(n)) /\ n.job = "none"
                   /\ n.endpoint = Cal!KeyOf(n).endpoint
  BY <1>2, <1>3
<1>8. OccurrencesSound' /\ Keys' = Keys \cup {Cal!KeyOf(n) : n \in N}
  <2>1. OccurrencesSound /\ N \subseteq OccurrenceRec BY <1>7 DEF AutomationInv
  <2>2. \A n \in N : /\ ~Cal!Known(Cal!KeyOf(n)) /\ (n.job \in Cal!ActiveJob => ~Cal!Busy(n.endpoint))
                     /\ n.status = "cancelled" => n.job \in {"none", "cancelled"}
    BY <1>7 DEF Cal!ActiveJob
  <2>3. \A n, m \in N : n.endpoint = m.endpoint => n = m BY <1>4, <1>7
  <2> QED BY <1>0, <2>1, <2>2, <2>3, Adding
<1>9. Keys' = Keys \cup {Cal!Key(d, row.next, "scheduled", e) : e \in Endpoint}
  <2>1. {Cal!KeyOf(n) : n \in N} \subseteq {Cal!Key(d, row.next, "scheduled", e) : e \in Endpoint} BY <1>2, <1>7
  <2>2. \A k \in keys : k \in {Cal!KeyOf(n) : n \in N} BY <1>2, <1>5
  <2> QED BY <1>6, <1>8, <2>1, <2>2
<1>10. \A k \in Keys' : \/ k \in Keys
                        \/ /\ k.definition = d /\ k.revision = row.revision /\ k.run = "scheduled" /\ k.due = row.next
  BY <1>9 DEF Cal!Key
<1>11. \A t : Done(d, t) => Done(d, t)' BY <1>0, <1>9 DEF Done, Cal!Key
<1>12. Cal!Slots(row) \subseteq Nat BY <1>0, SlotsOf DEF DefinitionSound, AutomationInv, Cal!AutomationAssumption, Cal!Time
<1>13. Ordered(d)'
  <2>1. \A k \in Keys' : k.definition = d => definition'[d].state # "none" /\ k.revision <= definition'[d].revision
    <3>1. row.revision \in Nat BY <1>0 DEF DefinitionRec
    <3> QED BY <1>0, <1>10, <3>1 DEF Ordered, Cal!Is
  <2>2. ASSUME NEW t \in Cal!Slots(row), NEW k \in Keys', Scheduled(d, k)', t < k.due
        PROVE  /\ row.next # 0 /\ row.next <= t => Done(d, t)'
               /\ time <= t => Done(d, t)'
    <3>1. CASE k \in Keys
      <4>1. Scheduled(d, k) BY <1>0, <2>2, <3>1 DEF Scheduled
      <4> QED BY <1>0, <1>11, <2>2, <3>1, <4>1 DEF Ordered
    <3>2. CASE k.due = row.next
      <4>1. ~(row.next <= t) /\ t < row.next BY <1>1, <1>12, <2>2, <3>2
      <4> QED BY <1>0, <1>11, <4>1 DEF Ordered
    <3> QED BY <1>10, <3>1, <3>2
  <2>3. \A t \in Cal!Slots(row) : time <= t /\ t < row.next => Done(d, t)' BY <1>0, <1>11 DEF Ordered
  <2>4. definition'[d] = row /\ Cal!Slots(definition[d])' = Cal!Slots(row) BY <1>0
  <2> QED BY <1>0, <2>1, <2>2, <2>3, <2>4 DEF Ordered
<1>14. ASSUME NEW c \in Definition PROVE Ordered(c)'
  <2>1. CASE c = d BY <1>13, <2>1
  <2>2. CASE c # d
    <3>1. \A k \in Keys' : k \in Keys \/ k.definition # c BY <1>10, <2>2
    <3>2. time' \in Nat /\ time <= time' BY <1>0
    <3>3. Keys \subseteq Keys' BY <1>9
    <3> QED BY <1>0, <3>1, <3>2, <3>3, OrderKeeps
  <2> QED BY <2>1, <2>2
<1> QED BY <1>0, <1>8, <1>14, Operating DEF AutomationInv

LEMMA PauseStep == ASSUME AutomationInv, NEW d \in Definition, Cal!Pause(d) PROVE AutomationInv'
<1> DEFINE row == [definition[d] EXCEPT !.state = "paused"]
<1>0. time \in Nat /\ time' = time /\ definition[d] \in DefinitionRec /\ DefinitionSound(definition[d]) /\ Cal!Operate
      /\ Cal!Save(d, row) /\ UNCHANGED occurrences
  BY DEF AutomationInv, Cal!AutomationAssumption, Cal!Time, Cal!Pause, Cal!Operate, Cal!Quiet
<1>1. /\ row \in DefinitionRec /\ row.state = "paused" /\ row.next = definition[d].next /\ row.kind = definition[d].kind
      /\ row.start = definition[d].start /\ row.revision = definition[d].revision
  BY <1>0 DEF DefinitionRec
<1> HIDE DEF row
<1>2. DefinitionSound(row) BY <1>0, <1>1 DEF DefinitionSound, Cal!Slots
<1>3. definition' = [definition EXCEPT ![d] = row] /\ definition'[d] = row BY <1>0 DEF Cal!Save, AutomationInv
<1>4. Keys' = Keys /\ OccurrencesSound'
  BY <1>0 DEF AutomationInv, OccurrencesSound, OneActive, Cal!OncePerSlot, Cal!CancelledWasNotSent, Keys
<1>5. Ordered(d)' BY <1>0, <1>1, <1>3, <1>4, OrderKeeps
<1>6. \A c \in Definition : definition[c].state # "none" => definition'[c].state # "none"
  BY <1>1, <1>3 DEF AutomationInv
<1> QED BY <1>0, <1>1, <1>2, <1>4, <1>5, <1>6, Saved, Operating

LEMMA ResumeStep == ASSUME AutomationInv, NEW d \in Definition, Cal!Resume(d) PROVE AutomationInv'
<1> DEFINE old == definition[d]
           next == Cal!Slot(old, time)
           state == IF next = 0 THEN "finished" ELSE "active"
           row == [old EXCEPT !.state = state, !.next = next, !.retries = 0, !.retryAt = 0]
<1>0. /\ time \in Nat \ {0} /\ time' = time /\ old \in DefinitionRec /\ DefinitionSound(old) /\ Cal!Operate /\ Ordered(d)
      /\ Cal!Save(d, row) /\ UNCHANGED occurrences /\ Cal!AutomationAssumption /\ 0 \in 0..MaxRetries /\ MaxRetries > 0
      /\ Cal!Is(d, {"paused"}) /\ \A t \in Cal!Time : t \in Nat
  BY DEF AutomationInv, Cal!AutomationAssumption, Cal!Time, Cal!Resume, Cal!Operate, Cal!Quiet
<1>1. Cal!Slots(old) \subseteq Cal!Time \cup {0} BY <1>0, SlotsOf DEF DefinitionSound
<1>2. /\ next \in {0} \cup Cal!Time
      /\ next # 0 => /\ next \in Cal!Slots(old) /\ time <= next /\ \A t \in Cal!Slots(old) : time <= t => next <= t
  BY <1>0, <1>1, SlotIs
<1>3. state \in {"finished", "active"} /\ (state = "active" => next # 0) OBVIOUS
<1> HIDE DEF next, state
<1>4. /\ row \in DefinitionRec /\ row.state = state /\ row.next = next /\ row.kind = old.kind /\ row.retries = 0
      /\ row.start = old.start /\ row.revision = old.revision
  BY <1>0, <1>2, <1>3 DEF DefinitionRec, Cal!ClosedState
<1> HIDE DEF row
<1>5. Cal!Slots(row) = Cal!Slots(old) BY <1>4 DEF Cal!Slots
<1>6. DefinitionSound(row) BY <1>0, <1>2, <1>3, <1>4, <1>5 DEF DefinitionSound
<1>7. definition' = [definition EXCEPT ![d] = row] /\ definition'[d] = row BY <1>0 DEF Cal!Save, AutomationInv
<1>8. Keys' = Keys /\ OccurrencesSound'
  BY <1>0 DEF AutomationInv, OccurrencesSound, OneActive, Cal!OncePerSlot, Cal!CancelledWasNotSent, Keys
<1>9. Ordered(d)'
  <2>1. \A t : Done(d, t)' <=> Done(d, t) BY <1>4, <1>7, <1>8 DEF Done, Cal!Key
  <2>2. \A k : Scheduled(d, k)' <=> Scheduled(d, k) BY <1>4, <1>7, <1>8 DEF Scheduled
  <2>3. Cal!Slots(definition[d])' = Cal!Slots(old) BY <1>5, <1>7 DEF Cal!Slots
  <2>4. ASSUME NEW t \in Cal!Slots(old), NEW k \in Keys, Scheduled(d, k), t < k.due
        PROVE  /\ next # 0 /\ next <= t => Done(d, t)
               /\ time <= t => Done(d, t)
    <3>1. t \in Nat BY <1>0, <1>1
    <3>2. next # 0 /\ next <= t => time <= t BY <1>0, <1>2, <3>1
    <3> QED BY <1>0, <2>4, <3>2 DEF Ordered
  <2>5. \A t \in Cal!Slots(old) : ~(time <= t /\ t < next)
    <3>1. \A t \in Cal!Slots(old) : t \in Nat BY <1>0, <1>1
    <3> QED BY <1>0, <1>2, <3>1
  <2>6. \A k \in Keys : k.definition = d => row.state # "none" /\ k.revision <= row.revision
    BY <1>0, <1>3, <1>4 DEF Ordered
  <2> QED BY <1>0, <1>4, <1>7, <1>8, <2>1, <2>2, <2>3, <2>4, <2>5, <2>6 DEF Ordered
<1>10. \A c \in Definition : definition[c].state # "none" => definition'[c].state # "none"
  BY <1>3, <1>4, <1>7 DEF AutomationInv
<1> QED BY <1>0, <1>4, <1>6, <1>8, <1>9, <1>10, Saved, Operating

LEMMA CancelDefinitionStep == ASSUME AutomationInv, NEW d \in Definition, Cal!CancelDefinition(d) PROVE AutomationInv'
<1> DEFINE row == [definition[d] EXCEPT !.state = "cancelled", !.next = 0]
           G(o) == IF o.definition = d /\ o.job = "queued"
                   THEN [o EXCEPT !.status = "cancelled", !.job = "cancelled"] ELSE o
           g == [o \in occurrences |-> G(o)]
<1>0. time \in Nat /\ time' = time /\ definition[d] \in DefinitionRec /\ DefinitionSound(definition[d]) /\ Cal!Operate
      /\ Cal!Save(d, row) /\ occurrences' = {G(o) : o \in occurrences} /\ OccurrencesSound
  <2>1. Cal!Save(d, row) /\ Cal!Operate /\ occurrences' = {G(o) : o \in occurrences} BY DEF Cal!CancelDefinition
  <2>2. time' = time BY <2>1 DEF Cal!Operate, Cal!Quiet
  <2>3. time \in Nat /\ definition[d] \in DefinitionRec /\ DefinitionSound(definition[d]) /\ OccurrencesSound
    BY DEF AutomationInv, Cal!AutomationAssumption, Cal!Time
  <2> QED BY <2>1, <2>2, <2>3
<1>1. /\ row \in DefinitionRec /\ row.state = "cancelled" /\ row.next = 0 /\ row.kind = definition[d].kind
      /\ row.start = definition[d].start /\ row.revision = definition[d].revision
  BY <1>0 DEF DefinitionRec, Cal!ClosedState
<1> HIDE DEF row
<1>2. DefinitionSound(row) BY <1>0, <1>1 DEF DefinitionSound
<1>3. definition' = [definition EXCEPT ![d] = row] /\ definition'[d] = row BY <1>0 DEF Cal!Save, AutomationInv
<1>4. ASSUME NEW o \in occurrences
      PROVE  /\ G(o) \in OccurrenceRec /\ Cal!KeyOf(G(o)) = Cal!KeyOf(o) /\ (G(o).job \in Cal!ActiveJob => o.job \in Cal!ActiveJob)
             /\ G(o).status = "cancelled" => G(o).job \in {"none", "cancelled"}
  <2>1. o \in OccurrenceRec /\ (o.status = "cancelled" => o.job \in {"none", "cancelled"})
    BY <1>0 DEF OccurrencesSound, Cal!CancelledWasNotSent
  <2> QED BY <2>1 DEF OccurrenceRec, Cal!KeyOf, Cal!ActiveJob
<1>5. g \in [occurrences -> OccurrenceRec] BY <1>4
<1>6. occurrences' = {g[o] : o \in occurrences} /\ \A o \in occurrences : g[o] = G(o) BY <1>0
<1> HIDE DEF g, G
<1>7. Keys' = Keys /\ OccurrencesSound' BY <1>0, <1>4, <1>5, <1>6, Rewriting
<1>8. Ordered(d)' BY <1>0, <1>1, <1>3, <1>7, OrderKeeps
<1>9. \A c \in Definition : definition[c].state # "none" => definition'[c].state # "none"
  BY <1>1, <1>3 DEF AutomationInv
<1> QED BY <1>0, <1>1, <1>2, <1>7, <1>8, <1>9, Saved, Operating

\* The definitions stay, occurrences are rewritten.
LEMMA OnlyRewritten ==
  ASSUME AutomationInv, UNCHANGED <<time, definition, endpoint>>, OccurrencesSound', Keys' = Keys,
         round' \in [Scheduler -> RoundRec], \A s \in Scheduler : RoundSound(s)'
  PROVE  AutomationInv'
<1>1. time' \in Nat /\ time <= time' BY DEF AutomationInv, Cal!AutomationAssumption, Cal!Time
<1>2. \A d \in Definition : Ordered(d)' BY <1>1, OrderKeeps
<1> QED BY <1>2, Assembled DEF AutomationInv

LEMMA OccurrenceStep ==
  ASSUME AutomationInv, NEW o \in occurrences, Cal!CancelOccurrence(o) \/ Cal!Deliver(o) \/ Cal!EndJob(o)
  PROVE  AutomationInv'
<1>0. /\ o \in OccurrenceRec /\ OccurrencesSound /\ (o.status = "cancelled" => o.job \in {"none", "cancelled"})
      /\ time \in Nat
  BY DEF AutomationInv, OccurrencesSound, Cal!CancelledWasNotSent, Cal!AutomationAssumption, Cal!Time
<1>1. \E n \in OccurrenceRec : /\ Cal!KeyOf(n) = Cal!KeyOf(o) /\ (n.job \in Cal!ActiveJob => o.job \in Cal!ActiveJob)
                               /\ n.status = "cancelled" => n.job \in {"none", "cancelled"}
                               /\ occurrences' = (occurrences \ {o}) \cup {n}
  <2>1. CASE Cal!CancelOccurrence(o)
    <3> DEFINE n == [o EXCEPT !.status = "cancelled", !.job = "cancelled"]
    <3>1. n \in OccurrenceRec /\ Cal!KeyOf(n) = Cal!KeyOf(o) /\ n.job = "cancelled" BY <1>0 DEF OccurrenceRec, Cal!KeyOf
    <3>2. occurrences' = (occurrences \ {o}) \cup {n} BY <2>1 DEF Cal!CancelOccurrence
    <3> HIDE DEF n
    <3> QED BY <3>1, <3>2 DEF Cal!ActiveJob
  <2>2. CASE Cal!Deliver(o)
    <3> DEFINE standing == IF endpoint[o.endpoint] = "online" THEN "sent" ELSE "ended"
               n == [o EXCEPT !.job = standing]
    <3>1. standing \in {"sent", "ended"} OBVIOUS
    <3>2. occurrences' = (occurrences \ {o}) \cup {n} /\ o.job = "queued" BY <2>2 DEF Cal!Deliver
    <3> HIDE DEF standing
    <3>3. n \in OccurrenceRec /\ Cal!KeyOf(n) = Cal!KeyOf(o) /\ n.status = o.status BY <1>0, <3>1 DEF OccurrenceRec, Cal!KeyOf
    <3> HIDE DEF n
    <3> QED BY <1>0, <3>2, <3>3 DEF Cal!ActiveJob
  <2>3. CASE Cal!EndJob(o)
    <3> DEFINE n == [o EXCEPT !.job = "ended"]
    <3>1. n \in OccurrenceRec /\ Cal!KeyOf(n) = Cal!KeyOf(o) /\ n.job = "ended" /\ n.status = o.status
      BY <1>0 DEF OccurrenceRec, Cal!KeyOf
    <3>2. occurrences' = (occurrences \ {o}) \cup {n} /\ o.job = "sent" BY <2>3 DEF Cal!EndJob
    <3> HIDE DEF n
    <3> QED BY <1>0, <3>1, <3>2 DEF Cal!ActiveJob
  <2> QED BY <2>1, <2>2, <2>3
<1>2. OccurrencesSound' /\ Keys' = Keys BY <1>0, <1>1, RewritingOne
<1>3. UNCHANGED <<time, definition, endpoint, round>>
  BY DEF Cal!CancelOccurrence, Cal!Deliver, Cal!EndJob, Cal!Operate, Cal!Quiet
<1>4. round' \in [Scheduler -> RoundRec] /\ \A s \in Scheduler : RoundSound(s)'
  BY <1>0, <1>3, RoundsStay DEF AutomationInv
<1> QED BY <1>2, <1>3, <1>4, OnlyRewritten

LEMMA BeginRoundStep == ASSUME AutomationInv, NEW s \in Scheduler, Cal!BeginRound(s) PROVE AutomationInv'
<1> DEFINE next == [Cal!NoRound EXCEPT !.now = time, !.list = {d \in Definition : Cal!Due(d, time)}]
           G(o) == IF o.job \in Cal!ActiveJob /\ time >= o.due + Validity THEN [o EXCEPT !.job = "ended"] ELSE o
           g == [o \in occurrences |-> G(o)]
<1>0. time \in Nat /\ time \in Cal!Time /\ OccurrencesSound BY DEF AutomationInv, Cal!AutomationAssumption, Cal!Time
<1>1. Cal!Walk(s, next) /\ UNCHANGED <<time, definition, endpoint>> /\ occurrences' = {G(o) : o \in occurrences}
  BY DEF Cal!BeginRound
<1>2. /\ next \in RoundRec /\ next.now = time /\ next.list \cup next.failed \subseteq Definition
      /\ \A d \in next.list \cup next.failed : Cal!Due(d, time)
  BY <1>0 DEF Cal!NoRound, RoundRec
<1> HIDE DEF next
<1>3. round' \in [Scheduler -> RoundRec] /\ \A q \in Scheduler : RoundSound(q)'
  <2>1. \A d \in next.list \cup next.failed : definition[d].state # "none" BY <1>2 DEF Cal!Due, Cal!Is
  <2>2. next.now <= time BY <1>0, <1>2
  <2> QED BY <1>1, <1>2, <2>1, <2>2, Walks
<1>4. ASSUME NEW o \in occurrences
      PROVE  /\ G(o) \in OccurrenceRec /\ Cal!KeyOf(G(o)) = Cal!KeyOf(o) /\ (G(o).job \in Cal!ActiveJob => o.job \in Cal!ActiveJob)
             /\ G(o).status = "cancelled" => G(o).job \in {"none", "cancelled"}
  <2>1. o \in OccurrenceRec /\ (o.status = "cancelled" => o.job \in {"none", "cancelled"})
    BY <1>0 DEF OccurrencesSound, Cal!CancelledWasNotSent
  <2> DEFINE n == [o EXCEPT !.job = "ended"]
  <2>2. n \in OccurrenceRec /\ Cal!KeyOf(n) = Cal!KeyOf(o) /\ n.job = "ended" /\ n.status = o.status
    BY <2>1 DEF OccurrenceRec, Cal!KeyOf
  <2> HIDE DEF n
  <2>3. G(o) = o \/ (G(o) = n /\ o.job \in Cal!ActiveJob) BY DEF n
  <2> HIDE DEF G
  <2> QED BY <2>1, <2>2, <2>3 DEF Cal!ActiveJob
<1>5. g \in [occurrences -> OccurrenceRec] BY <1>4
<1>6. occurrences' = {g[o] : o \in occurrences} /\ \A o \in occurrences : g[o] = G(o) BY <1>1
<1> HIDE DEF g, G
<1>7. Keys' = Keys /\ OccurrencesSound' BY <1>0, <1>4, <1>5, <1>6, Rewriting
<1> QED BY <1>1, <1>3, <1>7, OnlyRewritten

LEMMA ProcessingStep == ASSUME AutomationInv, NEW s \in Scheduler, NEW d \in Definition, Cal!Process(s, d) PROVE AutomationInv'
<1> DEFINE now == round[s].now
           old == definition[d]
           due == Cal!LatestDue(old, now)
           next == Cal!Slot(old, due + 1)
           walk == [round[s] EXCEPT !.list = @ \ {d}]
           state == IF next = 0 THEN "finished" ELSE old.state
           row == [old EXCEPT !.next = next, !.retries = 0, !.retryAt = 0, !.state = state]
<1>0. /\ time \in Nat \ {0} /\ old \in DefinitionRec /\ DefinitionSound(old) /\ Ordered(d) /\ Cal!AutomationAssumption
      /\ MaxRetries > 0 /\ 0 \in 0..MaxRetries /\ (\A t \in Cal!Time : t \in Nat \ {0})
      /\ round[s] \in RoundRec /\ RoundSound(s) /\ OccurrencesSound
  BY DEF AutomationInv, Cal!AutomationAssumption, Cal!Time
<1>1. /\ Cal!Walk(s, walk) /\ UNCHANGED <<time, endpoint>>
      /\ IF Cal!Due(d, now)
         THEN Cal!TargetsExist /\ occurrences' = Cal!Materialized(d, due, "scheduled", now) /\ Cal!Save(d, row)
         ELSE UNCHANGED <<definition, occurrences>>
  BY DEF Cal!Process
<1>2. /\ walk \in RoundRec /\ walk.now = now /\ walk.list \cup walk.failed \subseteq round[s].list \cup round[s].failed
      /\ now \in {0} \cup Cal!Time
  BY <1>0 DEF RoundRec
<1> HIDE DEF walk
<1>3. ASSUME \A c \in Definition : definition[c].state # "none" => definition'[c].state # "none"
      PROVE  round' \in [Scheduler -> RoundRec] /\ \A q \in Scheduler : RoundSound(q)'
  <2>1. walk.now <= time /\ \A c \in walk.list \cup walk.failed : definition[c].state # "none"
    BY <1>0, <1>2 DEF RoundSound
  <2> QED BY <1>1, <1>2, <1>3, <2>1, Walks
<1>4. CASE ~Cal!Due(d, now)
  <2>1. UNCHANGED <<definition, occurrences>> BY <1>1, <1>4
  <2>2. round' \in [Scheduler -> RoundRec] /\ \A q \in Scheduler : RoundSound(q)' BY <1>3, <2>1
  <2>3. OccurrencesSound' /\ Keys' = Keys
    BY <1>0, <2>1 DEF OccurrencesSound, OneActive, Cal!OncePerSlot, Cal!CancelledWasNotSent, Keys
  <2> QED BY <1>1, <2>1, <2>2, <2>3, OnlyRewritten
<1>5. CASE Cal!Due(d, now)
  <2>0. /\ Cal!TargetsExist /\ occurrences' = Cal!Materialized(d, due, "scheduled", now) /\ Cal!Save(d, row)
        /\ old.state = "active" /\ old.next \in 1..now
    BY <1>1, <1>5 DEF Cal!Due, Cal!Is
  <2>1. now \in Cal!Time /\ now \in Nat /\ now <= time /\ old.next \in Nat /\ old.next # 0
    BY <1>0, <1>2, <2>0 DEF RoundSound
  <2>2. /\ due \in Cal!Slots(old) /\ due \in Cal!Time /\ old.next <= due /\ due <= now
        /\ \A t \in Cal!Slots(old) : t <= now => t <= due
    BY <1>0, <2>0, <2>1, LatestIs
  <2>3. Cal!Slots(old) \subseteq Cal!Time \cup {0} BY <1>0, SlotsOf DEF DefinitionSound
  <2>4. due \in Nat /\ due + 1 \in Nat \ {0} BY <1>0, <2>2
  <2> HIDE DEF due
  <2>5. /\ next \in {0} \cup Cal!Time
        /\ next # 0 => /\ next \in Cal!Slots(old) /\ due + 1 <= next /\ \A t \in Cal!Slots(old) : due + 1 <= t => next <= t
    BY <1>0, <2>3, <2>4, SlotIs
  <2>6. state \in {"finished", "active"} /\ (state = "active" => next # 0) BY <2>0
  <2> HIDE DEF next, state
  <2>7. /\ row \in DefinitionRec /\ row.state = state /\ row.next = next /\ row.kind = old.kind /\ row.retries = 0
        /\ row.start = old.start /\ row.revision = old.revision
    BY <1>0, <2>5, <2>6 DEF DefinitionRec, Cal!ClosedState
  <2> HIDE DEF row
  <2>8. Cal!Slots(row) = Cal!Slots(old) BY <2>7 DEF Cal!Slots
  <2>9. DefinitionSound(row) BY <1>0, <2>5, <2>6, <2>7, <2>8 DEF DefinitionSound
  <2>10. definition' = [definition EXCEPT ![d] = row] /\ definition'[d] = row BY <2>0 DEF Cal!Save, AutomationInv
  <2>11. OccurrencesSound' /\ Keys' = Keys \cup {Cal!Key(d, due, "scheduled", e) : e \in Endpoint}
    BY <2>0, <2>1, <2>2, Materializing
  <2>12. /\ \A t : Done(d, t) => Done(d, t)'
         /\ \A t : t = due => Done(d, t)'
    <3>1. \A t, e : Cal!Key(d, t, "scheduled", e)' = Cal!Key(d, t, "scheduled", e) BY <2>7, <2>10 DEF Cal!Key
    <3> QED BY <2>11, <3>1 DEF Done
  <2>13. \A k \in Keys' : \/ k \in Keys \/ (k.definition = d /\ k.revision = old.revision /\ k.due = due)
    BY <2>11 DEF Cal!Key
  <2>14. Ordered(d)'
    <3>1. \A k \in Keys' : k.definition = d => row.state # "none" /\ k.revision <= row.revision
      <4>1. row.revision \in Nat BY <2>7 DEF DefinitionRec
      <4> QED BY <1>0, <2>6, <2>7, <2>13, <4>1 DEF Ordered
    <3>2. ASSUME NEW t \in Cal!Slots(old), NEW k \in Keys', Scheduled(d, k)', t < k.due
          PROVE  /\ next # 0 /\ next <= t => Done(d, t)'
                 /\ time <= t => Done(d, t)'
      <4>0. t \in Nat /\ next \in Nat BY <1>0, <2>3, <2>5
      <4>1. CASE k \in Keys
        <5>1. Scheduled(d, k) BY <2>7, <2>10, <3>2, <4>1 DEF Scheduled
        <5>2. next # 0 /\ next <= t => old.next # 0 /\ old.next <= t BY <2>1, <2>2, <2>4, <2>5, <4>0
        <5> QED BY <1>0, <2>12, <3>2, <4>1, <5>1, <5>2 DEF Ordered
      <4>2. CASE k.due = due
        <5>1. ~(next # 0 /\ next <= t) /\ ~(time <= t) BY <1>0, <2>1, <2>2, <2>4, <2>5, <3>2, <4>0, <4>2
        <5> QED BY <5>1
      <4> QED BY <2>13, <4>1, <4>2
    <3>3. ASSUME NEW t \in Cal!Slots(old), time <= t, t < next PROVE Done(d, t)'
      <4>0. t \in Nat /\ next \in Nat BY <1>0, <2>3, <2>5
      <4>1. next # 0 /\ ~(due + 1 <= t) /\ due <= t BY <1>0, <2>1, <2>2, <2>4, <2>5, <3>3, <4>0
      <4>2. t = due BY <2>4, <4>0, <4>1
      <4> QED BY <2>12, <4>2
    <3>4. Cal!Slots(definition[d])' = Cal!Slots(old) BY <2>8, <2>10 DEF Cal!Slots
    <3> QED BY <1>1, <2>7, <2>10, <3>1, <3>2, <3>3, <3>4 DEF Ordered
  <2>15. /\ definition' \in [Definition -> DefinitionRec]
         /\ \A c \in Definition : DefinitionSound(definition'[c]) /\ Ordered(c)'
    <3>1. \A k \in Keys' : k \in Keys \/ k.definition = d BY <2>13
    <3> QED BY <1>1, <2>0, <2>7, <2>9, <2>11, <2>14, <3>1, Saved
  <2>16. \A c \in Definition : definition[c].state # "none" => definition'[c].state # "none"
    BY <2>6, <2>7, <2>10 DEF AutomationInv
  <2>17. round' \in [Scheduler -> RoundRec] /\ \A q \in Scheduler : RoundSound(q)' BY <1>3, <2>16
  <2> QED BY <1>1, <2>11, <2>15, <2>17, Assembled DEF AutomationInv
<1> QED BY <1>4, <1>5

\* Rows that change neither their calendar nor their revision, while nothing is scheduled.
LEMMA Noted ==
  ASSUME AutomationInv, UNCHANGED <<time, occurrences, endpoint>>, NEW f \in [Definition -> DefinitionRec],
         definition' = f,
         \A d \in Definition :
           LET old == definition[d] new == f[d] IN
             /\ new.revision = old.revision /\ new.kind = old.kind /\ new.start = old.start /\ new.next = old.next
             /\ (old.state # "none" => new.state # "none") /\ (new.state = "none" => old.state = "none")
             /\ new.state = "active" => old.state = "active" /\ new.retries < MaxRetries,
         round' \in [Scheduler -> RoundRec], \A s \in Scheduler : RoundSound(s)'
  PROVE  AutomationInv'
<1>0. time' \in Nat /\ time <= time' /\ time' \in Cal!Time BY DEF AutomationInv, Cal!AutomationAssumption, Cal!Time
<1>1. OccurrencesSound' /\ Keys' = Keys
  BY DEF AutomationInv, OccurrencesSound, OneActive, Cal!OncePerSlot, Cal!CancelledWasNotSent, Keys
<1>2. ASSUME NEW d \in Definition PROVE DefinitionSound(definition'[d]) /\ Ordered(d)'
  <2>1. Ordered(d)' BY <1>0, <1>1, OrderKeeps
  <2>2. DefinitionSound(definition[d]) BY DEF AutomationInv
  <2>3. Cal!Slots(f[d]) = Cal!Slots(definition[d]) BY DEF Cal!Slots
  <2>4. DefinitionSound(f[d]) BY <2>2, <2>3 DEF DefinitionSound
  <2> QED BY <2>1, <2>4
<1> QED BY <1>0, <1>1, <1>2, Assembled DEF AutomationInv

LEMMA ProcessFailsStep ==
  ASSUME AutomationInv, NEW s \in Scheduler, NEW d \in Definition, Cal!ProcessFails(s, d) PROVE AutomationInv'
<1>0. round[s] \in RoundRec /\ RoundSound(s) /\ d \in round[s].list /\ UNCHANGED <<time, definition, occurrences, endpoint>>
  BY DEF AutomationInv, Cal!ProcessFails
<1>1. PICK at \in {"lost", "refused"} : Cal!Walk(s, [round[s] EXCEPT !.list = @ \ {d}, !.failed = {d}, !.at = at])
  BY DEF Cal!ProcessFails
<1> DEFINE walk == [round[s] EXCEPT !.list = @ \ {d}, !.failed = {d}, !.at = at]
<1>2. walk \in RoundRec /\ walk.now = round[s].now /\ walk.list \cup walk.failed \subseteq round[s].list
  BY <1>0 DEF RoundRec
<1>3. Cal!Walk(s, walk) BY <1>1
<1> HIDE DEF walk
<1>4. round' \in [Scheduler -> RoundRec] /\ \A q \in Scheduler : RoundSound(q)'
  <2>1. walk.now <= time /\ \A c \in walk.list \cup walk.failed : definition[c].state # "none"
    BY <1>0, <1>2 DEF RoundSound
  <2> QED BY <1>0, <1>2, <1>3, <2>1, Walks
<1> QED BY <1>0, <1>4, Noted DEF AutomationInv, DefinitionSound

LEMMA NoteStep == ASSUME AutomationInv, NEW s \in Scheduler, Cal!NoteLost(s) \/ Cal!NoteRefused(s) PROVE AutomationInv'
<1> DEFINE walk == [round[s] EXCEPT !.at = "walk", !.failed = {}]
<1>0. /\ round[s] \in RoundRec /\ RoundSound(s) /\ time \in Nat /\ MaxRetries \in Nat /\ (\A t \in Cal!Time : t \in Nat)
      /\ \A d \in Definition : definition[d] \in DefinitionRec /\ DefinitionSound(definition[d])
  BY DEF AutomationInv, Cal!AutomationAssumption, Cal!Time
<1>1. Cal!Walk(s, walk) /\ UNCHANGED <<time, occurrences, endpoint>> BY DEF Cal!NoteLost, Cal!NoteRefused
<1>2. walk \in RoundRec /\ walk.now = round[s].now /\ walk.list \cup walk.failed \subseteq round[s].list
  BY <1>0 DEF RoundRec
<1> HIDE DEF walk
<1>3. ASSUME \A c \in Definition : definition[c].state # "none" => definition'[c].state # "none"
      PROVE  round' \in [Scheduler -> RoundRec] /\ \A q \in Scheduler : RoundSound(q)'
  <2>1. walk.now <= time /\ \A c \in walk.list \cup walk.failed : definition[c].state # "none"
    BY <1>0, <1>2 DEF RoundSound
  <2> QED BY <1>1, <1>2, <1>3, <2>1, Walks
<1>4. CASE Cal!NoteLost(s)
  <2> DEFINE P(d) == [definition[d] EXCEPT !.state = "paused"]
             f == [d \in Definition |-> IF d \in round[s].failed THEN P(d) ELSE definition[d]]
  <2>1. definition' = f BY <1>4 DEF Cal!NoteLost
  <2>2. ASSUME NEW d \in Definition
        PROVE  /\ P(d) \in DefinitionRec /\ P(d).state = "paused" /\ P(d).revision = definition[d].revision
               /\ P(d).kind = definition[d].kind /\ P(d).start = definition[d].start /\ P(d).next = definition[d].next
    BY <1>0 DEF DefinitionRec
  <2>3. \A d \in round[s].failed : definition[d].state # "none" BY <1>0 DEF RoundSound
  <2> HIDE DEF P
  <2>4. f \in [Definition -> DefinitionRec] BY <1>0, <2>2
  <2>5. \A d \in Definition : f[d] = definition[d] \/ (f[d] = P(d) /\ definition[d].state # "none") BY <2>3
  <2> HIDE DEF f
  <2>6. \A d \in Definition :
           LET old == definition[d] new == f[d] IN
             /\ new.revision = old.revision /\ new.kind = old.kind /\ new.start = old.start /\ new.next = old.next
             /\ (old.state # "none" => new.state # "none") /\ (new.state = "none" => old.state = "none")
             /\ new.state = "active" => old.state = "active" /\ new.retries < MaxRetries
    BY <1>0, <2>2, <2>5 DEF DefinitionSound
  <2>7. round' \in [Scheduler -> RoundRec] /\ \A q \in Scheduler : RoundSound(q)' BY <1>3, <2>1, <2>6
  <2> QED BY <1>1, <2>1, <2>4, <2>6, <2>7, Noted
<1>5. CASE Cal!NoteRefused(s)
  <2> DEFINE st(d) == IF definition[d].retries + 1 >= MaxRetries THEN "paused" ELSE definition[d].state
             P(d) == [definition[d] EXCEPT !.retries = @ + 1, !.retryAt = round[s].now + 1, !.state = st(d)]
             f == [d \in Definition |->
                    IF d \in round[s].failed /\ Cal!Is(d, {"active"}) /\ definition[d].next \in 1..round[s].now
                    THEN P(d) ELSE definition[d]]
  <2>1. definition' = f BY <1>5 DEF Cal!NoteRefused
  <2>2. round[s].now + 1 \in Nat BY <1>0 DEF RoundRec
  <2>3. ASSUME NEW d \in Definition, definition[d].state = "active"
        PROVE  /\ P(d) \in DefinitionRec /\ P(d).state \in {"active", "paused"} /\ P(d).revision = definition[d].revision
               /\ P(d).kind = definition[d].kind /\ P(d).start = definition[d].start /\ P(d).next = definition[d].next
               /\ P(d).state = "active" => P(d).retries < MaxRetries
    <3>1. definition[d].retries \in Nat /\ definition[d].retries + 1 \in 0..MaxRetries
      BY <1>0, <2>3 DEF DefinitionSound, DefinitionRec
    <3>2. st(d) \in {"active", "paused"} /\ (st(d) = "active" => definition[d].retries + 1 < MaxRetries)
      BY <1>0, <2>3, <3>1
    <3> HIDE DEF st
    <3>3. definition[d] \in DefinitionRec BY <1>0
    <3> QED BY <2>2, <3>1, <3>2, <3>3 DEF DefinitionRec
  <2> HIDE DEF P
  <2>4. f \in [Definition -> DefinitionRec] BY <1>0, <2>3 DEF Cal!Is
  <2>5. \A d \in Definition : f[d] = definition[d] \/ (f[d] = P(d) /\ definition[d].state = "active") BY DEF Cal!Is
  <2> HIDE DEF f
  <2>6. \A d \in Definition :
           LET old == definition[d] new == f[d] IN
             /\ new.revision = old.revision /\ new.kind = old.kind /\ new.start = old.start /\ new.next = old.next
             /\ (old.state # "none" => new.state # "none") /\ (new.state = "none" => old.state = "none")
             /\ new.state = "active" => old.state = "active" /\ new.retries < MaxRetries
    BY <1>0, <2>3, <2>5 DEF DefinitionSound
  <2>7. round' \in [Scheduler -> RoundRec] /\ \A q \in Scheduler : RoundSound(q)' BY <1>3, <2>1, <2>6
  <2> QED BY <1>1, <2>1, <2>4, <2>6, <2>7, Noted
<1> QED BY <1>4, <1>5

LEMMA AutomationStep == ASSUME AutomationInv, [Cal!AutomationNext]_automationV PROVE AutomationInv'
<1>0. time \in Nat /\ time \in Cal!Time /\ MaxTime \in Nat BY DEF AutomationInv, Cal!AutomationAssumption, Cal!Time
<1>1. CASE Cal!TimePasses \/ (\E e \in Endpoint : Cal!EndpointChanges(e)) \/ UNCHANGED automationV
  <2>1. UNCHANGED <<definition, occurrences, round>> /\ time' \in Cal!Time /\ time <= time'
    BY <1>0, <1>1 DEF Cal!TimePasses, Cal!EndpointChanges, automationV, Cal!Time
  <2>2. endpoint' \in [Endpoint -> {"online", "offline", "barred", "gone"}]
    BY <1>1 DEF Cal!TimePasses, Cal!EndpointChanges, automationV, AutomationInv
  <2> QED BY <2>1, <2>2, Undisturbed, RoundsStay, Assembled
<1> QED BY <1>1, SaveDefinitionStep, RunImmediatelyStep, CancelNextStep, PauseStep, ResumeStep, CancelDefinitionStep, OccurrenceStep,
      BeginRoundStep, ProcessingStep, ProcessFailsStep, NoteStep DEF Cal!AutomationNext

LEMMA CalendarKept == AutomationInv => Cal!CalendarIsKept /\ Cal!AutomationTypeOK
<1> SUFFICES ASSUME AutomationInv PROVE Cal!CalendarIsKept /\ Cal!AutomationTypeOK
  OBVIOUS
<1>1. ASSUME NEW e \in Endpoint PROVE Cardinality({o \in occurrences : o.endpoint = e /\ o.job \in Cal!ActiveJob}) <= 1
  <2> DEFINE S == {o \in occurrences : o.endpoint = e /\ o.job \in Cal!ActiveJob}
  <2>1. \A o, p \in S : o = p BY DEF AutomationInv, OccurrencesSound, OneActive
  <2> HIDE DEF S
  <2>2. CASE S = {} BY <2>2, FS_EmptySet DEF S
  <2>3. CASE S # {}
    <3>1. PICK o : S = {o} BY <2>1, <2>3
    <3>2. Cardinality(S) = 1 BY <3>1, FS_Singleton
    <3> QED BY <3>2 DEF S
  <2> QED BY <2>2, <2>3
<1>2. Cal!NoOverlap BY <1>1, SameCardinality DEF Cal!NoOverlap
<1>3. Cal!CalendarIsKept BY <1>2 DEF AutomationInv, OccurrencesSound, Cal!ActiveHasNext, Cal!CalendarIsKept, DefinitionSound
<1>4. Cal!AutomationTypeOK
  BY DEF AutomationInv, OccurrencesSound, Cal!AutomationTypeOK, DefinitionSound, DefinitionRec, OccurrenceRec
<1> QED BY <1>3, <1>4

\* A new job is for no slot before one that already has its job: what comes before is done.
LEMMA SlotsForward ==
  ASSUME AutomationInv, [Cal!AutomationNext]_automationV, NEW o \in occurrences',
         Cal!KeyOf(o) \notin {Cal!KeyOf(p) : p \in occurrences}, o.run = "scheduled", o.job = "queued",
         NEW p \in occurrences, p.definition = o.definition, p.revision = o.revision, p.run = "scheduled"
  PROVE  p.due <= o.due
<1>0. Cal!KeyOf(o) \notin Keys /\ Cal!KeyOf(p) \in Keys BY DEF Keys
<1>1. p \in OccurrenceRec /\ p.due \in Nat
  BY DEF AutomationInv, OccurrencesSound, OccurrenceRec, Cal!AutomationAssumption, Cal!Time
<1>2. /\ Cal!KeyOf(p).due = p.due /\ Cal!KeyOf(p).definition = p.definition /\ Cal!KeyOf(p).revision = p.revision
      /\ Cal!KeyOf(p).run = p.run /\ Cal!KeyOf(o).due = o.due /\ Cal!KeyOf(o).definition = o.definition
      /\ Cal!KeyOf(o).revision = o.revision /\ Cal!KeyOf(o).run = o.run
  BY DEF Cal!KeyOf
<1>3. Cal!KeyOf(o) \in Keys' BY DEF Keys
<1>4. ASSUME NEW d \in Definition, NEW due \in Cal!Time, NEW run \in RunRequest \cup {"scheduled"}, NEW now \in Cal!Time,
             Cal!TargetsExist, occurrences' = Cal!Materialized(d, due, run, now)
      PROVE  o.run = run /\ o.due = due /\ o.definition = d /\ o.revision = definition[d].revision
  BY <1>0, <1>2, <1>3, <1>4, Materializing DEF Cal!Key
<1>5. CASE \E d \in Definition : Cal!RunImmediately(d) \/ \E ordered \in RunRequest : Cal!RunNow(d, ordered)
  <2>1. PICK d \in Definition : Cal!RunImmediately(d) \/ \E ordered \in RunRequest : Cal!RunNow(d, ordered) BY <1>5
  <2>2. time \in Cal!Time BY DEF AutomationInv
  <2>3. CASE Cal!RunImmediately(d)
    <3>1. o.definition = d BY <1>4, <2>2, <2>3 DEF Cal!RunImmediately
    <3>2. definition[d].state = "none" BY <2>3 DEF Cal!RunImmediately, Cal!Is
    <3> QED BY <1>0, <1>2, <3>1, <3>2 DEF AutomationInv, Ordered
  <2>4. ASSUME NEW ordered \in RunRequest, Cal!RunNow(d, ordered) PROVE FALSE
    BY <1>4, <2>2, <2>4 DEF Cal!RunNow, AutomationInv, Cal!AutomationAssumption
  <2> QED BY <2>1, <2>3, <2>4
<1>6. ASSUME NEW s \in Scheduler, NEW d \in Definition, Cal!Process(s, d) PROVE p.due <= o.due
  <2> DEFINE now == round[s].now
             due == Cal!LatestDue(definition[d], now)
  <2>1. CASE ~Cal!Due(d, now)
    <3>1. occurrences' = occurrences BY <1>6, <2>1 DEF Cal!Process
    <3> QED BY <3>1
  <2>2. CASE Cal!Due(d, now)
    <3>1. Cal!TargetsExist /\ occurrences' = Cal!Materialized(d, due, "scheduled", now) BY <1>6, <2>2 DEF Cal!Process
    <3>2. now \in Cal!Time /\ now <= time /\ definition[d].next \in 1..now /\ DefinitionSound(definition[d])
          /\ definition[d].next # 0 /\ Cal!AutomationAssumption
      BY <2>2 DEF Cal!Due, AutomationInv, RoundSound, RoundRec, Cal!AutomationAssumption, Cal!Time
    <3>3. due \in Cal!Slots(definition[d]) /\ due \in Cal!Time /\ definition[d].next <= due BY <3>2, LatestIs
    <3> HIDE DEF due, now
    <3>4. o.due = due /\ o.definition = d /\ o.revision = definition[d].revision BY <1>4, <3>1, <3>2, <3>3
    <3>5. Scheduled(d, Cal!KeyOf(p)) BY <1>0, <1>2, <3>4 DEF Scheduled
    <3>6. due < p.due => Done(d, due)
      BY <1>0, <1>2, <3>2, <3>3, <3>5 DEF AutomationInv, Ordered
    <3>7. Cal!KeyOf(o) \in {Cal!Key(d, due, "scheduled", e) : e \in Endpoint}
      BY <1>0, <1>3, <3>1, <3>2, <3>3, Materializing
    <3>8. ~Done(d, due) BY <1>0, <3>7 DEF Done
    <3>9. due \in Nat BY <3>2, <3>3 DEF Cal!Time, Cal!AutomationAssumption
    <3> QED BY <1>1, <3>4, <3>6, <3>8, <3>9
  <2> QED BY <2>1, <2>2
<1>7. CASE \E d \in Definition : Cal!CancelNext(d)
  <2>1. PICK d \in Definition : Cal!CancelNext(d) BY <1>7
  <2>2. o \in occurrences \/ o.job = "none" BY <2>1 DEF Cal!CancelNext
  <2> QED BY <1>0, <2>2 DEF Keys
<1>8. CASE \E d \in Definition : Cal!CancelDefinition(d)
  <2>1. PICK d \in Definition : Cal!CancelDefinition(d) BY <1>8
  <2>2. \E q \in occurrences : o = (IF q.definition = d /\ q.job = "queued"
                     THEN [q EXCEPT !.status = "cancelled", !.job = "cancelled"] ELSE q)
    BY <2>1 DEF Cal!CancelDefinition
  <2>3. \E q \in occurrences : o = q \/ o = [q EXCEPT !.status = "cancelled", !.job = "cancelled"] BY <2>2
  <2>4. \A q \in occurrences : Cal!KeyOf([q EXCEPT !.status = "cancelled", !.job = "cancelled"]) = Cal!KeyOf(q)
    BY DEF Cal!KeyOf, AutomationInv, OccurrencesSound, OccurrenceRec
  <2> QED BY <1>0, <2>3, <2>4 DEF Keys
<1>9. ASSUME NEW q \in occurrences, Cal!CancelOccurrence(q) \/ Cal!Deliver(q) \/ Cal!EndJob(q) PROVE FALSE
  <2>1. \/ o \in occurrences \/ o = [q EXCEPT !.status = "cancelled", !.job = "cancelled"]
        \/ \E j : o = [q EXCEPT !.job = j]
    BY <1>9 DEF Cal!CancelOccurrence, Cal!Deliver, Cal!EndJob
  <2>2. q \in OccurrenceRec BY DEF AutomationInv, OccurrencesSound
  <2>3. Cal!KeyOf([q EXCEPT !.status = "cancelled", !.job = "cancelled"]) = Cal!KeyOf(q) BY <2>2 DEF Cal!KeyOf, OccurrenceRec
  <2>4. \A j : Cal!KeyOf([q EXCEPT !.job = j]) = Cal!KeyOf(q) BY <2>2 DEF Cal!KeyOf, OccurrenceRec
  <2> QED BY <1>0, <2>1, <2>3, <2>4 DEF Keys
<1>10. ASSUME NEW s \in Scheduler, Cal!BeginRound(s) PROVE FALSE
  <2>1. \E q \in occurrences : o = q \/ o = [q EXCEPT !.job = "ended"]
    BY <1>10 DEF Cal!BeginRound
  <2>2. \A q \in occurrences : Cal!KeyOf([q EXCEPT !.job = "ended"]) = Cal!KeyOf(q)
    BY DEF Cal!KeyOf, AutomationInv, OccurrencesSound, OccurrenceRec
  <2> QED BY <1>0, <2>1, <2>2 DEF Keys
<1>11. occurrences' # occurrences BY <1>0, <1>3 DEF Keys
<1> QED BY <1>5, <1>6, <1>7, <1>8, <1>9, <1>10, <1>11
      DEF Cal!AutomationNext, Cal!TimePasses, Cal!EndpointChanges, Cal!SaveDefinition, Cal!Pause, Cal!Resume, Cal!ProcessFails, Cal!NoteLost, Cal!NoteRefused,
          automationV

LEMMA ClosedDefinitionStays ==
  ASSUME AutomationInv, [Cal!AutomationNext]_automationV, NEW d \in Definition, definition[d].state \in Cal!ClosedState,
         d \notin reopened'
  PROVE  definition'[d].state = definition[d].state
<1>1. definition \in [Definition -> DefinitionRec] /\ definition[d].state \notin {"none", "active", "paused"}
  BY DEF AutomationInv, Cal!ClosedState
<1>2. ASSUME NEW c \in Definition, NEW row, Cal!Save(c, row), Cal!Is(c, {"none", "active", "paused"})
      PROVE  definition'[d] = definition[d]
  BY <1>1, <1>2 DEF Cal!Save, Cal!Is
<1>3. ASSUME NEW c \in Definition, \/ \E kind \in {"once", "interval"}, start \in Cal!Time : Cal!SaveDefinition(c, kind, start)
                                   \/ Cal!RunImmediately(c) \/ Cal!Pause(c) \/ Cal!Resume(c) \/ Cal!CancelDefinition(c)
      PROVE  definition'[d] = definition[d]
  <2>1. Cal!Is(c, {"none", "active", "paused"}) /\ \E row : Cal!Save(c, row)
    BY <1>3, Zenon DEF Cal!SaveDefinition, Cal!RunImmediately, Cal!Pause, Cal!Resume, Cal!CancelDefinition, Cal!Is
  <2> QED BY <1>2, <2>1
<1>4. ASSUME NEW s \in Scheduler, NEW c \in Definition, Cal!Process(s, c) PROVE definition'[d] = definition[d]
  <2>1. CASE Cal!Due(c, round[s].now)
    <3>1. Cal!Is(c, {"active"}) /\ \E row : Cal!Save(c, row) BY <1>4, <2>1, Zenon DEF Cal!Process, Cal!Due
    <3> QED BY <1>2, <3>1 DEF Cal!Is
  <2>2. CASE ~Cal!Due(c, round[s].now) BY <1>4, <2>2 DEF Cal!Process
  <2> QED BY <2>1, <2>2
<1>5. ASSUME NEW s \in Scheduler, Cal!NoteLost(s) PROVE definition'[d] = definition[d]
  BY <1>5 DEF Cal!NoteLost, Cal!Is
<1>6. ASSUME NEW s \in Scheduler, Cal!NoteRefused(s) PROVE definition'[d] = definition[d]
  BY <1>1, <1>6 DEF Cal!NoteRefused, Cal!Is
<1>7. CASE definition' # definition
  BY <1>3, <1>4, <1>5, <1>6, <1>7
     DEF Cal!AutomationNext, Cal!TimePasses, Cal!EndpointChanges, Cal!RunNow, Cal!CancelNext, Cal!CancelOccurrence, Cal!Deliver, Cal!EndJob, Cal!BeginRound,
         Cal!ProcessFails, automationV
<1> QED BY <1>7

-----------------------------------------------------------------------------
(* Together.                                                                *)

LEMMA InstMoves ==
  /\ Init => Inst!InstallInit
  /\ [Next]_Vars => [Inst!InstallNext]_installV
BY DEF Init, Next, OthersRest, Vars

LEMMA TermMoves ==
  /\ Init => Term!TerminalInit
  /\ [Next]_Vars => [Term!TerminalNext]_terminalV
BY DEF Init, Next, OthersRest, Vars

LEMMA CalMoves ==
  /\ Init => Cal!AutomationInit
  /\ [Next]_Vars => [Cal!AutomationNext]_automationV
BY DEF Init, Next, OthersRest, Vars

\* The strengthening holds of the composition, for every value of its constants.
THEOREM WorkInvariant == Spec => [](InstallInv /\ TerminalInv /\ TerminalCounts /\ AutomationInv)
<1>1. Init => InstallInv /\ TerminalInv /\ TerminalCounts /\ AutomationInv
  BY ComponentsAssumption, InstMoves, TermMoves, CalMoves, InstallInitInv, TerminalInitInv, CountsInit,
     AutomationInitInv
<1>2. InstallInv /\ TerminalInv /\ TerminalCounts /\ AutomationInv /\ [Next]_Vars
        => (InstallInv /\ TerminalInv /\ TerminalCounts /\ AutomationInv)'
  <2>1. InstallInv /\ [Next]_Vars => InstallInv'
    BY ComponentsAssumption, InstMoves, InstallKept
  <2>2. TerminalInv /\ TerminalCounts /\ [Next]_Vars => TerminalInv' /\ TerminalCounts'
    BY ComponentsAssumption, TermMoves, TerminalStep, CountsStep
  <2>3. AutomationInv /\ [Next]_Vars => AutomationInv'
    BY CalMoves, AutomationStep
  <2> QED
    BY <2>1, <2>2, <2>3
<1> QED
  BY <1>1, <1>2, PTL DEF Spec

\* An installation that may be tried again never ran, one that is reported complete
\* enrolled that computer with its own token, a batch tells what its items are and no
\* token outlives its attempt; a terminal process runs, or a session is called ready,
\* only where both ends used their own ticket and the local user agreed if the mode asks
\* for it; a slot gives an endpoint one job: whatever dies, stalls, restarts or is done
\* by two at once.
THEOREM OrderedWorkGuarded == Spec => []OrderedWorkIsGuarded
<1>1. InstallInv /\ TerminalInv /\ TerminalCounts /\ AutomationInv => OrderedWorkIsGuarded
  BY ComponentsAssumption, InstallSound, TerminalSound, CalendarKept DEF OrderedWorkIsGuarded
<1> QED
  BY <1>1, WorkInvariant, PTL

\* A session that was closed, expired or cancelled keeps its row as it is.
THEOREM ClosedSessions == Spec => Term!ClosedSessionIsFinal
<1>1. ASSUME TerminalInv, [Next]_Vars
      PROVE  [\A x \in Session : session[x].status \in Term!Closed => session'[x] = session[x]]_Term!terminalVars
  BY <1>1, TermMoves, ClosedSessionStays
<1> QED
  BY <1>1, WorkInvariant, PTL DEF Spec, Term!ClosedSessionIsFinal
=============================================================================
