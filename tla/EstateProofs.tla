--------------------------- MODULE EstateProofs ----------------------------
(*****************************************************************************)
(* What the server knows of the estate: a computer is one row and one       *)
(* credential, links and tokens admit as many as they were made for; what   *)
(* was reported is not forgotten;                                           *)
(* alerts are not doubled and say what the inventory says; and a folder's   *)
(* page shows the access there is, who loses it and what was granted; for   *)
(* any number of computers, links, maintenance runs, people and rules.      *)
(*                                                                           *)
(* Enrollment: a clone has another computer's identity, so nothing is said  *)
(* of who sends a request; what counts is what each number was given out    *)
(* for: LinkSound for a link and its proof, Spent for a token's uses,       *)
(* Keyed for the credentials.                                               *)
(*                                                                           *)
(* Inventory: every message is a reading of its own, so that a date tells   *)
(* which one it is (MessagesSound), and the worker's answer is to what it   *)
(* posted (PostingSound).                                                   *)
(*                                                                           *)
(* Alerts: what a run that nobody disturbs has done so far is said for      *)
(* each of its steps (CalmAt); undisturbed means that it is the only        *)
(* process at work (Solo).                                                  *)
(*                                                                           *)
(* Access: the page is as good as the last uploads (CurrentSound), which    *)
(* are stored once their run says so (UploadSound); a grant stands in the   *)
(* rule of a principal that is linked to whom it was given (GrantSound).    *)
(*****************************************************************************)
EXTENDS RemovalProofs, FiniteSetTheorems, WellFoundedInduction

(* Enrollment.                                                              *)

\* The instance has its own copies of the operators of FiniteSets.
LEMMA EnrSets == \A S : Enr!Cardinality(S) = Cardinality(S) /\ Enr!IsFiniteSet(S) = IsFiniteSet(S)
BY DEF Enr!Cardinality, Cardinality, Enr!IsFiniteSet, IsFiniteSet

Stages == {"idle", "asking", "ready", "installing", "report", "failing"}
ComputerRec == [id : Enr!MachineId, name : PC \cup {SpareName}, cred : Enr!RowKeys,
             version : {"none", "old", "new"}, dep : Enr!Deployment \cup {0}, stage : Stages]
EndpointRow == [key : Enr!RowKeys, token : Enr!RowKeys, id : Enr!MachineId, name : PC \cup {SpareName}, installed : BOOLEAN]
LinkRow == [status : {"none", "waiting", "installing", "completed", "expired", "failed"},
         kind : {"direct", "external", "batch"}, request : IssueRequest \cup {"none"}, endpoint : Enr!RowKeys,
         used : BOOLEAN, started : BOOLEAN, reported : BOOLEAN]
Read == [dep : Enr!Deployment \cup {0}, status : {"none", "waiting", "installing"}, endpoint : Enr!RowKeys]

EnrollmentTypes ==
  /\ tokens \in Nat /\ pc \in [PC -> ComputerRec] /\ rows \subseteq EndpointRow /\ deployment \in [Enr!Deployment -> LinkRow]
  /\ proof \in [Enr!Deployment -> SUBSET Enr!RowKeys] /\ everBeat \in [Enr!Deployment -> SUBSET Enr!RowKeys]
  /\ reading \in [PC -> Read] /\ taken \in [Enr!Deployment -> {0, 1}]
  /\ late \subseteq Enr!Deployment /\ reconciling \subseteq Enr!RowKeys /\ manualUsed \subseteq Enr!Manual
  /\ enrollToken \in [open : BOOLEAN, uses : Nat] /\ lot \in [active : BOOLEAN, used : Nat]
  /\ spent \in [Enr!Manual \cup {"token"} -> Nat]
Numbered == Enr!Created = 1 .. Cardinality(Enr!Created)
LinkSound(d) ==
  /\ deployment[d].status = "none" => ~deployment[d].used
  /\ taken[d] = 1 => deployment[d].used
  /\ proof[d] \subseteq everBeat[d]
  /\ deployment[d].status = "completed" =>
       deployment[d].endpoint \in everBeat[d] /\ deployment[d].used /\ deployment[d].started
ScriptSound(p) ==
  /\ pc[p].stage # "idle" => pc[p].dep \in Enr!Created
  /\ reading[p] # Enr!Unread => pc[p].stage = "asking" /\ reading[p].dep \in Enr!Created
Issued ==
  /\ Cardinality({d \in Enr!Created : deployment[d].kind = "batch"}) = lot.used /\ lot.used <= BatchUses
  /\ \A d, e \in Enr!Created : d # e /\ deployment[d].request # "none" => deployment[d].request # deployment[e].request
Spent ==
  /\ \A m \in Enr!Manual : spent[m] = IF m \in manualUsed THEN 1 ELSE 0
  /\ spent["token"] = enrollToken.uses /\ enrollToken.uses <= TokenUses
Keyed ==
  /\ \A r \in rows : r.token # 0 /\ r.key # 0
  /\ \A r, s \in rows : r # s => r.id # s.id /\ r.name # s.name /\ r.token # s.token
  /\ \A p, q \in PC : p # q /\ pc[p].cred # 0 => pc[p].cred # pc[q].cred
  /\ \A p \in PC, r \in rows : r.token = pc[p].cred => r.id = pc[p].id
EnrollmentInv ==
  /\ EnrollmentTypes /\ Numbered /\ (\A d \in Enr!Deployment : LinkSound(d)) /\ (\A p \in PC : ScriptSound(p))
  /\ Issued /\ Spent /\ Keyed
LEMMA EnrollmentInitIsSound == ASSUME Enr!EnrollmentAssumption, Enr!EnrollmentInit PROVE EnrollmentInv
<1> USE DEF Enr!EnrollmentAssumption, Enr!EnrollmentInit
<1>1. Enr!Created = {} /\ Cardinality(Enr!Created) = 0 BY FS_EmptySet DEF Enr!Created, Enr!NoDeployment
<1>2. {d \in Enr!Created : deployment[d].kind = "batch"} = {} BY <1>1
<1>3. EnrollmentTypes
  BY DEF EnrollmentTypes, ComputerRec, EndpointRow, LinkRow, Read, Enr!RowKeys, Enr!MachineId, Stages, Enr!Deployment, Enr!NoDeployment, Enr!Unread
<1>4. Numbered BY <1>1 DEF Numbered
<1>5. ASSUME NEW d \in Enr!Deployment PROVE LinkSound(d) BY DEF LinkSound, Enr!NoDeployment
<1>6. ASSUME NEW p \in PC PROVE ScriptSound(p) BY DEF ScriptSound
<1>7. Issued BY <1>1, <1>2, FS_EmptySet DEF Issued
<1>8. Spent BY DEF Spent, Enr!Manual
<1>9. Keyed BY DEF Keyed
<1> QED BY <1>3, <1>4, <1>5, <1>6, <1>7, <1>8, <1>9 DEF EnrollmentInv

\* One link changes, and stays the link it was.
LinkMove(d, x) ==
  /\ d \in Enr!Created /\ deployment' = [deployment EXCEPT ![d] = x] /\ x \in LinkRow'
  /\ x.status # "none" /\ x.kind = deployment[d].kind /\ x.request = deployment[d].request
  /\ deployment[d].used => x.used
  /\ x.status = "completed" => x.endpoint \in everBeat[d] /\ x.used /\ x.started
LinksMove == UNCHANGED deployment \/ \E d \in Enr!Created, x \in LinkRow' : LinkMove(d, x)

LEMMA LinksMoved ==
  ASSUME EnrollmentInv, LinksMove, everBeat' = everBeat, taken' = taken, lot' = lot,
         proof' = proof \/ \E d \in Enr!Deployment : proof' = [proof EXCEPT ![d] = {}]
  PROVE  /\ Enr!Created' = Enr!Created /\ Numbered' /\ Issued' /\ (\A d \in Enr!Deployment : LinkSound(d)')
<1> USE DEF EnrollmentInv, EnrollmentTypes
<1>0. CASE UNCHANGED deployment BY <1>0 DEF Enr!Created, Numbered, Issued, LinkSound
<1>1. ASSUME NEW d \in Enr!Created, NEW x \in LinkRow', LinkMove(d, x)
      PROVE Enr!Created' = Enr!Created /\ Numbered' /\ Issued' /\ (\A e \in Enr!Deployment : LinkSound(e)')
  <2>1. d \in Enr!Deployment /\ deployment'[d] = x /\ \A e \in Enr!Deployment : e # d => deployment'[e] = deployment[e]
    BY <1>1 DEF LinkMove, Enr!Created
  <2>2. Enr!Created' = Enr!Created BY <1>1, <2>1 DEF LinkMove, Enr!Created
  <2>3. \A e \in Enr!Deployment : deployment'[e].kind = deployment[e].kind /\ deployment'[e].request = deployment[e].request
    BY <1>1, <2>1 DEF LinkMove
  <2>4. {e \in Enr!Created' : deployment'[e].kind = "batch"} = {e \in Enr!Created : deployment[e].kind = "batch"}
    BY <2>2, <2>3 DEF Enr!Created
  <2>8. Enr!Created \subseteq Enr!Deployment BY DEF Enr!Created
  <2>9. \A a, b \in Enr!Created' : a # b /\ deployment'[a].request # "none" => deployment'[a].request # deployment'[b].request
    <3>1. \A a, b \in Enr!Created : a # b /\ deployment[a].request # "none" => deployment[a].request # deployment[b].request
      BY DEF Issued
    <3> QED BY ONLY <3>1, <2>2, <2>3, <2>8
  <2>10. Cardinality({e \in Enr!Created' : deployment'[e].kind = "batch"}) = lot'.used /\ lot'.used <= BatchUses
    BY <2>4 DEF Issued
  <2>5. Issued' BY <2>9, <2>10 DEF Issued
  <2>6. Numbered' BY <2>2 DEF Numbered
  <2>7. \A e \in Enr!Deployment : LinkSound(e)' BY <1>1, <2>1 DEF LinkMove, LinkSound
  <2> QED BY <2>2, <2>5, <2>6, <2>7
<1> QED BY <1>0, <1>1 DEF LinksMove

\* A computer goes on with its script and stays what it is.
Walks == \E p \in PC, c \in ComputerRec :
  /\ pc' = [pc EXCEPT ![p] = c] /\ c.id = pc[p].id /\ c.cred = pc[p].cred
  /\ c.stage # "idle" => c.dep \in Enr!Created
  /\ (c.stage = "asking") = (pc[p].stage = "asking") \/ reading'[p] = Enr!Unread

LEMMA Walked ==
  ASSUME EnrollmentInv, Walks, Enr!Created' = Enr!Created, tokens' = tokens,
         reading' = reading \/ \E p \in PC : reading' = [reading EXCEPT ![p] = Enr!Unread]
  PROVE  /\ pc' \in [PC -> ComputerRec'] /\ (\A q \in PC : ScriptSound(q)')
         /\ \A q \in PC : pc'[q].id = pc[q].id /\ pc'[q].cred = pc[q].cred
<1> USE DEF EnrollmentInv, EnrollmentTypes
<1>1. PICK p \in PC, c \in ComputerRec :
        /\ pc' = [pc EXCEPT ![p] = c] /\ c.id = pc[p].id /\ c.cred = pc[p].cred
        /\ c.stage # "idle" => c.dep \in Enr!Created
        /\ (c.stage = "asking") = (pc[p].stage = "asking") \/ reading'[p] = Enr!Unread
  BY DEF Walks
<1>2. ComputerRec' = ComputerRec BY DEF ComputerRec, Enr!RowKeys
<1>3. pc'[p] = c /\ \A q \in PC : q # p => pc'[q] = pc[q] BY <1>1
<1>4. \A q \in PC : reading'[q] = reading[q] \/ reading'[q] = Enr!Unread OBVIOUS
<1>5. ASSUME NEW q \in PC PROVE ScriptSound(q)'
  BY <1>1, <1>3, <1>4, <1>5 DEF ScriptSound
<1> QED BY <1>1, <1>2, <1>3, <1>5

LEMMA Staged ==
  ASSUME EnrollmentInv, NEW p \in PC, NEW s \in Stages, pc' = Enr!Stage(p, s), s = "idle" \/ pc[p].stage # "idle",
         s # "asking", pc[p].stage # "asking" \/ reading'[p] = Enr!Unread
  PROVE  Walks
<1> DEFINE c == [pc[p] EXCEPT !.stage = s, !.dep = IF s = "idle" THEN 0 ELSE @]
<1> USE DEF EnrollmentInv, EnrollmentTypes
<1>1. pc' = [pc EXCEPT ![p] = c] BY DEF Enr!Stage
<1>2. pc[p] \in ComputerRec OBVIOUS
<1>3. /\ c \in ComputerRec /\ c.id = pc[p].id /\ c.cred = pc[p].cred /\ c.stage = s
      /\ c.dep = IF s = "idle" THEN 0 ELSE pc[p].dep
  BY <1>2 DEF ComputerRec
<1>4. pc[p].stage # "idle" => pc[p].dep \in Enr!Created BY DEF ScriptSound
<1> HIDE DEF c
<1> QED BY <1>1, <1>3, <1>4 DEF Walks

\* What keeps the rows and the credentials sound.
SameComputers == \A q \in PC : pc'[q].id = pc[q].id /\ pc'[q].cred = pc[q].cred

LEMMA KeyedStays == ASSUME Keyed, rows' = rows, SameComputers PROVE Keyed'
BY DEF Keyed, SameComputers

LEMMA KeyedMarked ==
  ASSUME EnrollmentInv, NEW k, rows' = rows \/ Enr!MarkInstalled(k), SameComputers, tokens' = tokens
  PROVE  Keyed' /\ rows' \subseteq EndpointRow'
<1> USE DEF EnrollmentInv, EnrollmentTypes
<1>0. EndpointRow' = EndpointRow BY DEF EndpointRow, Enr!RowKeys
<1>1. CASE rows' = rows BY <1>0, <1>1, KeyedStays
<1>2. CASE Enr!MarkInstalled(k)
  <2>1. \A r \in rows' : \E s \in rows : r.token = s.token /\ r.key = s.key /\ r.id = s.id /\ r.name = s.name
          /\ r = IF s.key = k THEN [s EXCEPT !.installed = TRUE] ELSE s
    BY <1>2 DEF Enr!MarkInstalled, EndpointRow
  <2>6. \A s \in rows : s \in EndpointRow /\ [s EXCEPT !.installed = TRUE] \in EndpointRow BY DEF EndpointRow
  <2>2. rows' \subseteq EndpointRow BY <2>1, <2>6
  <2>3. ASSUME NEW r \in rows', NEW s \in rows', r # s PROVE r.id # s.id /\ r.name # s.name /\ r.token # s.token
    <3>1. PICK a \in rows : r.token = a.token /\ r.id = a.id /\ r.name = a.name
            /\ r = IF a.key = k THEN [a EXCEPT !.installed = TRUE] ELSE a
      BY <2>1
    <3>2. PICK b \in rows : s.token = b.token /\ s.id = b.id /\ s.name = b.name
            /\ s = IF b.key = k THEN [b EXCEPT !.installed = TRUE] ELSE b
      BY <2>1
    <3>3. a # b BY <2>3, <3>1, <3>2
    <3> QED BY <3>1, <3>2, <3>3 DEF Keyed
  <2>4. \A p \in PC, r \in rows' : r.token = pc'[p].cred => r.id = pc'[p].id
    BY <2>1 DEF Keyed, SameComputers
  <2>5. \A r \in rows' : r.token # 0 /\ r.key # 0 BY <2>1 DEF Keyed
  <2> QED BY <1>0, <2>2, <2>3, <2>4, <2>5 DEF Keyed, SameComputers
<1> QED BY <1>1, <1>2

LEMMA KeyedRenamed ==
  ASSUME EnrollmentInv, NEW r \in rows, NEW n \in PC \cup {SpareName}, rows' = Enr!Others(r) \cup {[r EXCEPT !.name = n]},
         \A s \in Enr!Others(r) : s.name # n, SameComputers, tokens' = tokens
  PROVE  Keyed' /\ rows' \subseteq EndpointRow'
<1> DEFINE t == [r EXCEPT !.name = n]
<1> USE DEF EnrollmentInv, EnrollmentTypes
<1>1. t \in EndpointRow /\ t.key = r.key /\ t.token = r.token /\ t.id = r.id /\ t.name = n BY DEF EndpointRow
<1>2. EndpointRow' = EndpointRow BY DEF EndpointRow, Enr!RowKeys
<1>3. rows' = (rows \ {r}) \cup {t} BY DEF Enr!Others
<1> HIDE DEF t
<1>4. \A a, b \in rows' : a # b => a.id # b.id /\ a.name # b.name /\ a.token # b.token
  BY <1>1, <1>3 DEF Keyed, Enr!Others
<1>5. \A p \in PC, a \in rows' : a.token = pc'[p].cred => a.id = pc'[p].id
  BY <1>1, <1>3 DEF Keyed, SameComputers
<1>6. \A a \in rows' : a.token # 0 /\ a.key # 0 BY <1>1, <1>3 DEF Keyed
<1> QED BY <1>1, <1>2, <1>3, <1>4, <1>5, <1>6 DEF Keyed, SameComputers

\* A fresh credential widens the types.
LEMMA TypesGrow ==
  ASSUME EnrollmentInv, tokens' = tokens + 1
  PROVE  /\ tokens' \in Nat /\ Enr!RowKeys \subseteq Enr!RowKeys' /\ tokens + 1 \in Enr!RowKeys' /\ tokens + 1 \notin Enr!RowKeys
         /\ tokens + 1 # 0
         /\ ComputerRec \subseteq ComputerRec' /\ EndpointRow \subseteq EndpointRow' /\ LinkRow \subseteq LinkRow' /\ Read \subseteq Read'
<1> USE DEF EnrollmentInv, EnrollmentTypes
<1>1. tokens' \in Nat /\ Enr!RowKeys \subseteq Enr!RowKeys' /\ tokens + 1 \in Enr!RowKeys' /\ tokens + 1 \notin Enr!RowKeys
       /\ tokens + 1 # 0
  BY DEF Enr!RowKeys
<1>2. ComputerRec \subseteq ComputerRec' BY <1>1 DEF ComputerRec
<1>3. EndpointRow \subseteq EndpointRow' BY <1>1 DEF EndpointRow
<1>4. LinkRow \subseteq LinkRow' BY <1>1 DEF LinkRow
<1>5. Read \subseteq Read' BY <1>1 DEF Read
<1> QED BY <1>1, <1>2, <1>3, <1>4, <1>5

LEMMA KeyedRotated ==
  ASSUME EnrollmentInv, NEW r \in rows, tokens' = tokens + 1, rows' = Enr!Others(r) \cup {[r EXCEPT !.token = tokens + 1]}, pc' = pc
  PROVE  Keyed' /\ rows' \subseteq EndpointRow'
<1> DEFINE t == [r EXCEPT !.token = tokens + 1]
<1> USE DEF EnrollmentInv, EnrollmentTypes
<1>1. r \in EndpointRow' /\ tokens + 1 \in Enr!RowKeys' /\ rows \subseteq EndpointRow' BY TypesGrow
<1>2. t \in EndpointRow' /\ t.key = r.key /\ t.token = tokens + 1 /\ t.id = r.id /\ t.name = r.name BY <1>1 DEF EndpointRow
<1>3. rows' = (rows \ {r}) \cup {t} BY DEF Enr!Others
<1>4. tokens + 1 # 0 /\ (\A a \in rows : a.token # tokens + 1) /\ (\A p \in PC : pc[p].cred # tokens + 1)
  BY DEF EndpointRow, ComputerRec, Enr!RowKeys
<1> HIDE DEF t
<1>5. \A a, b \in rows' : a # b => a.id # b.id /\ a.name # b.name /\ a.token # b.token
  BY <1>2, <1>3, <1>4 DEF Keyed
<1>6. \A p \in PC, a \in rows' : a.token = pc'[p].cred => a.id = pc'[p].id
  BY <1>2, <1>3, <1>4 DEF Keyed
<1>7. \A a \in rows' : a.token # 0 /\ a.key # 0 BY <1>2, <1>3, <1>4 DEF Keyed
<1> QED BY <1>1, <1>2, <1>3, <1>5, <1>6, <1>7 DEF Keyed

\* Of a computer only the credential may change, to one no other has.
LEMMA KeyedAdmitted ==
  ASSUME EnrollmentInv, NEW p \in PC, Enr!Found(p) = {}, Enr!Admit(p), \A q \in PC : pc'[q].id = pc[q].id,
         pc'[p].cred \in {pc[p].cred, tokens + 1}, \A q \in PC : q # p => pc'[q].cred = pc[q].cred,
         Enr!RowOf(p) = {}
  PROVE  Keyed' /\ rows' \subseteq EndpointRow'
<1> DEFINE t == [key |-> tokens + 1, token |-> tokens + 1, id |-> pc[p].id, name |-> pc[p].name, installed |-> FALSE]
<1> USE DEF EnrollmentInv, EnrollmentTypes
<1>0. tokens' = tokens + 1 /\ rows' = rows \cup {t} BY DEF Enr!Admit
<1>1. tokens + 1 \in Enr!RowKeys' /\ rows \subseteq EndpointRow' BY <1>0, TypesGrow
<1>2. t \in EndpointRow' BY <1>1 DEF EndpointRow, ComputerRec
<1>3. tokens + 1 # 0 /\ (\A a \in rows : a.token # tokens + 1) /\ (\A q \in PC : pc[q].cred # tokens + 1)
  BY DEF EndpointRow, ComputerRec, Enr!RowKeys
<1>4. \A a \in rows : a.id # pc[p].id /\ a.name # pc[p].name /\ a.token # pc[p].cred
  BY DEF Enr!Found, Enr!ById, Enr!ByName, Enr!RowOf
<1>5. t.key = tokens + 1 /\ t.token = tokens + 1 /\ t.id = pc[p].id /\ t.name = pc[p].name OBVIOUS
<1> HIDE DEF t
<1>6. \A a, b \in rows' : a # b => a.id # b.id /\ a.name # b.name /\ a.token # b.token
  BY <1>0, <1>3, <1>4, <1>5 DEF Keyed
<1>7. \A q \in PC, a \in rows' : a.token = pc'[q].cred => a.id = pc'[q].id
  BY <1>0, <1>3, <1>4, <1>5 DEF Keyed
<1>8. \A a \in rows' : a.token # 0 /\ a.key # 0 BY <1>0, <1>3, <1>5 DEF Keyed
<1>9. \A q, s \in PC : q # s /\ pc'[q].cred # 0 => pc'[q].cred # pc'[s].cred BY <1>3 DEF Keyed
<1> QED BY <1>0, <1>1, <1>2, <1>6, <1>7, <1>8, <1>9 DEF Keyed

\* A row that is found is the bearer's own.
LEMMA FoundIsOwn ==
  ASSUME EnrollmentInv, NEW p \in PC, NEW bound, Enr!MayTake(p, bound), Enr!Found(p) # {}
  PROVE  \E r \in rows : /\ Enr!Found(p) = {r} /\ Enr!RowOf(p) = {r} /\ Enr!IdentityHolds(p, r) /\ r.token = pc[p].cred
                         /\ pc[p].cred # 0
<1>1. PICK r \in Enr!Found(p) : TRUE OBVIOUS
<1>2. r \in rows /\ Enr!RowOf(p) = {r} /\ Enr!IdentityHolds(p, r) BY <1>1 DEF Enr!MayTake, Enr!Found, Enr!ById, Enr!ByName
<1>3. Enr!Found(p) = {r} BY <1>2 DEF Enr!MayTake
<1>4. r.token = pc[p].cred BY <1>2 DEF Enr!RowOf
<1> QED BY <1>2, <1>3, <1>4 DEF EnrollmentInv, Keyed

LEMMA Admitted ==
  ASSUME EnrollmentInv, NEW p \in PC, NEW bound, Enr!MayTake(p, bound), Enr!Admit(p), \A q \in PC : pc'[q].id = pc[q].id,
         pc'[p].cred \in {pc[p].cred, Enr!NewCred(p)}, \A q \in PC : q # p => pc'[q].cred = pc[q].cred
  PROVE  /\ Keyed' /\ rows' \subseteq EndpointRow' /\ tokens' \in Nat /\ Enr!RowKeys \subseteq Enr!RowKeys'
         /\ Enr!RowKey(p) \in Enr!RowKeys' /\ Enr!NewCred(p) \in Enr!RowKeys'
<1> USE DEF EnrollmentInv, EnrollmentTypes
<1>1. CASE Enr!Found(p) = {}
  <2>1. Enr!RowOf(p) = {} BY <1>1 DEF Enr!MayTake
  <2>2. Enr!NewCred(p) = tokens + 1 /\ Enr!RowKey(p) = tokens + 1 /\ tokens' = tokens + 1 BY <1>1 DEF Enr!NewCred, Enr!RowKey, Enr!Admit
  <2>3. Keyed' /\ rows' \subseteq EndpointRow' BY <1>1, <2>1, <2>2, KeyedAdmitted
  <2> QED BY <2>2, <2>3, TypesGrow
<1>2. CASE Enr!Found(p) # {}
  <2>1. PICK r \in rows : Enr!Found(p) = {r} /\ Enr!IdentityHolds(p, r) BY <1>2, FoundIsOwn
  <2>2. Enr!NewCred(p) = pc[p].cred /\ Enr!RowKey(p) = r.key /\ tokens' = tokens BY <1>2, <2>1 DEF Enr!NewCred, Enr!RowKey, Enr!Admit
  <2>3. rows' = {IF a \in {r} THEN [a EXCEPT !.name = pc[p].name] ELSE a : a \in rows}
    BY <1>2, <2>1 DEF Enr!Admit
  <2>4. rows' = Enr!Others(r) \cup {[r EXCEPT !.name = pc[p].name]} BY <2>3 DEF Enr!Others
  <2>5. \A s \in Enr!Others(r) : s.name # pc[p].name BY <2>1 DEF Enr!IdentityHolds
  <2>6. SameComputers BY <2>2 DEF SameComputers
  <2>7. pc[p].name \in PC \cup {SpareName} /\ pc[p].cred \in Enr!RowKeys BY DEF ComputerRec
  <2>8. Keyed' /\ rows' \subseteq EndpointRow' BY <2>2, <2>4, <2>5, <2>6, <2>7, KeyedRenamed
  <2>9. Enr!RowKeys' = Enr!RowKeys /\ r.key \in Enr!RowKeys BY <2>2 DEF Enr!RowKeys, EndpointRow
  <2> QED BY <2>2, <2>7, <2>8, <2>9
<1> QED BY <1>1, <1>2

\* A link is published: it is the next one.
LEMMA Published ==
  ASSUME Enr!EnrollmentAssumption, EnrollmentInv, NEW d \in Enr!Deployment, NEW kind \in LinkKind \cup {"batch"},
         NEW request \in IssueRequest \cup {"none"},
         Enr!Publish(d, kind, request), taken' = taken, proof' = proof, everBeat' = everBeat, tokens' = tokens,
         \/ kind # "batch" /\ request = "none" /\ lot' = lot
         \/ kind = "batch" /\ Enr!MayIssue(request) /\ lot' = [lot EXCEPT !.used = @ + 1]
  PROVE  /\ Enr!Created' = Enr!Created \cup {d} /\ Numbered' /\ (\A e \in Enr!Deployment : LinkSound(e)') /\ Issued'
         /\ deployment' \in [Enr!Deployment -> LinkRow'] /\ lot' \in [active : BOOLEAN, used : Nat]
<1> DEFINE x == [Enr!NoDeployment EXCEPT !.status = "waiting", !.kind = kind, !.request = request]
           B == {e \in Enr!Created : deployment[e].kind = "batch"}
<1> USE DEF EnrollmentInv, EnrollmentTypes
<1>1. /\ x.status = "waiting" /\ x.kind = kind /\ x.request = request /\ x.used = FALSE
      /\ deployment' = [deployment EXCEPT ![d] = x]
  BY DEF Enr!Publish, Enr!NoDeployment
<1>2. kind \in {"direct", "external", "batch"} BY DEF Enr!EnrollmentAssumption
<1>3. x \in LinkRow /\ LinkRow' = LinkRow
  <2>1. Enr!NoDeployment \in LinkRow BY DEF Enr!NoDeployment, LinkRow, Enr!RowKeys
  <2>2. LinkRow' = LinkRow BY DEF LinkRow, Enr!RowKeys
  <2> QED BY <1>2, <2>1, <2>2 DEF LinkRow
<1> HIDE DEF x
<1>4. deployment' \in [Enr!Deployment -> LinkRow'] BY <1>1, <1>3
<1>5. d \in Enr!Deployment /\ deployment'[d] = x /\ \A e \in Enr!Deployment : e # d => deployment'[e] = deployment[e]
  BY <1>1
<1>6. Enr!Created' = Enr!Created \cup {d} BY <1>1, <1>5 DEF Enr!Created
<1>7. IsFiniteSet(Enr!Created) /\ IsFiniteSet(B) /\ Cardinality(Enr!Created) \in Nat
  <2>0. LastDeployment \in Nat BY DEF Enr!EnrollmentAssumption
  <2>1. IsFiniteSet(1 .. LastDeployment) BY <2>0, FS_Interval
  <2>2. Enr!Created \subseteq 1 .. LastDeployment /\ B \subseteq Enr!Created BY DEF Enr!Created, Enr!Deployment
  <2> HIDE DEF B
  <2>3. IsFiniteSet(Enr!Created) BY <2>1, <2>2, FS_Subset
  <2>4. IsFiniteSet(B) BY <2>2, <2>3, FS_Subset
  <2> QED BY <2>3, <2>4, FS_CardinalityType
<1>8. d = Cardinality(Enr!Created) + 1 BY EnrSets DEF Enr!Publish
<1>9. d \notin Enr!Created BY <1>7, <1>8 DEF Numbered
<1>10. Cardinality(Enr!Created') = Cardinality(Enr!Created) + 1 BY <1>6, <1>7, <1>9, FS_AddElement
<1>11. Numbered' BY <1>6, <1>7, <1>8, <1>10 DEF Numbered
<1>12. deployment[d].status = "none" BY <1>9 DEF Enr!Created
<1>13. ASSUME NEW e \in Enr!Deployment PROVE LinkSound(e)'
  BY <1>1, <1>5, <1>12 DEF LinkSound
<1>14. \A a, b \in Enr!Created' : a # b /\ deployment'[a].request # "none" => deployment'[a].request # deployment'[b].request
  <2>1. \A a, b \in Enr!Created : a # b /\ deployment[a].request # "none" => deployment[a].request # deployment[b].request
    BY DEF Issued
  <2>2. request # "none" => \A a \in Enr!Created : deployment[a].request # request BY DEF Enr!MayIssue
  <2>3. \A a \in Enr!Created : a \in Enr!Deployment /\ a # d BY <1>9 DEF Enr!Created
  <2>4. \A a \in Enr!Created : deployment'[a] = deployment[a] BY <2>3, <1>5
  <2> QED BY ONLY <2>1, <2>2, <2>3, <2>4, <1>6, <1>1, <1>5
<1>15. Cardinality({e \in Enr!Created' : deployment'[e].kind = "batch"}) = lot'.used /\ lot'.used <= BatchUses
  <2>0. d \notin B /\ \A e \in Enr!Created : deployment'[e] = deployment[e] BY <1>5, <1>9 DEF Enr!Created
  <2>1. CASE kind = "batch"
    <3>1. {e \in Enr!Created' : deployment'[e].kind = "batch"} = B \cup {d} BY <1>1, <1>5, <1>6, <2>0, <2>1
    <3>2. Cardinality(B) = lot.used BY DEF Issued
    <3>3. lot.used < BatchUses /\ lot' = [lot EXCEPT !.used = @ + 1] BY <2>1 DEF Enr!MayIssue
    <3> HIDE DEF B
    <3>4. Cardinality(B \cup {d}) = lot.used + 1 BY <3>2, <2>0, <1>7, FS_AddElement
    <3>5. BatchUses \in Nat BY DEF Enr!EnrollmentAssumption
    <3>6. lot'.used = lot.used + 1 /\ lot'.used <= BatchUses BY <3>3, <3>5
    <3> QED BY ONLY <3>1, <3>4, <3>6
  <2>2. CASE kind # "batch"
    <3>1. {e \in Enr!Created' : deployment'[e].kind = "batch"} = B BY <1>1, <1>5, <1>6, <2>0, <2>2
    <3> QED BY <3>1, <2>2 DEF Issued
  <2> QED BY <2>1, <2>2
<1>16. Issued' BY <1>14, <1>15 DEF Issued
<1>17. lot' \in [active : BOOLEAN, used : Nat] OBVIOUS
<1> QED BY <1>4, <1>6, <1>11, <1>13, <1>16, <1>17

\* A function on the links that are made or not.
LEMMA CreateIsSound ==
  ASSUME Enr!EnrollmentAssumption, EnrollmentInv, NEW d \in Enr!Deployment, NEW kind \in LinkKind, Enr!CreateDeployment(d, kind)
  PROVE  EnrollmentInv'
<1> USE DEF Enr!CreateDeployment
<1>0. kind # "batch" BY DEF Enr!EnrollmentAssumption
<1>1. /\ Enr!Created' = Enr!Created \cup {d} /\ Numbered' /\ (\A e \in Enr!Deployment : LinkSound(e)') /\ Issued'
      /\ deployment' \in [Enr!Deployment -> LinkRow']
  BY <1>0, Published
<1>2. EnrollmentTypes' BY <1>1 DEF EnrollmentInv, EnrollmentTypes, ComputerRec, EndpointRow, Read, Enr!RowKeys
<1>3. ASSUME NEW p \in PC PROVE ScriptSound(p)' BY <1>1 DEF EnrollmentInv, ScriptSound
<1>4. Spent' /\ Keyed' BY DEF EnrollmentInv, Spent, Keyed
<1> QED BY <1>1, <1>2, <1>3, <1>4 DEF EnrollmentInv

LEMMA IssueIsSound ==
  ASSUME Enr!EnrollmentAssumption, EnrollmentInv, NEW d \in Enr!Deployment, NEW q \in IssueRequest, Enr!BatchIssue(d, q)
  PROVE  EnrollmentInv'
<1> USE DEF Enr!BatchIssue
<1>1. /\ Enr!Created' = Enr!Created \cup {d} /\ Numbered' /\ (\A e \in Enr!Deployment : LinkSound(e)') /\ Issued'
      /\ deployment' \in [Enr!Deployment -> LinkRow'] /\ lot' \in [active : BOOLEAN, used : Nat]
  BY Published
<1>2. EnrollmentTypes' BY <1>1 DEF EnrollmentInv, EnrollmentTypes, ComputerRec, EndpointRow, Read, Enr!RowKeys
<1>3. ASSUME NEW p \in PC PROVE ScriptSound(p)' BY <1>1 DEF EnrollmentInv, ScriptSound
<1>4. Spent' /\ Keyed' BY DEF EnrollmentInv, Spent, Keyed
<1> QED BY <1>1, <1>2, <1>3, <1>4 DEF EnrollmentInv

\* A lock, a link or a token is closed.
LEMMA ClosesAreSound ==
  ASSUME EnrollmentInv, \/ \E over \in BOOLEAN : Enr!BatchClose(over)
                        \/ Enr!CloseToken
                        \/ \E d \in Enr!Deployment : Enr!DeploymentExpires(d)
                        \/ \E k \in reconciling : Enr!ReconcileLost(k)
  PROVE  EnrollmentInv'
<1>1. /\ UNCHANGED <<pc, rows, tokens, deployment, proof, reading, manualUsed, taken, spent, everBeat>>
      /\ lot' \in [active : BOOLEAN, used : Nat] /\ lot'.used = lot.used
      /\ enrollToken' \in [open : BOOLEAN, uses : Nat] /\ enrollToken'.uses = enrollToken.uses
      /\ late' \subseteq Enr!Deployment /\ reconciling' \subseteq Enr!RowKeys
  BY DEF Enr!BatchClose, Enr!CloseToken, Enr!DeploymentExpires, Enr!ReconcileLost, EnrollmentInv, EnrollmentTypes, Enr!Created
<1>2. EnrollmentTypes' BY <1>1 DEF EnrollmentInv, EnrollmentTypes, ComputerRec, EndpointRow, Read, LinkRow, Enr!RowKeys
<1>3. Enr!Created' = Enr!Created BY <1>1 DEF Enr!Created
<1>4. Numbered' BY <1>3 DEF EnrollmentInv, Numbered
<1>5. \A e \in Enr!Deployment : LinkSound(e)' BY <1>1 DEF EnrollmentInv, LinkSound
<1>6. \A p \in PC : ScriptSound(p)' BY <1>1, <1>3 DEF EnrollmentInv, ScriptSound
<1>7. Issued' BY <1>1, <1>3 DEF EnrollmentInv, Issued
<1>8. Spent' /\ Keyed' BY <1>1 DEF EnrollmentInv, Spent, Keyed
<1> QED BY <1>2, <1>4, <1>5, <1>6, <1>7, <1>8 DEF EnrollmentInv

LEMMA RotateIsSound ==
  ASSUME EnrollmentInv, NEW r \in rows, Enr!RotateCredential(r) PROVE EnrollmentInv'
<1> USE DEF Enr!RotateCredential
<1>1. Keyed' /\ rows' \subseteq EndpointRow' BY KeyedRotated
<1>2. EnrollmentTypes'
  <2>1. /\ tokens' \in Nat /\ Enr!RowKeys \subseteq Enr!RowKeys'
        /\ ComputerRec \subseteq ComputerRec' /\ LinkRow \subseteq LinkRow' /\ Read \subseteq Read'
    BY TypesGrow
  <2> QED BY <1>1, <2>1 DEF EnrollmentInv, EnrollmentTypes
<1>3. Enr!Created' = Enr!Created BY DEF Enr!Created
<1>4. Numbered' BY <1>3 DEF EnrollmentInv, Numbered
<1>5. \A e \in Enr!Deployment : LinkSound(e)' BY DEF EnrollmentInv, LinkSound
<1>6. \A p \in PC : ScriptSound(p)' BY <1>3 DEF EnrollmentInv, ScriptSound
<1>7. Issued' BY <1>3 DEF EnrollmentInv, Issued
<1>8. Spent' BY DEF EnrollmentInv, Spent
<1> QED BY <1>1, <1>2, <1>4, <1>5, <1>6, <1>7, <1>8 DEF EnrollmentInv

\* What most steps of the script leave alone.
LEMMA StepIsSound ==
  ASSUME EnrollmentInv, UNCHANGED <<tokens, enrollToken, manualUsed, lot, taken, spent, everBeat>>,
         LinksMove, Walks \/ (UNCHANGED <<pc, reading>>), late' = late, reconciling' \subseteq Enr!RowKeys,
         proof' = proof \/ \E d \in Enr!Deployment : proof' = [proof EXCEPT ![d] = {}],
         reading' = reading \/ \E p \in PC : reading' = [reading EXCEPT ![p] = Enr!Unread],
         NEW k, rows' = rows \/ Enr!MarkInstalled(k)
  PROVE  EnrollmentInv'
<1>1. /\ Enr!Created' = Enr!Created /\ Numbered' /\ Issued' /\ (\A d \in Enr!Deployment : LinkSound(d)') BY LinksMoved
<1>2. /\ pc' \in [PC -> ComputerRec'] /\ (\A q \in PC : ScriptSound(q)') /\ SameComputers
  <2>1. CASE Walks BY <1>1, <2>1, Walked DEF SameComputers
  <2>2. CASE UNCHANGED <<pc, reading>>
    BY <1>1, <2>2 DEF EnrollmentInv, EnrollmentTypes, ScriptSound, SameComputers, ComputerRec, Enr!RowKeys
  <2> QED BY <2>1, <2>2
<1>3. Keyed' /\ rows' \subseteq EndpointRow' BY <1>2, KeyedMarked
<1>4. EnrollmentTypes'
  <2>1. Enr!RowKeys' = Enr!RowKeys /\ LinkRow' = LinkRow /\ Read' = Read BY DEF Enr!RowKeys, LinkRow, Read
  <2>2. deployment' \in [Enr!Deployment -> LinkRow']
    <3>1. CASE UNCHANGED deployment BY <2>1, <3>1 DEF EnrollmentInv, EnrollmentTypes
    <3>2. CASE \E d \in Enr!Created, x \in LinkRow' : LinkMove(d, x) BY <2>1, <3>2 DEF LinkMove, EnrollmentInv, EnrollmentTypes
    <3> QED BY <3>1, <3>2 DEF LinksMove
  <2>3. proof' \in [Enr!Deployment -> SUBSET Enr!RowKeys'] BY <2>1 DEF EnrollmentInv, EnrollmentTypes
  <2>4. reading' \in [PC -> Read']
    <3>1. Enr!Unread \in Read BY DEF Enr!Unread, Read, Enr!RowKeys, EnrollmentInv, EnrollmentTypes
    <3> QED BY <3>1, <2>1 DEF EnrollmentInv, EnrollmentTypes
  <2> QED BY <1>2, <1>3, <2>1, <2>2, <2>3, <2>4 DEF EnrollmentInv, EnrollmentTypes
<1>5. Spent' BY DEF EnrollmentInv, Spent
<1> QED BY <1>1, <1>2, <1>3, <1>4, <1>5 DEF EnrollmentInv

LEMMA LinkTypes ==
  ASSUME EnrollmentInv, Enr!RowKeys \subseteq Enr!RowKeys', NEW d \in Enr!Created
  PROVE  deployment[d] \in LinkRow /\ deployment[d] \in LinkRow' /\ d \in Enr!Deployment
<1>1. deployment[d] \in LinkRow /\ d \in Enr!Deployment BY DEF Enr!Created, EnrollmentInv, EnrollmentTypes
<1> QED BY <1>1 DEF LinkRow

LEMMA ExpiredMoves ==
  ASSUME EnrollmentInv, NEW d \in Enr!Created, deployment' = Enr!Expired(d), tokens' = tokens PROVE LinksMove
<1>1. CASE deployment[d].status = "expired" BY <1>1 DEF Enr!Expired, LinksMove
<1>2. CASE deployment[d].status # "expired"
  <2> DEFINE x == [deployment[d] EXCEPT !.status = "expired"]
  <2>1. deployment[d] \in LinkRow' BY LinkTypes DEF Enr!RowKeys
  <2>2. /\ x \in LinkRow' /\ x.status = "expired" /\ x.kind = deployment[d].kind
        /\ x.request = deployment[d].request /\ x.used = deployment[d].used
    BY <2>1 DEF LinkRow
  <2>3. deployment' = [deployment EXCEPT ![d] = x] BY <1>2 DEF Enr!Expired
  <2> HIDE DEF x
  <2> QED BY <2>2, <2>3 DEF LinkMove, LinksMove
<1> QED BY <1>1, <1>2

\* The steps of the script that leave the rows alone.
LEMMA ScriptIsSound ==
  ASSUME EnrollmentInv, NEW p \in PC, Enr!SkipInstall(p) \/ Enr!Install(p) \/ Enr!BootstrapDies(p) PROVE EnrollmentInv'
<1>1. UNCHANGED <<rows, tokens, deployment, proof, late, reading, enrollToken, manualUsed, lot, reconciling, taken,
        spent, everBeat>>
  BY DEF Enr!SkipInstall, Enr!Install, Enr!BootstrapDies
<1>2. Walks
  <2>1. CASE Enr!SkipInstall(p) BY <2>1, Staged DEF Enr!SkipInstall, Stages
  <2>2. CASE Enr!BootstrapDies(p) BY <2>2, Staged DEF Enr!BootstrapDies, Stages
  <2>3. CASE Enr!Install(p)
    <3>1. CASE pc' = Enr!Stage(p, "failing") BY <2>3, <3>1, Staged DEF Enr!Install, Stages
    <3>2. CASE pc' = [pc EXCEPT ![p].stage = "report", ![p].version = "new"]
      <4> DEFINE c == [pc[p] EXCEPT !.stage = "report", !.version = "new"]
      <4>1. pc[p] \in ComputerRec /\ pc[p].stage = "installing" /\ pc[p].dep \in Enr!Created
        BY <2>3 DEF Enr!Install, EnrollmentInv, EnrollmentTypes, ScriptSound
      <4>2. pc' = [pc EXCEPT ![p] = c] BY <3>2
      <4>3. c \in ComputerRec /\ c.id = pc[p].id /\ c.cred = pc[p].cred /\ c.stage = "report" /\ c.dep = pc[p].dep
        BY <4>1 DEF ComputerRec, Stages
      <4> HIDE DEF c
      <4> QED BY <4>1, <4>2, <4>3 DEF Walks
    <3> QED BY <2>3, <3>1, <3>2 DEF Enr!Install
  <2> QED BY <2>1, <2>2, <2>3
<1>3. LinksMove BY <1>1 DEF LinksMove
<1>4. reconciling' \subseteq Enr!RowKeys BY <1>1 DEF EnrollmentInv, EnrollmentTypes
<1> QED BY <1>1, <1>2, <1>3, <1>4, StepIsSound

LEMMA AskIsSound ==
  ASSUME EnrollmentInv, NEW p \in PC, NEW d \in Enr!Deployment, Enr!AskMetadata(p, d) PROVE EnrollmentInv'
<1> USE DEF Enr!AskMetadata
<1>1. d \in Enr!Created OBVIOUS
<1>2. CASE d \in late
  <2>1. LinksMove BY <1>2, ExpiredMoves
  <2>2. UNCHANGED <<pc, reading>> BY <1>2
  <2>3. reconciling' \subseteq Enr!RowKeys BY DEF EnrollmentInv, EnrollmentTypes
  <2> QED BY <1>1, <2>1, <2>2, <2>3, StepIsSound
<1>3. CASE d \notin late
  <2> DEFINE c == [pc[p] EXCEPT !.stage = "asking", !.dep = d]
             x == [dep |-> d, status |-> deployment[d].status, endpoint |-> deployment[d].endpoint]
  <2>1. pc[p] \in ComputerRec /\ deployment[d] \in LinkRow BY DEF EnrollmentInv, EnrollmentTypes
  <2>2. c \in ComputerRec /\ c.id = pc[p].id /\ c.cred = pc[p].cred /\ c.stage = "asking" /\ c.dep = d
    BY <2>1 DEF ComputerRec, Stages
  <2>3. deployment[d].status \in {"none", "waiting", "installing"} BY <1>3 DEF Enr!Usable
  <2>4. x \in Read /\ x.dep = d BY <2>1, <2>3 DEF Read, LinkRow
  <2>5. pc' = [pc EXCEPT ![p] = c] /\ reading' = [reading EXCEPT ![p] = x] /\ deployment' = deployment BY <1>3
  <2> HIDE DEF c, x
  <2>6. Enr!Created' = Enr!Created BY <2>5 DEF Enr!Created
  <2>7. \A q \in PC : ScriptSound(q)' BY <1>1, <2>2, <2>4, <2>5, <2>6 DEF ScriptSound, EnrollmentInv, EnrollmentTypes
  <2>8. SameComputers BY <2>2, <2>5 DEF SameComputers, EnrollmentInv, EnrollmentTypes
  <2>9. Keyed' BY <2>8, KeyedStays DEF EnrollmentInv
  <2>10. pc' \in [PC -> ComputerRec] /\ reading' \in [PC -> Read] BY <2>2, <2>4, <2>5 DEF EnrollmentInv, EnrollmentTypes
  <2>11. EnrollmentTypes' BY <2>5, <2>10 DEF EnrollmentInv, EnrollmentTypes, ComputerRec, EndpointRow, LinkRow, Read, Enr!RowKeys
  <2>12. Numbered' /\ Issued' BY <2>5, <2>6 DEF EnrollmentInv, Numbered, Issued
  <2>13. \A e \in Enr!Deployment : LinkSound(e)' BY <2>5 DEF EnrollmentInv, LinkSound
  <2>14. Spent' BY DEF EnrollmentInv, Spent
  <2> QED BY <2>7, <2>9, <2>11, <2>12, <2>13, <2>14 DEF EnrollmentInv
<1> QED BY <1>2, <1>3

LEMMA GiveIsSound ==
  ASSUME EnrollmentInv, NEW p \in PC, Enr!GiveMetadata(p) PROVE EnrollmentInv'
<1> USE DEF Enr!GiveMetadata
<1> DEFINE d == reading[p].dep
<1>1. pc[p].stage = "asking" /\ d \in Enr!Created BY DEF EnrollmentInv, ScriptSound
<1>2. reading' = [reading EXCEPT ![p] = Enr!Unread] /\ reading'[p] = Enr!Unread BY DEF EnrollmentInv, EnrollmentTypes
<1>3. Walks BY <1>1, <1>2, Staged DEF Stages
<1>4. deployment[d] \in LinkRow /\ deployment[d] \in LinkRow' /\ d \in Enr!Deployment BY <1>1, LinkTypes DEF Enr!RowKeys
<1> HIDE DEF d
<1>5. CASE Enr!MarkInstalling(p)
  <2> DEFINE x == [deployment[d] EXCEPT !.status = "installing", !.started = TRUE]
  <2>1. /\ x \in LinkRow' /\ x.status = "installing" /\ x.kind = deployment[d].kind
        /\ x.request = deployment[d].request /\ x.used = deployment[d].used
    BY <1>4 DEF LinkRow
  <2>2. \/ deployment' = [deployment EXCEPT ![d] = x] /\ proof' = [proof EXCEPT ![d] = {}]
        \/ UNCHANGED <<deployment, proof>>
    BY <1>5 DEF Enr!MarkInstalling, d
  <2> HIDE DEF x
  <2>3. LinksMove BY <1>1, <2>1, <2>2 DEF LinkMove, LinksMove
  <2>4. proof' = proof \/ \E e \in Enr!Deployment : proof' = [proof EXCEPT ![e] = {}] BY <1>4, <2>2
  <2> QED BY <1>2, <1>3, <2>3, <2>4, StepIsSound DEF EnrollmentInv, EnrollmentTypes
<1>6. CASE Enr!MarkUnavailable(p)
  <2> DEFINE x == [deployment[d] EXCEPT !.status = "failed", !.endpoint = reading[p].endpoint]
  <2>0. reading[p].endpoint \in Enr!RowKeys' BY DEF EnrollmentInv, EnrollmentTypes, Read, Enr!RowKeys
  <2>1. /\ x \in LinkRow' /\ x.status = "failed" /\ x.kind = deployment[d].kind
        /\ x.request = deployment[d].request /\ x.used = deployment[d].used
    BY <1>4, <2>0 DEF LinkRow
  <2>2. deployment' = [deployment EXCEPT ![d] = x] /\ proof' = proof BY <1>6 DEF Enr!MarkUnavailable, d
  <2> HIDE DEF x
  <2>3. LinksMove BY <1>1, <2>1, <2>2 DEF LinkMove, LinksMove
  <2> QED BY <1>2, <1>3, <2>2, <2>3, StepIsSound DEF EnrollmentInv, EnrollmentTypes
<1> QED BY <1>5, <1>6

\* An admission: what it does to the computer, its link and the rows.
LEMMA AdmissionIsSound ==
  ASSUME EnrollmentInv, NEW p \in PC, NEW bound, Enr!MayTake(p, bound), Enr!Admit(p),
         NEW c \in ComputerRec', pc' = [pc EXCEPT ![p] = c], c.id = pc[p].id, c.cred \in {pc[p].cred, Enr!NewCred(p)},
         c.stage # "idle" => c.dep \in Enr!Created, c.stage # "asking", pc[p].stage # "asking",
         UNCHANGED <<proof, late, reading, lot, reconciling, everBeat>>,
         Numbered', Issued', Enr!Created' = Enr!Created, deployment' \in [Enr!Deployment -> LinkRow'],
         taken' \in [Enr!Deployment -> {0, 1}], \A d \in Enr!Deployment : LinkSound(d)', Spent',
         manualUsed' \subseteq Enr!Manual, enrollToken' \in [open : BOOLEAN, uses : Nat],
         spent' \in [Enr!Manual \cup {"token"} -> Nat]
  PROVE  EnrollmentInv'
<1>1. /\ \A q \in PC : pc'[q].id = pc[q].id
      /\ pc'[p] = c /\ \A q \in PC : q # p => pc'[q] = pc[q]
  BY DEF EnrollmentInv, EnrollmentTypes
<1>2. /\ Keyed' /\ rows' \subseteq EndpointRow' /\ tokens' \in Nat /\ Enr!RowKeys \subseteq Enr!RowKeys'
  BY <1>1, Admitted
<1>3. ComputerRec \subseteq ComputerRec' /\ Read \subseteq Read' BY <1>2 DEF ComputerRec, Read
<1>4. pc' \in [PC -> ComputerRec'] BY <1>1, <1>3 DEF EnrollmentInv, EnrollmentTypes
<1>5. EnrollmentTypes' BY <1>2, <1>3, <1>4 DEF EnrollmentInv, EnrollmentTypes
<1>6. \A q \in PC : ScriptSound(q)' BY <1>1 DEF EnrollmentInv, ScriptSound
<1> QED BY <1>2, <1>5, <1>6 DEF EnrollmentInv

LEMMA EnrollByDeploymentIsSound ==
  ASSUME EnrollmentInv, NEW p \in PC, Enr!EnrollByDeployment(p) PROVE EnrollmentInv'
<1> USE DEF Enr!EnrollByDeployment
<1> DEFINE d == pc[p].dep
<1>1. pc[p].stage = "ready" /\ d \in Enr!Created BY DEF EnrollmentInv, ScriptSound
<1> HIDE DEF d
<1>2. CASE Enr!TokenAccepted(p, d) /\ Enr!MayTake(p, deployment[d].endpoint)
  <2>1. /\ Enr!Admit(p)
        /\ deployment' = [deployment EXCEPT ![d].status = "installing", ![d].started = TRUE,
             ![d].endpoint = Enr!RowKey(p), ![d].used = TRUE]
        /\ taken' = [taken EXCEPT ![d] = @ + 1]
        /\ Enr!Answer(p, [pc EXCEPT ![p].stage = "installing", ![p].cred = Enr!NewCred(p)])
    BY <1>2 DEF d
  <2>2. ~deployment[d].used BY <1>2 DEF Enr!TokenAccepted, Enr!Usable
  <2>3. PICK c : /\ pc' = [pc EXCEPT ![p] = c] /\ c.id = pc[p].id /\ c.cred \in {pc[p].cred, Enr!NewCred(p)}
                 /\ c.stage # "idle" => c.dep \in Enr!Created
                 /\ c.stage # "asking"
                 /\ c \in ComputerRec \/ c = [pc[p] EXCEPT !.stage = "installing", !.cred = Enr!NewCred(p)]
    <3>1. pc[p] \in ComputerRec BY DEF EnrollmentInv, EnrollmentTypes
    <3>2. CASE pc' = [pc EXCEPT ![p].stage = "installing", ![p].cred = Enr!NewCred(p)]
      <4> DEFINE c == [pc[p] EXCEPT !.stage = "installing", !.cred = Enr!NewCred(p)]
      <4>1. pc' = [pc EXCEPT ![p] = c] BY <3>2
      <4>2. c.id = pc[p].id /\ c.cred = Enr!NewCred(p) /\ c.stage = "installing" /\ c.dep = d
        BY <3>1 DEF ComputerRec, d
      <4> QED BY <4>1, <4>2, <1>1
    <3>3. CASE pc' = Enr!Stage(p, "failing")
      <4> DEFINE c == [pc[p] EXCEPT !.stage = "failing"]
      <4>1. pc' = [pc EXCEPT ![p] = c] BY <3>3, <3>1 DEF Enr!Stage, ComputerRec, EnrollmentInv, EnrollmentTypes
      <4>2. c.id = pc[p].id /\ c.cred = pc[p].cred /\ c.stage = "failing" /\ c.dep = d /\ c \in ComputerRec
        BY <3>1 DEF ComputerRec, d, Stages
      <4> QED BY <4>1, <4>2, <1>1
    <3> QED BY <2>1, <3>2, <3>3 DEF Enr!Answer
  <2>4. \A q \in PC : q # p => pc'[q] = pc[q] BY <2>3
  <2>5. pc'[p] = c BY <2>3 DEF EnrollmentInv, EnrollmentTypes
  <2>6. /\ Enr!RowKeys \subseteq Enr!RowKeys' /\ Enr!RowKey(p) \in Enr!RowKeys' /\ Enr!NewCred(p) \in Enr!RowKeys'
    BY <2>1, <1>2, <2>3, <2>4, <2>5, Admitted
  <2>7. deployment[d] \in LinkRow /\ deployment[d] \in LinkRow' /\ d \in Enr!Deployment BY <1>1, <2>6, LinkTypes
  <2> DEFINE x == [deployment[d] EXCEPT !.status = "installing", !.started = TRUE, !.endpoint = Enr!RowKey(p), !.used = TRUE]
  <2>8. /\ x \in LinkRow' /\ x.status = "installing" /\ x.kind = deployment[d].kind
        /\ x.request = deployment[d].request /\ x.used = TRUE
    BY <2>6, <2>7 DEF LinkRow
  <2>9. deployment' = [deployment EXCEPT ![d] = x] BY <2>1
  <2>10. c \in ComputerRec'
    <3>1. pc[p] \in ComputerRec' BY <2>6 DEF EnrollmentInv, EnrollmentTypes, ComputerRec
    <3>2. CASE c \in ComputerRec BY <3>2, <2>6 DEF ComputerRec
    <3>3. CASE c = [pc[p] EXCEPT !.stage = "installing", !.cred = Enr!NewCred(p)]
      BY <3>1, <3>3, <2>6 DEF ComputerRec, Stages
    <3> QED BY <2>3, <3>2, <3>3
  <2> HIDE DEF x
  <2>11. deployment' \in [Enr!Deployment -> LinkRow']
    <3>1. LinkRow \subseteq LinkRow' BY <2>6 DEF LinkRow
    <3> QED BY <2>8, <2>9, <3>1 DEF EnrollmentInv, EnrollmentTypes
  <2>12. deployment'[d] = x /\ \A e \in Enr!Deployment : e # d => deployment'[e] = deployment[e]
    BY <2>7, <2>9 DEF EnrollmentInv, EnrollmentTypes
  <2>13. Enr!Created' = Enr!Created BY <1>1, <2>7, <2>8, <2>12 DEF Enr!Created
  <2>14. taken[d] = 0 /\ taken'[d] = 1 /\ \A e \in Enr!Deployment : e # d => taken'[e] = taken[e]
    BY <2>1, <2>2, <2>7 DEF EnrollmentInv, EnrollmentTypes, LinkSound
  <2>15. taken' \in [Enr!Deployment -> {0, 1}] BY <2>1, <2>7, <2>14 DEF EnrollmentInv, EnrollmentTypes
  <2>16. \A e \in Enr!Deployment : LinkSound(e)' BY <2>7, <2>8, <2>12, <2>14 DEF EnrollmentInv, LinkSound
  <2>17. Numbered' BY <2>13 DEF EnrollmentInv, Numbered
  <2>18. Issued'
    <3>1. Enr!Created \subseteq Enr!Deployment BY DEF Enr!Created
    <3>2. \A e \in Enr!Deployment : deployment'[e].kind = deployment[e].kind /\ deployment'[e].request = deployment[e].request
      BY <2>8, <2>12
    <3>3. {e \in Enr!Created' : deployment'[e].kind = "batch"} = {e \in Enr!Created : deployment[e].kind = "batch"}
      BY <2>13, <3>1, <3>2
    <3>4. \A a, b \in Enr!Created' : a # b /\ deployment'[a].request # "none" => deployment'[a].request # deployment'[b].request
      <4>1. \A a, b \in Enr!Created : a # b /\ deployment[a].request # "none" => deployment[a].request # deployment[b].request
        BY DEF EnrollmentInv, Issued
      <4> QED BY ONLY <4>1, <2>13, <3>1, <3>2
    <3> QED BY <3>3, <3>4 DEF EnrollmentInv, Issued
  <2>19. Spent' BY DEF EnrollmentInv, Spent
  <2> QED BY <1>1, <1>2, <2>1, <2>3, <2>10, <2>11, <2>13, <2>15, <2>16, <2>17, <2>18, <2>19, AdmissionIsSound
       DEF EnrollmentInv, EnrollmentTypes
<1>3. CASE ~(Enr!TokenAccepted(p, d) /\ Enr!MayTake(p, deployment[d].endpoint))
  <2>1. /\ pc' = Enr!Stage(p, "failing") /\ UNCHANGED <<rows, tokens, taken>>
        /\ deployment' = IF d \in late THEN Enr!Expired(d) ELSE deployment
    BY <1>3 DEF d
  <2>2. Walks BY <1>1, <2>1, Staged DEF Stages
  <2>3. LinksMove BY <1>1, <2>1, ExpiredMoves DEF LinksMove
  <2> QED BY <2>1, <2>2, <2>3, StepIsSound DEF EnrollmentInv, EnrollmentTypes
<1> QED BY <1>2, <1>3

LEMMA EnrollByTokenIsSound ==
  ASSUME Enr!EnrollmentAssumption, EnrollmentInv, NEW p \in PC, NEW v \in Enr!Voucher(p), Enr!EnrollByToken(p, v) PROVE EnrollmentInv'
<1> USE DEF Enr!EnrollByToken
<1>1. /\ v \in {{"token"}} \cup {{"token", m} : m \in Enr!Manual} \cup {{"free"}}
      /\ "token" \in v => enrollToken.uses < TokenUses
      /\ v \cap manualUsed = {}
  BY DEF Enr!Voucher, Enr!TokenOpen
<1>2. Spent' /\ spent' \in [Enr!Manual \cup {"token"} -> Nat] /\ manualUsed' \subseteq Enr!Manual
      /\ enrollToken' \in [open : BOOLEAN, uses : Nat]
  <2>0. TokenUses \in Nat BY DEF Enr!EnrollmentAssumption
  <2>1. \A u \in Enr!Manual \cup {"token"} : spent'[u] = IF u \in v THEN spent[u] + 1 ELSE spent[u]
    BY DEF EnrollmentInv, EnrollmentTypes
  <2>2. spent' \in [Enr!Manual \cup {"token"} -> Nat] /\ manualUsed' \subseteq Enr!Manual BY DEF EnrollmentInv, EnrollmentTypes
  <2>3. enrollToken' \in [open : BOOLEAN, uses : Nat] BY DEF EnrollmentInv, EnrollmentTypes
  <2>4. enrollToken'.uses = IF "token" \in v THEN enrollToken.uses + 1 ELSE enrollToken.uses BY DEF EnrollmentInv, EnrollmentTypes
  <2>5. \A m \in Enr!Manual : m \in manualUsed' <=> m \in manualUsed \/ m \in v OBVIOUS
  <2>6. \A m \in Enr!Manual : spent'[m] = IF m \in manualUsed' THEN 1 ELSE 0
    BY <1>1, <2>1, <2>5 DEF EnrollmentInv, Spent
  <2>7. spent'["token"] = enrollToken'.uses /\ enrollToken'.uses <= TokenUses
    BY <1>1, <2>0, <2>1, <2>4 DEF EnrollmentInv, Spent, EnrollmentTypes
  <2> QED BY <2>2, <2>3, <2>6, <2>7 DEF Spent
<1>3. PICK c : /\ pc' = [pc EXCEPT ![p] = c] /\ c.id = pc[p].id /\ c.cred \in {pc[p].cred, Enr!NewCred(p)}
               /\ c.stage = "idle"
               /\ c = pc[p] \/ c = [pc[p] EXCEPT !.cred = Enr!NewCred(p), !.version = "old"]
  <2>1. pc[p] \in ComputerRec BY DEF EnrollmentInv, EnrollmentTypes
  <2>2. CASE pc' = pc
    <3>1. pc' = [pc EXCEPT ![p] = pc[p]] BY <2>2 DEF EnrollmentInv, EnrollmentTypes
    <3> QED BY <3>1
  <2>3. CASE pc' = [pc EXCEPT ![p].cred = Enr!NewCred(p), ![p].version = "old"]
    <3> DEFINE c == [pc[p] EXCEPT !.cred = Enr!NewCred(p), !.version = "old"]
    <3>1. pc' = [pc EXCEPT ![p] = c] BY <2>3
    <3>2. c.id = pc[p].id /\ c.cred = Enr!NewCred(p) /\ c.stage = "idle" BY <2>1 DEF ComputerRec
    <3> QED BY <3>1, <3>2
  <2> QED BY <2>2, <2>3
<1>4. pc'[p] = c /\ \A q \in PC : q # p => pc'[q] = pc[q] BY <1>3 DEF EnrollmentInv, EnrollmentTypes
<1>5. Enr!MayTake(p, 0) /\ Enr!Admit(p) OBVIOUS
<1>6. Enr!RowKeys \subseteq Enr!RowKeys' /\ Enr!NewCred(p) \in Enr!RowKeys'
  BY <1>3, <1>4, <1>5, Admitted
<1>7. c \in ComputerRec'
  <2>1. pc[p] \in ComputerRec' BY <1>6 DEF EnrollmentInv, EnrollmentTypes, ComputerRec
  <2> QED BY <1>3, <1>6, <2>1 DEF ComputerRec
<1>8. deployment' \in [Enr!Deployment -> LinkRow']
  <2>1. LinkRow \subseteq LinkRow' BY <1>6 DEF LinkRow
  <2> QED BY <2>1 DEF EnrollmentInv, EnrollmentTypes
<1>9. Enr!Created' = Enr!Created BY DEF Enr!Created
<1>10. Numbered' /\ Issued' BY <1>9 DEF EnrollmentInv, Numbered, Issued
<1>11. \A e \in Enr!Deployment : LinkSound(e)' BY DEF EnrollmentInv, LinkSound
<1> QED BY <1>2, <1>3, <1>5, <1>7, <1>8, <1>9, <1>10, <1>11, AdmissionIsSound DEF EnrollmentInv, EnrollmentTypes

\* Who reports has a row or the link's own endpoint.
LEMMA AcceptedKeys ==
  ASSUME EnrollmentInv, NEW p \in PC, NEW d \in Enr!Created PROVE Enr!Accepted(p, d) \subseteq Enr!RowKeys
BY DEF Enr!Accepted, Enr!Reporter, Enr!RowOf, EnrollmentInv, EnrollmentTypes, EndpointRow, LinkRow, Enr!Created

LEMMA ReportFailureIsSound ==
  ASSUME EnrollmentInv, NEW p \in PC, Enr!ReportFailure(p) PROVE EnrollmentInv'
<1> USE DEF Enr!ReportFailure
<1> DEFINE d == pc[p].dep
<1>1. pc[p].stage = "failing" /\ d \in Enr!Created BY DEF EnrollmentInv, ScriptSound
<1>2. Walks BY <1>1, Staged DEF Stages
<1>3. deployment[d] \in LinkRow' /\ d \in Enr!Deployment /\ Enr!RowKeys' = Enr!RowKeys BY <1>1, LinkTypes DEF Enr!RowKeys
<1>4. deployment' = deployment \/ \E k \in Enr!Accepted(p, d) :
        deployment' = [deployment EXCEPT ![d].status = "failed", ![d].endpoint = k]
  BY DEF d
<1> HIDE DEF d
<1>5. ASSUME NEW k \in Enr!Accepted(p, d),
             deployment' = [deployment EXCEPT ![d].status = "failed", ![d].endpoint = k]
      PROVE LinksMove
  <2> DEFINE x == [deployment[d] EXCEPT !.status = "failed", !.endpoint = k]
  <2>0. k \in Enr!RowKeys' BY <1>1, <1>3, AcceptedKeys
  <2>1. /\ x \in LinkRow' /\ x.status = "failed" /\ x.kind = deployment[d].kind
        /\ x.request = deployment[d].request /\ x.used = deployment[d].used
    BY <1>3, <2>0 DEF LinkRow
  <2>2. deployment' = [deployment EXCEPT ![d] = x] BY <1>5
  <2> HIDE DEF x
  <2> QED BY <1>1, <2>1, <2>2 DEF LinkMove, LinksMove
<1>6. LinksMove BY <1>4, <1>5 DEF LinksMove
<1> QED BY <1>2, <1>6, StepIsSound DEF EnrollmentInv, EnrollmentTypes

\* Completed is completed with proof.
LEMMA CompletedMoves ==
  ASSUME EnrollmentInv, NEW d \in Enr!Created, NEW k \in Enr!RowKeys, Enr!Confirmed(d, k), tokens' = tokens, deployment' = Enr!Completed(d, k)
  PROVE  LinksMove
<1> DEFINE x == [deployment[d] EXCEPT !.status = "completed", !.endpoint = k, !.used = TRUE]
<1>1. deployment[d] \in LinkRow' /\ d \in Enr!Deployment /\ Enr!RowKeys' = Enr!RowKeys BY LinkTypes DEF Enr!RowKeys
<1>2. /\ x \in LinkRow' /\ x.status = "completed" /\ x.kind = deployment[d].kind
      /\ x.request = deployment[d].request /\ x.used = TRUE /\ x.endpoint = k /\ x.started = deployment[d].started
  BY <1>1 DEF LinkRow
<1>3. deployment' = [deployment EXCEPT ![d] = x] BY DEF Enr!Completed
<1> HIDE DEF x
<1>4. k \in everBeat[d] /\ deployment[d].started BY <1>1 DEF Enr!Confirmed, EnrollmentInv, LinkSound
<1> QED BY <1>1, <1>2, <1>3, <1>4 DEF LinkMove, LinksMove

LEMMA ReportSuccessIsSound ==
  ASSUME EnrollmentInv, NEW p \in PC, Enr!ReportSuccess(p) PROVE EnrollmentInv'
<1> DEFINE d == pc[p].dep
<1>1. pc[p].stage = "report" /\ d \in Enr!Created BY DEF Enr!ReportSuccess, EnrollmentInv, ScriptSound
<1>2. deployment[d] \in LinkRow' /\ d \in Enr!Deployment /\ Enr!RowKeys' = Enr!RowKeys /\ Enr!Accepted(p, d) \subseteq Enr!RowKeys
  <2> HIDE DEF d
  <2>1. tokens' = tokens BY DEF Enr!ReportSuccess
  <2> QED BY <1>1, <2>1, LinkTypes, AcceptedKeys DEF Enr!RowKeys
<1>3. UNCHANGED <<tokens, proof, late, reading, enrollToken, manualUsed, lot, reconciling, taken, spent,
                   everBeat, runs, troubles>>
  BY DEF Enr!ReportSuccess
<1>4. Walks \/ UNCHANGED <<pc, reading>>
  <2>1. pc' = Enr!Stage(p, "idle") \/ pc' = pc BY DEF Enr!ReportSuccess
  <2> QED BY <1>1, <1>3, <2>1, Staged DEF Stages
<1>5. \/ UNCHANGED <<rows, deployment>>
      \/ \E k \in Enr!Accepted(p, d) : Enr!Confirmed(d, k) /\ Enr!MarkInstalled(k)
           /\ (deployment' = deployment \/ deployment' = Enr!Completed(d, k))
      \/ /\ rows' = rows /\ deployment[d].status = "installing"
         /\ \E k \in Enr!Accepted(p, d) : deployment' = [deployment EXCEPT ![d].endpoint = k, ![d].reported = TRUE]
  BY DEF Enr!ReportSuccess
<1> HIDE DEF d
<1>6. CASE UNCHANGED <<rows, deployment>>
  <2>1. LinksMove BY <1>6 DEF LinksMove
  <2> QED BY <1>3, <1>4, <1>6, <2>1, StepIsSound DEF EnrollmentInv, EnrollmentTypes
<1>7. ASSUME NEW k \in Enr!Accepted(p, d), Enr!Confirmed(d, k), Enr!MarkInstalled(k),
             deployment' = deployment \/ deployment' = Enr!Completed(d, k)
      PROVE  EnrollmentInv'
  <2>1. LinksMove BY <1>1, <1>2, <1>3, <1>7, CompletedMoves DEF LinksMove
  <2> QED BY <1>3, <1>4, <1>7, <2>1, StepIsSound DEF EnrollmentInv, EnrollmentTypes
<1>8. ASSUME NEW k \in Enr!Accepted(p, d), rows' = rows, deployment[d].status = "installing",
             deployment' = [deployment EXCEPT ![d].endpoint = k, ![d].reported = TRUE]
      PROVE  EnrollmentInv'
  <2> DEFINE x == [deployment[d] EXCEPT !.endpoint = k, !.reported = TRUE]
  <2>1. /\ x \in LinkRow' /\ x.status = "installing" /\ x.kind = deployment[d].kind
        /\ x.request = deployment[d].request /\ x.used = deployment[d].used
    BY <1>2, <1>8 DEF LinkRow
  <2>2. deployment' = [deployment EXCEPT ![d] = x] BY <1>8
  <2> HIDE DEF x
  <2>3. LinksMove BY <1>1, <2>1, <2>2 DEF LinkMove, LinksMove
  <2> QED BY <1>3, <1>4, <1>8, <2>3, StepIsSound DEF EnrollmentInv, EnrollmentTypes
<1> QED BY <1>5, <1>6, <1>7, <1>8

LEMMA ReconcileIsSound ==
  ASSUME EnrollmentInv, NEW k \in reconciling, Enr!Reconcile(k) PROVE EnrollmentInv'
<1> USE DEF Enr!Reconcile
<1>1. k \in Enr!RowKeys /\ reconciling' \subseteq Enr!RowKeys BY DEF EnrollmentInv, EnrollmentTypes
<1>2. CASE UNCHANGED <<deployment, rows>>
  <2>1. LinksMove BY <1>2 DEF LinksMove
  <2> QED BY <1>1, <1>2, <2>1, StepIsSound
<1>3. ASSUME NEW d \in Enr!Created, Enr!Pending(d, k), deployment' = Enr!Completed(d, k), Enr!MarkInstalled(k)
      PROVE  EnrollmentInv'
  <2>1. LinksMove BY <1>1, <1>3, CompletedMoves DEF Enr!Pending
  <2> QED BY <1>1, <1>3, <2>1, StepIsSound
<1> QED BY <1>2, <1>3

LEMMA HeartbeatIsSound ==
  ASSUME EnrollmentInv, NEW p \in PC, Enr!Heartbeat(p) PROVE EnrollmentInv'
<1> USE DEF Enr!Heartbeat
<1> DEFINE seen(d) == deployment[d].started /\ pc[p].version = "new"
<1>1. PICK r \in Enr!RowOf(p) : /\ Enr!IdentityHolds(p, r)
       /\ rows' = Enr!Others(r) \cup {[r EXCEPT !.name = pc[p].name]}
       /\ proof' = [d \in Enr!Deployment |-> IF seen(d) THEN proof[d] \cup {r.key} ELSE proof[d]]
       /\ everBeat' = [d \in Enr!Deployment |-> IF seen(d) THEN everBeat[d] \cup {r.key} ELSE everBeat[d]]
       /\ reconciling' = IF pc[p].version = "new" THEN reconciling \cup {r.key} ELSE reconciling
  OBVIOUS
<1>2. r \in rows /\ r.key \in Enr!RowKeys /\ pc[p].name \in PC \cup {SpareName}
  BY DEF Enr!RowOf, EnrollmentInv, EnrollmentTypes, EndpointRow, ComputerRec
<1> HIDE DEF seen
<1>3. \A s \in Enr!Others(r) : s.name # pc[p].name BY <1>1 DEF Enr!IdentityHolds
<1>4. SameComputers BY DEF SameComputers
<1>5. Keyed' /\ rows' \subseteq EndpointRow' BY <1>1, <1>2, <1>3, <1>4, KeyedRenamed
<1>6. Enr!Created' = Enr!Created BY DEF Enr!Created
<1>7. /\ proof' \in [Enr!Deployment -> SUBSET Enr!RowKeys] /\ everBeat' \in [Enr!Deployment -> SUBSET Enr!RowKeys]
      /\ reconciling' \subseteq Enr!RowKeys
  BY <1>1, <1>2 DEF EnrollmentInv, EnrollmentTypes
<1>8. EnrollmentTypes' BY <1>5, <1>7 DEF EnrollmentInv, EnrollmentTypes, ComputerRec, LinkRow, Read, Enr!RowKeys
<1>9. \A d \in Enr!Deployment : LinkSound(d)' BY <1>1 DEF EnrollmentInv, LinkSound
<1>10. Numbered' /\ Issued' BY <1>6 DEF EnrollmentInv, Numbered, Issued
<1>11. \A q \in PC : ScriptSound(q)' BY <1>6 DEF EnrollmentInv, ScriptSound
<1>12. Spent' BY DEF EnrollmentInv, Spent
<1> QED BY <1>5, <1>8, <1>9, <1>10, <1>11, <1>12 DEF EnrollmentInv

Becomes(p, c) ==
  /\ pc' = [pc EXCEPT ![p] = c] /\ c.stage = pc[p].stage /\ c.dep = pc[p].dep
  /\ (c.id = pc[p].id /\ c.cred = pc[p].cred) \/ c.cred = 0

\* The computer is renamed or installed anew: nobody else's credential is touched.
LEMMA ComputerIsSound ==
  ASSUME EnrollmentInv, NEW p \in PC, \/ \E name \in PC \cup {SpareName} : Enr!Rename(p, name)
                                      \/ \E id \in {p, "image"} : Enr!Reimage(p, id)
  PROVE  EnrollmentInv'
<1>1. UNCHANGED <<rows, tokens, deployment, proof, late, reading, enrollToken, manualUsed, lot, reconciling, taken, spent,
        everBeat>>
  BY DEF Enr!Rename, Enr!Reimage
<1>2. PICK c \in ComputerRec : Becomes(p, c)
  <2>1. pc[p] \in ComputerRec BY DEF EnrollmentInv, EnrollmentTypes
  <2>2. ASSUME NEW name \in PC \cup {SpareName}, Enr!Rename(p, name)
        PROVE  \E c \in ComputerRec : Becomes(p, c)
    <3> DEFINE c == [pc[p] EXCEPT !.name = name]
    <3>1. c \in ComputerRec /\ c.stage = pc[p].stage /\ c.dep = pc[p].dep /\ c.id = pc[p].id /\ c.cred = pc[p].cred
      BY <2>1 DEF ComputerRec
    <3>2. pc' = [pc EXCEPT ![p] = c] BY <2>2 DEF Enr!Rename
    <3> QED BY <3>1, <3>2 DEF Becomes
  <2>3. ASSUME NEW id \in {p, "image"}, Enr!Reimage(p, id)
        PROVE  \E c \in ComputerRec : Becomes(p, c)
    <3> DEFINE c == [pc[p] EXCEPT !.id = id, !.cred = 0, !.version = "none"]
    <3>0. id \in Enr!MachineId /\ 0 \in Enr!RowKeys BY DEF Enr!MachineId, Enr!RowKeys, EnrollmentInv, EnrollmentTypes
    <3>1. c \in ComputerRec /\ c.stage = pc[p].stage /\ c.dep = pc[p].dep /\ c.cred = 0
      BY <2>1, <3>0 DEF ComputerRec
    <3>2. pc' = [pc EXCEPT ![p] = c] BY <2>3 DEF Enr!Reimage
    <3> QED BY <3>1, <3>2 DEF Becomes
  <2> QED BY <2>2, <2>3
<1> USE DEF Becomes
<1>3. pc'[p] = c /\ \A q \in PC : q # p => pc'[q] = pc[q] BY <1>2 DEF EnrollmentInv, EnrollmentTypes
<1>4. Keyed' BY <1>1, <1>2, <1>3 DEF EnrollmentInv, Keyed
<1>5. EnrollmentTypes'
  <2>1. pc' \in [PC -> ComputerRec] BY <1>2 DEF EnrollmentInv, EnrollmentTypes
  <2> QED BY <1>1, <2>1 DEF EnrollmentInv, EnrollmentTypes, ComputerRec, EndpointRow, LinkRow, Read, Enr!RowKeys
<1>6. Enr!Created' = Enr!Created BY <1>1 DEF Enr!Created
<1>7. Numbered' /\ Issued' BY <1>1, <1>6 DEF EnrollmentInv, Numbered, Issued
<1>8. \A d \in Enr!Deployment : LinkSound(d)' BY <1>1 DEF EnrollmentInv, LinkSound
<1>9. \A q \in PC : ScriptSound(q)' BY <1>1, <1>2, <1>3, <1>6 DEF EnrollmentInv, ScriptSound
<1>10. Spent' BY <1>1 DEF EnrollmentInv, Spent
<1> QED BY <1>4, <1>5, <1>7, <1>8, <1>9, <1>10 DEF EnrollmentInv

LEMMA EnrollmentStaysIsSound == ASSUME EnrollmentInv, UNCHANGED enrollmentV PROVE EnrollmentInv'
<1> USE DEF enrollmentV
<1>1. Enr!Created' = Enr!Created BY DEF Enr!Created
<1>2. EnrollmentTypes' BY DEF EnrollmentInv, EnrollmentTypes, ComputerRec, EndpointRow, LinkRow, Read, Enr!RowKeys
<1>3. Numbered' /\ Issued' BY <1>1 DEF EnrollmentInv, Numbered, Issued
<1>4. \A d \in Enr!Deployment : LinkSound(d)' BY DEF EnrollmentInv, LinkSound
<1>5. \A q \in PC : ScriptSound(q)' BY <1>1 DEF EnrollmentInv, ScriptSound
<1>6. Spent' /\ Keyed' BY DEF EnrollmentInv, Spent, Keyed
<1> QED BY <1>2, <1>3, <1>4, <1>5, <1>6 DEF EnrollmentInv

LEMMA EnrollmentNextIsSound == ASSUME Enr!EnrollmentAssumption, EnrollmentInv, Enr!EnrollmentNext PROVE EnrollmentInv'
<1>1. ASSUME NEW d \in Enr!Deployment, \E kind \in LinkKind : Enr!CreateDeployment(d, kind) PROVE EnrollmentInv'
  BY <1>1, CreateIsSound
<1>2. ASSUME NEW d \in Enr!Deployment, \E q \in IssueRequest : Enr!BatchIssue(d, q) PROVE EnrollmentInv'
  BY <1>2, IssueIsSound
<1>3. ASSUME NEW d \in Enr!Deployment, Enr!DeploymentExpires(d) PROVE EnrollmentInv' BY <1>3, ClosesAreSound
<1>4. ASSUME NEW d \in Enr!Deployment, \E p \in PC : Enr!AskMetadata(p, d) PROVE EnrollmentInv' BY <1>4, AskIsSound
<1>5. CASE (\E over \in BOOLEAN : Enr!BatchClose(over)) \/ Enr!CloseToken BY <1>5, ClosesAreSound
<1>6. CASE \E r \in rows : Enr!RotateCredential(r) BY <1>6, RotateIsSound
<1>7. ASSUME NEW p \in PC, Enr!GiveMetadata(p) \/ Enr!EnrollByDeployment(p) PROVE EnrollmentInv'
  BY <1>7, GiveIsSound, EnrollByDeploymentIsSound
<1>8. ASSUME NEW p \in PC, Enr!SkipInstall(p) \/ Enr!Install(p) \/ Enr!BootstrapDies(p) PROVE EnrollmentInv' BY <1>8, ScriptIsSound
<1>9. ASSUME NEW p \in PC, Enr!ReportFailure(p) \/ Enr!ReportSuccess(p) \/ Enr!Heartbeat(p) PROVE EnrollmentInv'
  BY <1>9, ReportFailureIsSound, ReportSuccessIsSound, HeartbeatIsSound
<1>10. ASSUME NEW p \in PC, \E v \in Enr!Voucher(p) : Enr!EnrollByToken(p, v) PROVE EnrollmentInv' BY <1>10, EnrollByTokenIsSound
<1>11. ASSUME NEW p \in PC, \/ \E name \in PC \cup {SpareName} : Enr!Rename(p, name)
                            \/ \E id \in {p, "image"} : Enr!Reimage(p, id)
       PROVE EnrollmentInv'
  BY <1>11, ComputerIsSound
<1>12. ASSUME NEW k \in reconciling, Enr!Reconcile(k) \/ Enr!ReconcileLost(k) PROVE EnrollmentInv'
  <2>1. CASE Enr!Reconcile(k) BY <2>1, ReconcileIsSound
  <2>2. CASE Enr!ReconcileLost(k) BY <2>2, ClosesAreSound
  <2> QED BY <1>12, <2>1, <2>2
<1> QED BY <1>1, <1>2, <1>3, <1>4, <1>5, <1>6, <1>7, <1>8, <1>9, <1>10, <1>11, <1>12 DEF Enr!EnrollmentNext

LEMMA EnrollmentInvIsEnough == ASSUME EnrollmentInv PROVE Enr!EnrollmentTypeOK /\ Enr!EnrollmentIsSound
<1> USE DEF EnrollmentInv
<1>1. Enr!EnrollmentTypeOK BY DEF EnrollmentTypes, Enr!EnrollmentTypeOK, ComputerRec, EndpointRow, LinkRow, Stages
<1>2. Enr!IdentityIsUnique BY DEF Keyed, Enr!IdentityIsUnique, Enr!RowOf
<1>3. Enr!AuthorizedOnce BY EnrSets DEF EnrollmentTypes, Issued, Spent, Enr!AuthorizedOnce
<1>4. Enr!CompletionIsProved BY DEF LinkSound, Enr!CompletionIsProved, Enr!Created
<1> QED BY <1>1, <1>2, <1>3, <1>4 DEF Enr!EnrollmentIsSound

-----------------------------------------------------------------------------
(* Alerts.                                                                  *)

\* The instance has its own copies of the operators of FiniteSets.
LEMMA AleSets == \A S : Ale!Cardinality(S) = Cardinality(S) /\ Ale!IsFiniteSet(S) = IsFiniteSet(S)
BY DEF Ale!Cardinality, Cardinality, Ale!IsFiniteSet, IsFiniteSet

Phases == {"idle", "checked", "evaluate", "save", "resolve", "detect", "commit", "expire", "judge"}
AlertRow == [kind : {"none", "condition", "policy", "change"},
             status : {"open", "acknowledged", "resolved"}, over : BOOLEAN]
Process == [phase : Phases, snapshot : Ale!Snapshot, rows : SUBSET Ale!Alert, old : Ale!Alert \cup {Ale!NoAlert},
            seen : BOOLEAN, spared : BOOLEAN]
Auditors(s) ==
  {m \in Maintenance : maintenance[m].phase = "commit" /\ maintenance[m].snapshot = s /\ ~maintenance[m].seen}

AlertTypes ==
  /\ facts \in [Ale!Snapshot -> SUBSET Ale!Fact] /\ latest \in Ale!Snapshot /\ audits \in [Ale!Snapshot -> Nat]
  /\ alerts \in [Ale!Alert -> AlertRow] /\ violation \in [open : BOOLEAN, alert : Ale!Alert \cup {Ale!NoAlert}]
  /\ maintenance \in [Maintenance -> Process]
  /\ runRow \in [Maintenance -> {"running", "stale", "ended"}]
  /\ console \in [alert : Ale!Alert \cup {Ale!NoAlert}, wants : {"nothing", "acknowledged", "resolved"}]
  /\ calm \in Maintenance \cup {"disturbed", "settled"}
  /\ excepted \in BOOLEAN /\ overlapped \in BOOLEAN /\ revived \in BOOLEAN
Kinds ==
  /\ violation.alert # Ale!NoAlert => alerts[violation.alert].kind = "policy"
  /\ \A m \in Maintenance : maintenance[m].old # Ale!NoAlert => alerts[maintenance[m].old].kind = "condition"
  /\ console # Ale!Nobody => console.alert # Ale!NoAlert /\ console.wants # "nothing"
Counted == \A s \in Ale!Snapshot : audits[s] + Cardinality(Auditors(s)) <= Cardinality(Maintenance)
OneWorks == \A m, n \in Maintenance : Ale!Working(m) /\ Ale!Working(n) => m = n
Expecting(m) == maintenance[m].phase = "save" /\ ~maintenance[m].seen /\ maintenance[m].old = Ale!NoAlert
OneCondition ==
  /\ \A a, b \in Ale!Alert : alerts[a].kind = "condition" /\ alerts[b].kind = "condition" => a = b
  /\ \A m \in Maintenance : Expecting(m) => \A a \in Ale!Alert : alerts[a].kind # "condition"
OneAudit ==
  /\ \A s \in Ale!Snapshot : audits[s] <= 1
  /\ \A m \in Maintenance : maintenance[m].phase = "commit" /\ ~maintenance[m].seen =>
       audits[maintenance[m].snapshot] = 0
OneJudge == \A m \in Maintenance : maintenance[m].phase = "judge" => maintenance[m].seen = violation.open
OneActive ==
  /\ \A a, b \in Ale!Active("change") : a = b
  /\ Ale!Active("policy") \subseteq {violation.alert}
  /\ ~violation.open => Ale!Active("policy") = {}
Solo == OneWorks /\ OneCondition /\ OneAudit /\ OneJudge /\ (~revived => OneActive)

Evaluates(m) == (Ale!Active("condition") # {}) = ("disk" \in facts[latest]) /\ Ale!Active("policy") = {}
CalmAt(m) ==
  LET w == maintenance[m] IN
    /\ Ale!Working(m) /\ \A n \in Maintenance \ {m} : ~Ale!Working(n)
    /\ w.phase # "detect"
    /\ w.phase \notin {"evaluate", "expire"} => w.snapshot = latest
    /\ w.phase = "save" =>
         /\ w.rows = Ale!Evaluated /\ w.seen = (Ale!Active("condition") # {})
         /\ w.old = Ale!NoAlert => \A a \in Ale!Alert : alerts[a].kind = "condition" => alerts[a].status # "resolved"
         /\ w.old # Ale!NoAlert => alerts[w.old].status = "resolved"
    /\ w.phase = "resolve" =>
         /\ Ale!Active("policy") \subseteq w.rows
         /\ IF Ale!Desired(m) THEN Ale!Active("condition") # {} ELSE Ale!Active("condition") \subseteq w.rows
    /\ w.phase \in {"commit", "expire", "judge"} => Evaluates(m)
    /\ w.phase = "commit" => w.seen = (audits[latest] > 0)
    /\ w.phase \in {"expire", "judge"} /\ Ale!Appeared(latest) => audits[latest] > 0
    /\ w.phase = "judge" => w.seen = violation.open /\ w.spared = excepted
Settled == (\A m \in Maintenance : ~Ale!Working(m)) /\ Ale!PassIsTrue
AlertInv ==
  /\ AlertTypes /\ Kinds /\ Counted /\ (~overlapped => Solo)
  /\ (calm \in Maintenance => CalmAt(calm)) /\ (calm = "settled" => Settled)
\* A finite set has a member with the least value: of the members' down-sets one is minimal.
LEMMA LeastMember ==
  ASSUME NEW W, IsFiniteSet(W), W # {}, NEW f \in [W -> Int]
  PROVE  \E w \in W : \A v \in W : f[w] <= f[v]
<1> DEFINE Down(w) == {v \in W : f[v] <= f[w]}
           Downs == {Down(w) : w \in W}
<1>1. Downs \subseteq SUBSET W /\ Downs # {}
  <2>1. \A w \in W : Down(w) \in SUBSET W OBVIOUS
  <2> HIDE DEF Down
  <2> QED BY <2>1
<1>2. IsWellFoundedOn(StrictSubsetOrdering(W), SUBSET W)
  BY FS_StrictSubsetOrderingWellFounded, FS_FiniteSubsetsOfFinite
<1>3. \E D \in Downs : \A E \in Downs : ~(<<E, D>> \in StrictSubsetOrdering(W))
  <2> HIDE DEF Downs
  <2> QED BY <1>1, <1>2, WFMin
<1>4. PICK w \in W : \A E \in Downs : ~(<<E, Down(w)>> \in StrictSubsetOrdering(W)) BY <1>3
<1>5. ASSUME NEW v \in W, f[v] < f[w] PROVE FALSE
  <2>1. Down(v) \subseteq Down(w) /\ w \in Down(w) /\ w \notin Down(v) BY <1>5 DEF Down
  <2>2. Down(v) # Down(w) BY <2>1
  <2>3. <<Down(v), Down(w)>> \in StrictSubsetOrdering(W)
    <3>1. Down(v) \in SUBSET W /\ Down(w) \in SUBSET W BY DEF Down
    <3> HIDE DEF Down
    <3> QED BY <3>1, <2>1, <2>2 DEF StrictSubsetOrdering
  <2> QED BY <2>3, <1>4
<1> QED BY <1>5

LEMMA AlertInitIsSound == ASSUME Ale!AlertAssumption, Ale!AlertsInit PROVE AlertInv
<1> USE DEF Ale!AlertAssumption, Ale!AlertsInit
<1>1. Ale!Idle \in Process /\ Ale!Idle.phase = "idle" /\ Ale!Idle.old = Ale!NoAlert BY DEF Ale!Idle, Process, Phases, Ale!Snapshot, Ale!NoAlert
<1>2. Ale!Unused \in AlertRow /\ Ale!Unused.kind = "none" /\ Ale!Unused.status = "resolved" BY DEF Ale!Unused, AlertRow
<1>0. 0 \in Ale!Snapshot BY DEF Ale!Snapshot
<1>9. facts \in [Ale!Snapshot -> SUBSET Ale!Fact] BY DEF Ale!Fact
<1>3. AlertTypes BY <1>0, <1>1, <1>2, <1>9 DEF AlertTypes, Ale!Nobody, Ale!NoAlert
<1>4. Kinds BY <1>1 DEF Kinds
<1>5. Counted
  <2>1. \A s \in Ale!Snapshot : Auditors(s) = {} BY <1>1 DEF Auditors
  <2>2. Cardinality({}) = 0 /\ Cardinality(Maintenance) \in Nat BY FS_EmptySet, FS_CardinalityType, AleSets
  <2>3. ASSUME NEW s \in Ale!Snapshot PROVE audits[s] + Cardinality(Auditors(s)) <= Cardinality(Maintenance)
    <3>1. audits[s] = 0 /\ Cardinality(Auditors(s)) = 0 BY <2>1, <2>2
    <3> QED BY <3>1, <2>2
  <2> QED BY <2>3 DEF Counted
<1>6. \A k \in {"condition", "policy", "change"} : Ale!Active(k) = {} BY <1>2 DEF Ale!Active
<1>7. OneWorks /\ OneCondition /\ OneAudit /\ OneJudge
  <2>1. \A m \in Maintenance : maintenance[m].phase = "idle" BY <1>1
  <2>2. \A a \in Ale!Alert : alerts[a].kind = "none" BY <1>2
  <2>3. OneWorks /\ OneJudge BY <2>1 DEF OneWorks, Ale!Working, OneJudge
  <2>4. OneCondition BY <2>1, <2>2 DEF OneCondition, Expecting
  <2>5. OneAudit BY <2>1 DEF OneAudit
  <2> QED BY <2>3, <2>4, <2>5
<1>8. OneActive BY <1>6 DEF OneActive
<1> QED BY <1>3, <1>4, <1>5, <1>7, <1>8 DEF AlertInv, Solo

LEMMA FreshIsReusable == ASSUME Ale!AlertAssumption, Ale!Reusable # {} PROVE Ale!Fresh \in Ale!Reusable
<1>1. IsFiniteSet(Ale!Reusable)
  <2>1. IsFiniteSet(Ale!Alert) BY FS_Interval DEF Ale!Alert, Ale!AlertAssumption
  <2>2. Ale!Reusable \subseteq Ale!Alert BY DEF Ale!Reusable
  <2> QED BY <2>1, <2>2, FS_Subset
<1> DEFINE f == [a \in Ale!Reusable |-> a]
<1>2. f \in [Ale!Reusable -> Int] BY DEF Ale!Reusable, Ale!Alert
<1>3. \E a \in Ale!Reusable : \A b \in Ale!Reusable : f[a] <= f[b]
  <2> HIDE DEF f
  <2> QED BY <1>1, <1>2, LeastMember
<1>4. \E a \in Ale!Reusable : \A b \in Ale!Reusable : a <= b BY <1>3
<1> QED BY <1>4 DEF Ale!Fresh

\* A new alert takes a row nobody looks at.
LEMMA NewAlertIs ==
  ASSUME Ale!AlertAssumption, AlertInv, NEW kind \in {"condition", "policy", "change"}, Ale!NewAlert(kind)
  PROVE  /\ Ale!Fresh \in Ale!Alert /\ alerts' \in [Ale!Alert -> AlertRow]
         /\ alerts'[Ale!Fresh].kind = kind /\ alerts'[Ale!Fresh].status = "open"
         /\ \A a \in Ale!Alert \ {Ale!Fresh} : alerts'[a] = alerts[a]
         /\ alerts[Ale!Fresh].kind # "condition" /\ Ale!Fresh # Ale!NoAlert
         /\ Ale!Fresh # violation.alert
         /\ alerts[Ale!Fresh].kind # "none" => alerts[Ale!Fresh].status = "resolved"
         /\ Ale!Active(kind)' = Ale!Active(kind) \cup {Ale!Fresh}
         /\ \A other \in {"condition", "policy", "change"} \ {kind} : Ale!Active(other)' = Ale!Active(other)
<1> USE DEF Ale!NewAlert
<1>0. Ale!Reusable # {} /\ alerts' = [alerts EXCEPT ![Ale!Fresh] = [kind |-> kind, status |-> "open", over |-> FALSE]]
  OBVIOUS
<1>1. Ale!Fresh \in Ale!Reusable BY <1>0, FreshIsReusable
<1>2. /\ Ale!Fresh \in Ale!Alert /\ alerts[Ale!Fresh].kind # "condition"
      /\ alerts[Ale!Fresh].kind # "none" => alerts[Ale!Fresh].status = "resolved" /\ Ale!Fresh # violation.alert
  BY <1>1 DEF Ale!Reusable, Ale!Held
<1>3. Ale!Fresh # Ale!NoAlert BY <1>2 DEF Ale!NoAlert, Ale!Alert, Ale!AlertAssumption
<1>4. Ale!Fresh # violation.alert BY <1>2, <1>3 DEF AlertInv, Kinds
<1>5. [kind |-> kind, status |-> "open", over |-> FALSE] \in AlertRow BY DEF AlertRow
<1>6. alerts' \in [Ale!Alert -> AlertRow] BY <1>0, <1>5 DEF AlertInv, AlertTypes
<1>7. /\ alerts'[Ale!Fresh].kind = kind /\ alerts'[Ale!Fresh].status = "open"
      /\ \A a \in Ale!Alert \ {Ale!Fresh} : alerts'[a] = alerts[a]
  BY <1>0, <1>2 DEF AlertInv, AlertTypes
<1>8. Ale!Active(kind)' = Ale!Active(kind) \cup {Ale!Fresh} BY <1>2, <1>7 DEF Ale!Active
<1>9. \A other \in {"condition", "policy", "change"} \ {kind} : Ale!Active(other)' = Ale!Active(other)
  BY <1>2, <1>7 DEF Ale!Active
<1> QED BY <1>2, <1>3, <1>4, <1>6, <1>7, <1>8, <1>9

LEMMA Stepped ==
  ASSUME AlertInv, NEW m \in Maintenance, NEW w \in Process, maintenance' = [maintenance EXCEPT ![m] = w]
  PROVE  /\ maintenance' \in [Maintenance -> Process] /\ maintenance'[m] = w
         /\ \A n \in Maintenance \ {m} : maintenance'[n] = maintenance[n]
BY DEF AlertInv, AlertTypes

LEMMA IdleIs ==
  ASSUME Ale!AlertAssumption, NEW phase \in Phases
  PROVE  LET w == [Ale!Idle EXCEPT !.phase = phase] IN
           w \in Process /\ w.phase = phase /\ w.old = Ale!NoAlert
<1>1. 0 \in Ale!Snapshot BY DEF Ale!Snapshot, Ale!AlertAssumption
<1>2. Ale!Idle \in Process /\ Ale!Idle.old = Ale!NoAlert BY <1>1 DEF Ale!Idle, Process, Phases, Ale!NoAlert
<1> QED BY <1>2 DEF Process

\* The counting of audits, for the ways a step can change it.
LEMMA AuditorsAreFew ==
  ASSUME Ale!AlertAssumption, NEW s, NEW t
  PROVE  /\ IsFiniteSet(Auditors(s)) /\ Cardinality(Auditors(s)) \in Nat /\ Cardinality(Maintenance) \in Nat
         /\ Cardinality(Auditors(s)) <= Cardinality(Maintenance)
<1>1. IsFiniteSet(Maintenance) BY AleSets DEF Ale!AlertAssumption
<1>2. Auditors(s) \subseteq Maintenance BY DEF Auditors
<1> QED BY <1>1, <1>2, FS_Subset, FS_CardinalityType

LEMMA CountedStays ==
  ASSUME Ale!AlertAssumption, AlertInv, audits' = audits, \A s \in Ale!Snapshot : Auditors(s)' \subseteq Auditors(s)
  PROVE  Counted'
<1>1. ASSUME NEW s \in Ale!Snapshot PROVE audits'[s] + Cardinality(Auditors(s)') <= Cardinality(Maintenance)
  <2>1. IsFiniteSet(Auditors(s)) /\ Cardinality(Auditors(s)) \in Nat /\ Cardinality(Maintenance) \in Nat
    BY AuditorsAreFew
  <2>2. Cardinality(Auditors(s)') <= Cardinality(Auditors(s)) /\ Cardinality(Auditors(s)') \in Nat
    BY <2>1, FS_Subset, FS_CardinalityType
  <2>3. audits[s] \in Nat /\ audits[s] + Cardinality(Auditors(s)) <= Cardinality(Maintenance)
    BY DEF AlertInv, AlertTypes, Counted
  <2> QED BY <2>1, <2>2, <2>3
<1> QED BY <1>1 DEF Counted

\* Who works while a run is undisturbed is that run.
LEMMA WorkerIsCalm ==
  ASSUME Ale!AlertAssumption, AlertInv, NEW m \in Maintenance, Ale!Working(m)
  PROVE  calm = "disturbed" \/ (calm = m /\ CalmAt(m))
BY DEF Ale!AlertAssumption, AlertInv, AlertTypes, Settled, CalmAt

LEMMA DisturbedIsCalm == ASSUME Ale!AlertAssumption, calm' = "disturbed"
  PROVE  (calm' \in Maintenance => CalmAt(calm)') /\ (calm' = "settled" => Settled')
BY DEF Ale!AlertAssumption

\* What the invariant reads of an alert is its kind and its status.
LEMMA LooksTheSame ==
  ASSUME Ale!AlertAssumption, AlertInv,
         UNCHANGED <<facts, latest, audits, violation, excepted, maintenance, overlapped, calm, revived>>,
         \A a \in Ale!Alert : alerts'[a].kind = alerts[a].kind /\ alerts'[a].status = alerts[a].status
  PROVE  /\ Counted' /\ (~overlapped' => Solo')
         /\ (calm' \in Maintenance => CalmAt(calm)') /\ (calm' = "settled" => Settled')
<1>1. \A k : Ale!Active(k)' = Ale!Active(k) BY DEF Ale!Active
<1>2. \A s : Auditors(s)' = Auditors(s) BY DEF Auditors
<1>3. Ale!Evaluated' = Ale!Evaluated BY <1>1 DEF Ale!Evaluated
<1>4. \A m \in Maintenance : /\ Ale!Working(m)' = Ale!Working(m) /\ Ale!Desired(m)' = Ale!Desired(m) /\ Evaluates(m)' = Evaluates(m)
                             /\ Expecting(m)' = Expecting(m)
  BY <1>1 DEF Ale!Working, Ale!Desired, Evaluates, Expecting
<1>5. Ale!Appeared(latest)' = Ale!Appeared(latest) BY DEF Ale!Appeared
<1>6. Counted' BY <1>2, CountedStays
<1>7. ~overlapped' => Solo'
  <2>1. OneWorks' = OneWorks BY <1>4 DEF OneWorks
  <2>2. OneCondition' = OneCondition BY <1>4 DEF OneCondition
  <2>3. OneAudit' = OneAudit BY DEF OneAudit
  <2>4. OneJudge' = OneJudge BY DEF OneJudge
  <2>5. OneActive' = OneActive BY <1>1 DEF OneActive
  <2> QED BY <2>1, <2>2, <2>3, <2>4, <2>5 DEF AlertInv, Solo
<1>8. ASSUME calm \in Maintenance PROVE CalmAt(calm)'
  <2>1. CalmAt(calm) BY <1>8 DEF AlertInv
  <2>2. maintenance[calm].old \in Ale!Alert \cup {Ale!NoAlert} BY <1>8 DEF AlertInv, AlertTypes, Process
  <2> QED BY <1>1, <1>3, <1>4, <1>5, <1>8, <2>1, <2>2 DEF CalmAt
<1>9. ASSUME calm = "settled" PROVE Settled'
  <2>1. Settled BY <1>9 DEF AlertInv
  <2> QED BY <1>1, <1>4, <1>5, <1>9, <2>1 DEF Settled, Ale!PassIsTrue
<1> QED BY <1>6, <1>7, <1>8, <1>9

LEMMA LapseIsSound == ASSUME Ale!AlertAssumption, AlertInv, NEW a \in Ale!Alert, Ale!Lapse(a) PROVE AlertInv'
<1> USE DEF Ale!Lapse
<1>1. \A b \in Ale!Alert : alerts'[b].kind = alerts[b].kind /\ alerts'[b].status = alerts[b].status
  BY DEF AlertInv, AlertTypes, AlertRow
<1>2. alerts' \in [Ale!Alert -> AlertRow] BY DEF AlertInv, AlertTypes, AlertRow
<1>3. AlertTypes' BY <1>2 DEF AlertInv, AlertTypes
<1>4. Kinds'
  <2>1. violation.alert \in Ale!Alert \cup {Ale!NoAlert} /\ \A m \in Maintenance : maintenance[m].old \in Ale!Alert \cup {Ale!NoAlert}
    BY DEF AlertInv, AlertTypes, Process
  <2> QED BY <1>1, <2>1 DEF AlertInv, Kinds
<1> QED BY <1>1, <1>3, <1>4, LooksTheSame DEF AlertInv

LEMMA ConsoleReadsIsSound ==
  ASSUME Ale!AlertAssumption, AlertInv, NEW a \in Ale!Alert, NEW wants \in {"acknowledged", "resolved"}, Ale!ConsoleReads(a, wants)
  PROVE  AlertInv'
<1> USE DEF Ale!ConsoleReads
<1>1. console' = [alert |-> a, wants |-> wants] OBVIOUS
<1>2. AlertTypes' BY <1>1 DEF AlertInv, AlertTypes
<1>3. a # Ale!NoAlert BY DEF Ale!Alert, Ale!NoAlert, Ale!AlertAssumption
<1>4. Kinds' BY <1>1, <1>3 DEF AlertInv, Kinds
<1> QED BY <1>2, <1>4, LooksTheSame DEF AlertInv

LEMMA GrowsOldIsSound ==
  ASSUME Ale!AlertAssumption, AlertInv, NEW m \in Maintenance, Ale!GrowsOld(m) PROVE AlertInv'
<1> USE DEF Ale!GrowsOld
<1>1. AlertTypes' BY DEF AlertInv, AlertTypes
<1>2. Kinds' BY DEF AlertInv, Kinds
<1> QED BY <1>1, <1>2, LooksTheSame DEF AlertInv

LEMMA AlertsStay == ASSUME Ale!AlertAssumption, AlertInv, UNCHANGED alertV PROVE AlertInv'
<1> USE DEF alertV
<1>1. AlertTypes' /\ Kinds' BY DEF AlertInv, AlertTypes, Kinds
<1> QED BY <1>1, LooksTheSame DEF AlertInv

LEMMA NewInventoryIsSound ==
  ASSUME Ale!AlertAssumption, AlertInv, NEW f \in SUBSET Ale!Fact, Ale!NewInventory(f) PROVE AlertInv'
<1> USE DEF Ale!NewInventory, Ale!Disturb
<1>1. latest' \in Ale!Snapshot /\ facts' \in [Ale!Snapshot -> SUBSET Ale!Fact]
  BY DEF Ale!Snapshot, AlertInv, AlertTypes, Ale!AlertAssumption
<1>2. AlertTypes' /\ Kinds' BY <1>1 DEF AlertInv, AlertTypes, Kinds
<1>3. Counted' BY CountedStays DEF Auditors
<1>4. ~overlapped' => Solo'
  <2>1. \A k : Ale!Active(k)' = Ale!Active(k) BY DEF Ale!Active
  <2> QED BY <2>1 DEF AlertInv, Solo, OneWorks, Ale!Working, OneCondition, Expecting, OneAudit, OneJudge, OneActive
<1> QED BY <1>2, <1>3, <1>4, DisturbedIsCalm DEF AlertInv

LEMMA ChangeExceptionIsSound == ASSUME Ale!AlertAssumption, AlertInv, Ale!ChangeException PROVE AlertInv'
<1> USE DEF Ale!ChangeException, Ale!Disturb
<1>2. AlertTypes' /\ Kinds' BY DEF AlertInv, AlertTypes, Kinds
<1>3. Counted' BY CountedStays DEF Auditors
<1>4. ~overlapped' => Solo'
  <2>1. \A k : Ale!Active(k)' = Ale!Active(k) BY DEF Ale!Active
  <2> QED BY <2>1 DEF AlertInv, Solo, OneWorks, Ale!Working, OneCondition, Expecting, OneAudit, OneJudge, OneActive
<1> QED BY <1>2, <1>3, <1>4, DisturbedIsCalm DEF AlertInv

LEMMA ConsoleSavesIsSound == ASSUME Ale!AlertAssumption, AlertInv, Ale!ConsoleSaves PROVE AlertInv'
<1> USE DEF Ale!ConsoleSaves, Ale!Disturb
<1>1. console.alert \in Ale!Alert /\ console.wants \in {"acknowledged", "resolved"}
  BY DEF AlertInv, AlertTypes, Kinds
<1>2. \A b \in Ale!Alert : /\ alerts'[b].kind = alerts[b].kind
                           /\ alerts'[b].status = IF b = console.alert THEN console.wants ELSE alerts[b].status
  BY <1>1 DEF AlertInv, AlertTypes, AlertRow
<1>3. alerts' \in [Ale!Alert -> AlertRow] BY <1>1 DEF AlertInv, AlertTypes, AlertRow
<1>4. AlertTypes' BY <1>3 DEF AlertInv, AlertTypes, Ale!Nobody
<1>5. Kinds'
  <2>1. violation.alert \in Ale!Alert \cup {Ale!NoAlert} /\ \A m \in Maintenance : maintenance[m].old \in Ale!Alert \cup {Ale!NoAlert}
    BY DEF AlertInv, AlertTypes, Process
  <2> QED BY <1>2, <2>1 DEF AlertInv, Kinds
<1>6. Counted' BY CountedStays DEF Auditors
<1>7. ASSUME ~overlapped' PROVE Solo'
  <2>0. Solo BY <1>7 DEF AlertInv
  <2>1. OneWorks' BY <2>0 DEF Solo, OneWorks, Ale!Working
  <2>2. OneCondition' BY <2>0, <1>2 DEF Solo, OneCondition, Expecting
  <2>3. OneAudit' /\ OneJudge' BY <2>0 DEF Solo, OneAudit, OneJudge
  <2>4. ASSUME ~revived' PROVE OneActive'
    <3>1. OneActive BY <2>0, <2>4 DEF Solo, AlertInv, AlertTypes
    <3>2. ~(console.wants = "acknowledged" /\ alerts[console.alert].status = "resolved") BY <2>4
    <3>3. \A k : Ale!Active(k)' \subseteq Ale!Active(k) BY <1>1, <1>2, <3>2 DEF Ale!Active
    <3> QED BY <3>1, <3>3 DEF OneActive
  <2> QED BY <2>1, <2>2, <2>3, <2>4 DEF Solo
<1> QED BY <1>4, <1>5, <1>6, <1>7, DisturbedIsCalm DEF AlertInv

\* One process goes from rest to rest.
LEMMA CheckRunningIsSound ==
  ASSUME Ale!AlertAssumption, AlertInv, NEW m \in Maintenance, Ale!CheckRunning(m) PROVE AlertInv'
<1> USE DEF Ale!CheckRunning, Ale!To
<1> DEFINE w == [Ale!Idle EXCEPT !.phase = "checked"]
<1>1. w \in Process /\ w.phase = "checked" /\ w.old = Ale!NoAlert BY IdleIs DEF Phases
<1>2. maintenance' = [maintenance EXCEPT ![m] = w] OBVIOUS
<1> HIDE DEF w
<1>3. /\ maintenance' \in [Maintenance -> Process] /\ maintenance'[m] = w
      /\ \A n \in Maintenance \ {m} : maintenance'[n] = maintenance[n]
  BY <1>1, <1>2, Stepped
<1>4. maintenance[m].phase = "idle" BY DEF Ale!Idle
<1>5. AlertTypes' /\ Kinds' BY <1>1, <1>3 DEF AlertInv, AlertTypes, Kinds
<1>6. \A n \in Maintenance : Ale!Working(n)' = Ale!Working(n) BY <1>1, <1>3, <1>4 DEF Ale!Working
<1>7. Counted'
  <2>1. \A s : Auditors(s)' \subseteq Auditors(s) BY <1>1, <1>3 DEF Auditors
  <2> QED BY <2>1, CountedStays
<1>8. \A k : Ale!Active(k)' = Ale!Active(k) BY DEF Ale!Active
<1>9. ~overlapped' => Solo'
  <2>1. OneWorks' = OneWorks BY <1>6 DEF OneWorks
  <2>2. OneCondition => OneCondition' BY <1>1, <1>3 DEF OneCondition, Expecting
  <2>3. OneAudit => OneAudit' BY <1>1, <1>3 DEF OneAudit
  <2>4. OneJudge => OneJudge' BY <1>1, <1>3 DEF OneJudge
  <2>5. OneActive' = OneActive BY <1>8 DEF OneActive
  <2> QED BY <2>1, <2>2, <2>3, <2>4, <2>5 DEF AlertInv, Solo
<1>10. ASSUME calm \in Maintenance PROVE CalmAt(calm)'
  <2>1. CalmAt(calm) BY <1>10 DEF AlertInv
  <2>2. calm # m BY <2>1, <1>4 DEF CalmAt, Ale!Working
  <2>3. maintenance'[calm] = maintenance[calm] /\ Ale!Desired(calm)' = Ale!Desired(calm) BY <1>3, <1>10, <2>2 DEF Ale!Desired
  <2>4. Evaluates(calm)' = Evaluates(calm) /\ Ale!Evaluated' = Ale!Evaluated /\ Ale!Appeared(latest)' = Ale!Appeared(latest)
    BY <1>8 DEF Evaluates, Ale!Evaluated, Ale!Appeared
  <2> QED BY <1>6, <1>8, <1>10, <2>1, <2>3, <2>4 DEF CalmAt
<1>11. ASSUME calm = "settled" PROVE Settled'
  <2>1. Settled BY <1>11 DEF AlertInv
  <2> QED BY <1>6, <1>8, <2>1 DEF Settled, Ale!PassIsTrue, Ale!Appeared
<1> QED BY <1>5, <1>7, <1>9, <1>10, <1>11 DEF AlertInv

---------------------------------------------------------------------------
\* The steps of a run.

LEMMA StartRunIsSound ==
  ASSUME Ale!AlertAssumption, AlertInv, NEW m \in Maintenance, Ale!StartRun(m) PROVE AlertInv'
<1> USE DEF Ale!StartRun, Ale!To
<1> DEFINE w == [Ale!Idle EXCEPT !.phase = "evaluate"]
           alone == \A n \in Maintenance : ~Ale!Working(n)
<1>1. w \in Process /\ w.phase = "evaluate" /\ w.old = Ale!NoAlert BY IdleIs DEF Phases
<1>2. maintenance' = [maintenance EXCEPT ![m] = w] OBVIOUS
<1>0. /\ calm' = IF alone THEN m ELSE "disturbed"
      /\ overlapped' = (overlapped \/ ~alone)
      /\ \E given \in Maintenance :
           runRow' = [n \in Maintenance |->
             IF n = m THEN "running" ELSE IF n = given THEN "ended" ELSE runRow[n]]
  OBVIOUS
<1> HIDE DEF w
<1>3. /\ maintenance' \in [Maintenance -> Process] /\ maintenance'[m] = w
      /\ \A n \in Maintenance \ {m} : maintenance'[n] = maintenance[n]
  BY <1>1, <1>2, Stepped
<1>4. maintenance[m].phase = "checked" OBVIOUS
<1>5. AlertTypes'
  <2>1. runRow' \in [Maintenance -> {"running", "stale", "ended"}] BY <1>0 DEF AlertInv, AlertTypes
  <2> QED BY <1>0, <1>3, <2>1 DEF AlertInv, AlertTypes
<1>6. Kinds' BY <1>1, <1>3 DEF AlertInv, Kinds
<1>7. Counted'
  <2>1. \A s : Auditors(s)' \subseteq Auditors(s) BY <1>1, <1>3 DEF Auditors
  <2> QED BY <2>1, CountedStays
<1>8. \A k : Ale!Active(k)' = Ale!Active(k) BY DEF Ale!Active
<1>9. ASSUME ~overlapped' PROVE Solo'
  <2>0. Solo /\ alone BY <1>0, <1>9 DEF AlertInv, AlertTypes
  <2>1. OneWorks' BY <1>3, <2>0 DEF OneWorks, Ale!Working
  <2>2. OneCondition' BY <1>1, <1>3, <2>0 DEF Solo, OneCondition, Expecting
  <2>3. OneAudit' BY <1>1, <1>3, <2>0 DEF Solo, OneAudit
  <2>4. OneJudge' BY <1>1, <1>3, <2>0 DEF Solo, OneJudge
  <2>5. OneActive' = OneActive BY <1>8 DEF OneActive
  <2> QED BY <2>0, <2>1, <2>2, <2>3, <2>4, <2>5 DEF Solo
<1>10. CASE alone
  <2>1. calm' = m /\ calm' # "settled" BY <1>0, <1>10 DEF Ale!AlertAssumption
  <2>2. CalmAt(m)' BY <1>1, <1>3, <1>10 DEF CalmAt, Ale!Working
  <2> QED BY <1>5, <1>6, <1>7, <1>9, <2>1, <2>2 DEF AlertInv
<1>11. CASE ~alone
  <2>1. calm' = "disturbed" BY <1>0, <1>11
  <2> QED BY <1>5, <1>6, <1>7, <1>9, <2>1, DisturbedIsCalm DEF AlertInv
<1> QED BY <1>10, <1>11

\* A run that is stopped disturbs.
LEMMA StopIsSound ==
  ASSUME Ale!AlertAssumption, AlertInv, NEW m \in Maintenance, Ale!Die(m) \/ Ale!TaskFails(m) PROVE AlertInv'
<1>1. PICK w \in Process : /\ maintenance' = [maintenance EXCEPT ![m] = w] /\ w.old = Ale!NoAlert
                           /\ w.phase \in {"idle", "detect", "expire"}
  <2>1. Ale!Idle \in Process /\ Ale!Idle.phase = "idle" /\ Ale!Idle.old = Ale!NoAlert
    BY DEF Ale!Idle, Process, Phases, Ale!Snapshot, Ale!NoAlert, Ale!AlertAssumption
  <2>2. CASE Ale!Die(m) BY <2>1, <2>2 DEF Ale!Die
  <2>3. CASE Ale!TaskFails(m)
    <3>1. PICK phase \in {"idle", "detect", "expire"} : Ale!To(m, phase) BY <2>3 DEF Ale!TaskFails
    <3>2. /\ [Ale!Idle EXCEPT !.phase = phase] \in Process /\ [Ale!Idle EXCEPT !.phase = phase].phase = phase
          /\ [Ale!Idle EXCEPT !.phase = phase].old = Ale!NoAlert
      BY IdleIs DEF Phases
    <3> QED BY <3>1, <3>2 DEF Ale!To
  <2> QED BY <2>2, <2>3
<1>2. /\ UNCHANGED <<facts, latest, audits, alerts, violation, excepted, console, overlapped, revived>>
      /\ calm' = "disturbed" /\ Ale!Working(m) /\ runRow' \in [Maintenance -> {"running", "stale", "ended"}]
  BY DEF Ale!Die, Ale!TaskFails, Ale!Disturb, Ale!Working, AlertInv, AlertTypes
<1>3. /\ maintenance' \in [Maintenance -> Process] /\ maintenance'[m] = w
      /\ \A n \in Maintenance \ {m} : maintenance'[n] = maintenance[n]
  BY <1>1, Stepped
<1>5. AlertTypes' BY <1>2, <1>3 DEF AlertInv, AlertTypes
<1>6. Kinds' BY <1>1, <1>2, <1>3 DEF AlertInv, Kinds
<1>7. Counted'
  <2>1. \A s : Auditors(s)' \subseteq Auditors(s) BY <1>1, <1>3 DEF Auditors
  <2> QED BY <1>2, <2>1, CountedStays
<1>8. \A k : Ale!Active(k)' = Ale!Active(k) BY <1>2 DEF Ale!Active
<1>9. ASSUME ~overlapped' PROVE Solo'
  <2>0. Solo BY <1>2, <1>9 DEF AlertInv
  <2>1. OneWorks' BY <1>1, <1>2, <1>3, <2>0 DEF Solo, OneWorks, Ale!Working
  <2>2. OneCondition' BY <1>1, <1>2, <1>3, <2>0 DEF Solo, OneCondition, Expecting
  <2>3. OneAudit' BY <1>1, <1>2, <1>3, <2>0 DEF Solo, OneAudit
  <2>4. OneJudge' BY <1>1, <1>2, <1>3, <2>0 DEF Solo, OneJudge
  <2>5. OneActive' = OneActive BY <1>2, <1>8 DEF OneActive
  <2> QED BY <1>2, <2>0, <2>1, <2>2, <2>3, <2>4, <2>5 DEF Solo
<1> QED BY <1>2, <1>5, <1>6, <1>7, <1>9, DisturbedIsCalm DEF AlertInv

LEMMA ReadForAlertsIsSound ==
  ASSUME Ale!AlertAssumption, AlertInv, NEW m \in Maintenance, Ale!ReadForAlerts(m) PROVE AlertInv'
<1> USE DEF Ale!ReadForAlerts
<1>0. PICK old \in {a \in Ale!Alert : alerts[a].kind = "condition" /\ alerts[a].status = "resolved"} \cup {Ale!NoAlert} :
       /\ old = Ale!NoAlert => \A a \in Ale!Alert : alerts[a].kind = "condition" => alerts[a].status # "resolved"
       /\ maintenance' = [maintenance EXCEPT ![m] =
            [phase |-> "save", snapshot |-> latest, rows |-> Ale!Evaluated, old |-> old,
             seen |-> Ale!Active("condition") # {}, spared |-> FALSE]]
  OBVIOUS
<1> DEFINE w == [phase |-> "save", snapshot |-> latest, rows |-> Ale!Evaluated, old |-> old,
                 seen |-> Ale!Active("condition") # {}, spared |-> FALSE]
<1>1. w \in Process
  <2>1. Ale!Evaluated \subseteq Ale!Alert BY DEF Ale!Evaluated, Ale!Active
  <2>2. latest \in Ale!Snapshot /\ old \in Ale!Alert \cup {Ale!NoAlert} /\ "save" \in Phases BY DEF AlertInv, AlertTypes, Phases
  <2> QED BY <2>1, <2>2 DEF Process
<1>2. /\ maintenance' = [maintenance EXCEPT ![m] = w] /\ w.phase = "save" /\ w.snapshot = latest /\ w.rows = Ale!Evaluated
      /\ w.old = old /\ w.seen = (Ale!Active("condition") # {})
  BY <1>0
<1> HIDE DEF w
<1>3. /\ maintenance' \in [Maintenance -> Process] /\ maintenance'[m] = w
      /\ \A n \in Maintenance \ {m} : maintenance'[n] = maintenance[n]
  BY <1>1, <1>2, Stepped
<1>4. Ale!Working(m) BY DEF Ale!Working
<1>5. AlertTypes' BY <1>3 DEF AlertInv, AlertTypes
<1>6. Kinds'
  <2>1. old # Ale!NoAlert => alerts[old].kind = "condition" OBVIOUS
  <2> QED BY <1>2, <1>3, <2>1 DEF AlertInv, Kinds
<1>7. Counted'
  <2>1. \A s : Auditors(s)' \subseteq Auditors(s) BY <1>2, <1>3 DEF Auditors
  <2> QED BY <2>1, CountedStays
<1>8. \A k : Ale!Active(k)' = Ale!Active(k) BY DEF Ale!Active
<1>9. ASSUME ~overlapped' PROVE Solo'
  <2>0. Solo BY <1>9 DEF AlertInv
  <2>1. OneWorks' BY <1>3, <1>4, <2>0 DEF Solo, OneWorks, Ale!Working
  <2>2. OneCondition'
    <3>1. ~w.seen /\ w.old = Ale!NoAlert => \A a \in Ale!Alert : alerts[a].kind # "condition"
      BY <1>0, <1>2 DEF Ale!Active
    <3> QED BY <1>3, <2>0, <3>1 DEF Solo, OneCondition, Expecting
  <2>3. OneAudit' BY <1>2, <1>3, <2>0 DEF Solo, OneAudit
  <2>4. OneJudge' BY <1>2, <1>3, <2>0 DEF Solo, OneJudge
  <2>5. OneActive' = OneActive BY <1>8 DEF OneActive
  <2> QED BY <2>0, <2>1, <2>2, <2>3, <2>4, <2>5 DEF Solo
<1>10. CASE calm = m /\ CalmAt(m)
  <2>1. CalmAt(m)'
    <3>1. Ale!Working(m)' /\ \A n \in Maintenance \ {m} : ~Ale!Working(n)' BY <1>2, <1>3, <1>10 DEF CalmAt, Ale!Working
    <3>2. Ale!Evaluated' = Ale!Evaluated BY <1>8 DEF Ale!Evaluated
    <3>3. w.old # Ale!NoAlert => alerts[w.old].status = "resolved" BY <1>2
    <3> QED BY <1>0, <1>2, <1>3, <1>8, <3>1, <3>2, <3>3 DEF CalmAt
  <2>2. m # "settled" BY DEF Ale!AlertAssumption
  <2> QED BY <1>5, <1>6, <1>7, <1>9, <1>10, <2>1, <2>2 DEF AlertInv
<1>11. CASE calm = "disturbed"
  BY <1>5, <1>6, <1>7, <1>9, <1>11, DisturbedIsCalm DEF AlertInv
<1> QED BY <1>4, <1>10, <1>11, WorkerIsCalm

LEMMA SaveDesiredIsSound ==
  ASSUME Ale!AlertAssumption, AlertInv, NEW m \in Maintenance, Ale!SaveDesired(m) PROVE AlertInv'
<1> USE DEF Ale!SaveDesired
<1> DEFINE w == [maintenance[m] EXCEPT !.phase = "resolve"]
           o == maintenance[m].old
<1>1. maintenance[m] \in Process BY DEF AlertInv, AlertTypes
<1>2. /\ w \in Process /\ w.phase = "resolve" /\ w.snapshot = maintenance[m].snapshot /\ w.rows = maintenance[m].rows
      /\ w.old = o
  BY <1>1 DEF Process, Phases
<1>0. maintenance' = [maintenance EXCEPT ![m] = w] OBVIOUS
<1> HIDE DEF w
<1>3. /\ maintenance' \in [Maintenance -> Process] /\ maintenance'[m] = w
      /\ \A n \in Maintenance \ {m} : maintenance'[n] = maintenance[n]
  BY <1>0, <1>2, Stepped
<1>4. Ale!Working(m) /\ maintenance[m].phase = "save" BY DEF Ale!Working
<1>12. o \in Ale!Alert \cup {Ale!NoAlert} /\ \A n \in Maintenance : maintenance[n].old \in Ale!Alert \cup {Ale!NoAlert}
  BY <1>1 DEF Process, AlertInv, AlertTypes
\* What becomes of the alerts.
<1>13. /\ alerts' \in [Ale!Alert -> AlertRow]
       /\ \A a \in Ale!Alert : alerts[a].kind = "condition" => alerts'[a].kind = "condition"
       /\ \A k \in {"policy", "change"} : Ale!Active(k)' = Ale!Active(k)
       /\ violation.alert # Ale!NoAlert => alerts'[violation.alert] = alerts[violation.alert]
       /\ \/ (~Ale!Desired(m) \/ maintenance[m].seen) /\ alerts' = alerts
          \/ /\ Ale!Desired(m) /\ Ale!Active("condition")' # {}
             /\ \/ \A a \in Ale!Alert : alerts'[a].kind = alerts[a].kind
                \/ /\ Expecting(m)
                   /\ \E c \in Ale!Alert : \A a \in Ale!Alert \ {c} : alerts'[a].kind = alerts[a].kind
  <2>1. CASE (~Ale!Desired(m) \/ maintenance[m].seen) /\ alerts' = alerts
    BY <2>1 DEF Ale!Active, AlertInv, AlertTypes
  <2>2. CASE Ale!Desired(m) /\ ~maintenance[m].seen /\ o # Ale!NoAlert /\ alerts' = [alerts EXCEPT ![o].status = "open"]
    <3>1. o \in Ale!Alert /\ alerts[o].kind = "condition" BY <1>12, <2>2 DEF AlertInv, Kinds
    <3>2. alerts' \in [Ale!Alert -> AlertRow] BY <2>2, <3>1 DEF AlertInv, AlertTypes, AlertRow
    <3>3. /\ \A a \in Ale!Alert : alerts'[a].kind = alerts[a].kind
          /\ \A a \in Ale!Alert \ {o} : alerts'[a] = alerts[a]
          /\ alerts'[o].status = "open"
      BY <2>2, <3>1 DEF AlertInv, AlertTypes, AlertRow
    <3>4. \A k \in {"policy", "change"} : Ale!Active(k)' = Ale!Active(k) BY <3>1, <3>3 DEF Ale!Active
    <3>5. o \in Ale!Active("condition")' BY <3>1, <3>3 DEF Ale!Active
    <3>6. violation.alert # Ale!NoAlert => alerts[violation.alert].kind = "policy" /\ violation.alert \in Ale!Alert
      BY DEF AlertInv, Kinds, AlertTypes
    <3>7. violation.alert # Ale!NoAlert => alerts'[violation.alert] = alerts[violation.alert]
      BY <3>1, <3>3, <3>6
    <3> QED BY <2>2, <3>2, <3>3, <3>4, <3>5, <3>7
  <2>3. CASE Ale!Desired(m) /\ ~maintenance[m].seen /\ o = Ale!NoAlert /\ Ale!NewAlert("condition")
    <3>1. /\ Ale!Fresh \in Ale!Alert /\ alerts' \in [Ale!Alert -> AlertRow]
          /\ \A a \in Ale!Alert \ {Ale!Fresh} : alerts'[a] = alerts[a]
          /\ alerts[Ale!Fresh].kind # "condition" /\ Ale!Fresh # violation.alert
          /\ Ale!Active("condition")' = Ale!Active("condition") \cup {Ale!Fresh}
          /\ \A other \in {"condition", "policy", "change"} \ {"condition"} : Ale!Active(other)' = Ale!Active(other)
      BY <2>3, NewAlertIs
    <3>2. violation.alert \in Ale!Alert \cup {Ale!NoAlert} BY DEF AlertInv, AlertTypes
    <3>3. Expecting(m) BY <1>4, <2>3 DEF Expecting
    <3>4. Ale!Active("condition")' # {} BY <3>1
    <3>5. \A a \in Ale!Alert \ {Ale!Fresh} : alerts'[a].kind = alerts[a].kind BY <3>1
    <3>6. \A a \in Ale!Alert : alerts[a].kind = "condition" => alerts'[a].kind = "condition" BY <3>1
    <3>7. \A k \in {"policy", "change"} : Ale!Active(k)' = Ale!Active(k) BY <3>1
    <3> QED BY <2>3, <3>1, <3>2, <3>3, <3>4, <3>5, <3>6, <3>7
  <2> QED BY <2>1, <2>2, <2>3
<1>5. AlertTypes' BY <1>3, <1>13 DEF AlertInv, AlertTypes
<1>6. Kinds'
  <2>1. \A n \in Maintenance : maintenance'[n].old = maintenance[n].old BY <1>2, <1>3
  <2>2. violation.alert # Ale!NoAlert => alerts'[violation.alert].kind = "policy" BY <1>13 DEF AlertInv, Kinds
  <2>3. \A n \in Maintenance : maintenance[n].old # Ale!NoAlert => alerts'[maintenance[n].old].kind = "condition"
    BY <1>12, <1>13 DEF AlertInv, Kinds
  <2> QED BY <2>1, <2>2, <2>3 DEF AlertInv, Kinds
<1>7. Counted'
  <2>1. \A s : Auditors(s)' \subseteq Auditors(s) BY <1>2, <1>3 DEF Auditors
  <2> QED BY <2>1, CountedStays
<1>9. ASSUME ~overlapped' PROVE Solo'
  <2>0. Solo BY <1>9 DEF AlertInv
  <2>1. OneWorks' BY <1>2, <1>3, <1>4, <2>0 DEF Solo, OneWorks, Ale!Working
  <2>2. OneCondition'
    <3>1. \A n \in Maintenance : ~Expecting(n)'
      <4>1. \A n \in Maintenance \ {m} : ~Ale!Working(n) BY <1>4, <2>0 DEF Solo, OneWorks
      <4> QED BY <1>2, <1>3, <4>1 DEF Expecting, Ale!Working
    <3>2. \A a, b \in Ale!Alert : alerts'[a].kind = "condition" /\ alerts'[b].kind = "condition" => a = b
      <4>1. CASE \A a \in Ale!Alert : alerts'[a].kind = alerts[a].kind BY <4>1, <2>0 DEF Solo, OneCondition
      <4>2. CASE Expecting(m) /\ \E c \in Ale!Alert : \A a \in Ale!Alert \ {c} : alerts'[a].kind = alerts[a].kind
        BY <4>2, <2>0 DEF Solo, OneCondition
      <4> QED BY <1>13, <4>1, <4>2
    <3> QED BY <3>1, <3>2 DEF OneCondition
  <2>3. OneAudit' BY <1>2, <1>3, <2>0 DEF Solo, OneAudit
  <2>4. OneJudge' BY <1>2, <1>3, <2>0 DEF Solo, OneJudge
  <2>5. OneActive' = OneActive BY <1>13 DEF OneActive
  <2> QED BY <2>0, <2>1, <2>2, <2>3, <2>4, <2>5 DEF Solo
<1>10. CASE calm = m /\ CalmAt(m)
  <2>1. CalmAt(m)'
    <3>1. Ale!Working(m)' /\ \A n \in Maintenance \ {m} : ~Ale!Working(n)' BY <1>2, <1>3, <1>10 DEF CalmAt, Ale!Working
    <3>2. Ale!Desired(m)' = Ale!Desired(m) BY <1>2, <1>3 DEF Ale!Desired
    <3>3. maintenance[m].snapshot = latest /\ maintenance[m].rows = Ale!Evaluated
          /\ maintenance[m].seen = (Ale!Active("condition") # {})
      BY <1>4, <1>10 DEF CalmAt
    <3>4. Ale!Active("policy")' \subseteq w.rows BY <1>2, <1>13, <3>3 DEF Ale!Evaluated
    <3>5. IF Ale!Desired(m) THEN Ale!Active("condition")' # {} ELSE Ale!Active("condition")' \subseteq w.rows
      <4>1. CASE Ale!Desired(m) /\ alerts' # alerts BY <1>13, <4>1
      <4>2. CASE alerts' = alerts
        <5>1. Ale!Active("condition")' = Ale!Active("condition") BY <4>2 DEF Ale!Active
        <5>2. Ale!Desired(m) => maintenance[m].seen \/ Ale!Active("condition")' # {} BY <1>13
        <5> QED BY <1>2, <3>3, <5>1, <5>2 DEF Ale!Evaluated
      <4> QED BY <1>13, <4>1, <4>2
    <3> QED BY <1>2, <1>3, <3>1, <3>2, <3>3, <3>4, <3>5 DEF CalmAt
  <2>2. m # "settled" BY DEF Ale!AlertAssumption
  <2> QED BY <1>5, <1>6, <1>7, <1>9, <1>10, <2>1, <2>2 DEF AlertInv
<1>11. CASE calm = "disturbed"
  BY <1>5, <1>6, <1>7, <1>9, <1>11, DisturbedIsCalm DEF AlertInv
<1> QED BY <1>4, <1>10, <1>11, WorkerIsCalm

LEMMA ResolveOneIsSound ==
  ASSUME Ale!AlertAssumption, AlertInv, NEW m \in Maintenance, NEW a \in Ale!Alert, Ale!ResolveOne(m, a) PROVE AlertInv'
<1> USE DEF Ale!ResolveOne
<1> DEFINE w == [maintenance[m] EXCEPT !.rows = @ \ {a}]
<1>1. maintenance[m] \in Process BY DEF AlertInv, AlertTypes
<1>2. /\ w \in Process /\ w.phase = maintenance[m].phase /\ w.snapshot = maintenance[m].snapshot
      /\ w.rows = maintenance[m].rows \ {a} /\ w.old = maintenance[m].old /\ w.seen = maintenance[m].seen
  BY <1>1 DEF Process
<1>0. maintenance' = [maintenance EXCEPT ![m] = w] OBVIOUS
<1> HIDE DEF w
<1>3. /\ maintenance' \in [Maintenance -> Process] /\ maintenance'[m] = w
      /\ \A n \in Maintenance \ {m} : maintenance'[n] = maintenance[n]
  BY <1>0, <1>2, Stepped
<1>4. Ale!Working(m) /\ maintenance[m].phase = "resolve" BY DEF Ale!Working
<1>12. /\ violation.alert \in Ale!Alert \cup {Ale!NoAlert}
       /\ \A n \in Maintenance : maintenance[n].old \in Ale!Alert \cup {Ale!NoAlert}
  BY DEF Process, AlertInv, AlertTypes
<1>13. /\ alerts' \in [Ale!Alert -> AlertRow]
       /\ \A b \in Ale!Alert : alerts'[b].kind = alerts[b].kind
       /\ \A b \in Ale!Alert : alerts'[b].status = IF b = a /\ Ale!Undesired(m, a) THEN "resolved" ELSE alerts[b].status
  <2>1. alerts[a] \in AlertRow BY DEF AlertInv, AlertTypes
  <2>2. Ale!Resolved(a) \in AlertRow /\ Ale!Resolved(a).kind = alerts[a].kind /\ Ale!Resolved(a).status = "resolved"
    BY <2>1 DEF Ale!Resolved, AlertRow
  <2>3. alerts' = IF Ale!Undesired(m, a) THEN [alerts EXCEPT ![a] = Ale!Resolved(a)] ELSE alerts OBVIOUS
  <2> QED BY <2>2, <2>3 DEF AlertInv, AlertTypes
<1>14. \A k : Ale!Active(k)' = IF Ale!Undesired(m, a) THEN Ale!Active(k) \ {a} ELSE Ale!Active(k) BY <1>13 DEF Ale!Active
<1>5. AlertTypes' BY <1>3, <1>13 DEF AlertInv, AlertTypes
<1>6. Kinds'
  <2>1. \A n \in Maintenance : maintenance'[n].old = maintenance[n].old BY <1>2, <1>3
  <2> QED BY <2>1, <1>12, <1>13 DEF AlertInv, Kinds
<1>7. Counted'
  <2>1. \A s : Auditors(s)' \subseteq Auditors(s) BY <1>2, <1>3 DEF Auditors
  <2> QED BY <2>1, CountedStays
<1>9. ASSUME ~overlapped' PROVE Solo'
  <2>0. Solo BY <1>9 DEF AlertInv
  <2>1. OneWorks' BY <1>2, <1>3, <1>4, <2>0 DEF Solo, OneWorks, Ale!Working
  <2>2. OneCondition' BY <1>2, <1>3, <1>4, <1>13, <2>0 DEF Solo, OneCondition, Expecting
  <2>3. OneAudit' BY <1>2, <1>3, <1>4, <2>0 DEF Solo, OneAudit
  <2>4. OneJudge' BY <1>2, <1>3, <1>4, <2>0 DEF Solo, OneJudge
  <2>5. OneActive => OneActive' BY <1>14 DEF OneActive
  <2> QED BY <2>0, <2>1, <2>2, <2>3, <2>4, <2>5 DEF Solo
<1>10. CASE calm = m /\ CalmAt(m)
  <2>1. CalmAt(m)'
    <3>1. Ale!Working(m)' /\ \A n \in Maintenance \ {m} : ~Ale!Working(n)' BY <1>2, <1>3, <1>10 DEF CalmAt, Ale!Working
    <3>2. Ale!Desired(m)' = Ale!Desired(m) BY <1>2, <1>3 DEF Ale!Desired
    <3>3. /\ maintenance[m].snapshot = latest /\ Ale!Active("policy") \subseteq maintenance[m].rows
          /\ IF Ale!Desired(m) THEN Ale!Active("condition") # {} ELSE Ale!Active("condition") \subseteq maintenance[m].rows
      BY <1>4, <1>10 DEF CalmAt
    <3>4. Ale!Active("policy")' \subseteq w.rows
      BY <1>2, <1>14, <3>3 DEF Ale!Undesired, Ale!Active
    <3>5. IF Ale!Desired(m) THEN Ale!Active("condition")' # {} ELSE Ale!Active("condition")' \subseteq w.rows
      <4>1. CASE Ale!Desired(m)
        <5>1. Ale!Undesired(m, a) => alerts[a].kind = "policy" BY <4>1 DEF Ale!Undesired
        <5>2. Ale!Active("condition")' = Ale!Active("condition") BY <5>1, <1>14 DEF Ale!Active
        <5> QED BY <4>1, <3>3, <5>2
      <4>2. CASE ~Ale!Desired(m) BY <4>2, <1>2, <1>14, <3>3 DEF Ale!Undesired
      <4> QED BY <4>1, <4>2
    <3> QED BY <1>2, <1>3, <1>4, <3>1, <3>2, <3>3, <3>4, <3>5 DEF CalmAt
  <2>2. m # "settled" BY DEF Ale!AlertAssumption
  <2> QED BY <1>5, <1>6, <1>7, <1>9, <1>10, <2>1, <2>2 DEF AlertInv
<1>11. CASE calm = "disturbed"
  BY <1>5, <1>6, <1>7, <1>9, <1>11, DisturbedIsCalm DEF AlertInv
<1> QED BY <1>4, <1>10, <1>11, WorkerIsCalm

LEMMA ReadForChangesIsSound ==
  ASSUME Ale!AlertAssumption, AlertInv, NEW m \in Maintenance, Ale!ReadForChanges(m) PROVE AlertInv'
<1> USE DEF Ale!ReadForChanges
<1> DEFINE w == [Ale!Idle EXCEPT !.phase = "commit", !.snapshot = latest, !.seen = (audits[latest] > 0)]
<1>1. /\ w \in Process /\ w.phase = "commit" /\ w.snapshot = latest /\ w.old = Ale!NoAlert
      /\ w.seen = (audits[latest] > 0)
  <2>1. Ale!Idle \in Process BY DEF Ale!Idle, Process, Phases, Ale!Snapshot, Ale!NoAlert, Ale!AlertAssumption
  <2>2. latest \in Ale!Snapshot /\ "commit" \in Phases BY DEF AlertInv, AlertTypes, Phases
  <2>3. Ale!Idle.old = Ale!NoAlert BY DEF Ale!Idle
  <2>4. ASSUME NEW b \in BOOLEAN
        PROVE  LET v == [Ale!Idle EXCEPT !.phase = "commit", !.snapshot = latest, !.seen = b] IN
                 v \in Process /\ v.phase = "commit" /\ v.snapshot = latest /\ v.old = Ale!NoAlert /\ v.seen = b
    BY <2>1, <2>2, <2>3 DEF Process
  <2>5. (audits[latest] > 0) \in BOOLEAN OBVIOUS
  <2> QED BY ONLY <2>4, <2>5
<1>14. w.seen <=> audits[latest] > 0 BY <1>1
<1>0. maintenance' = [maintenance EXCEPT ![m] = w] OBVIOUS
<1> HIDE DEF w
<1>3. /\ maintenance' \in [Maintenance -> Process] /\ maintenance'[m] = w
      /\ \A n \in Maintenance \ {m} : maintenance'[n] = maintenance[n]
  BY <1>0, <1>1, Stepped
<1>18. w.phase = "commit" /\ w.snapshot = latest BY <1>1
<1>4. Ale!Working(m) /\ maintenance[m].phase \in {"resolve", "detect"}
      /\ (maintenance[m].phase = "resolve" => maintenance[m].rows = {})
  BY DEF Ale!Working
<1>2. latest \in Ale!Snapshot /\ audits[latest] \in Nat BY DEF AlertInv, AlertTypes
<1>5. AlertTypes' BY <1>3 DEF AlertInv, AlertTypes
<1>6. Kinds' BY <1>1, <1>3 DEF AlertInv, Kinds
<1>7. Counted'
  <2>1. ASSUME NEW s \in Ale!Snapshot PROVE audits[s] + Cardinality(Auditors(s)') <= Cardinality(Maintenance)
    <3>1. CASE s = latest /\ audits[latest] = 0
      <4>1. Auditors(s)' \subseteq Maintenance /\ IsFiniteSet(Maintenance) BY AleSets DEF Auditors, Ale!AlertAssumption
      <4>2. Cardinality(Auditors(s)') <= Cardinality(Maintenance) /\ Cardinality(Auditors(s)') \in Nat
        BY <4>1, FS_Subset, FS_CardinalityType
      <4> QED BY <3>1, <4>2
    <3>2. CASE ~(s = latest /\ audits[latest] = 0)
      <4>1. Auditors(s)' \subseteq Auditors(s) BY ONLY <1>14, <1>18, <1>2, <1>3, <3>2, m \in Maintenance DEF Auditors
      <4>2. IsFiniteSet(Auditors(s)) /\ Cardinality(Auditors(s)) \in Nat /\ Cardinality(Maintenance) \in Nat
        BY AuditorsAreFew
      <4>3. Cardinality(Auditors(s)') <= Cardinality(Auditors(s)) /\ Cardinality(Auditors(s)') \in Nat
        BY <4>1, <4>2, FS_Subset, FS_CardinalityType
      <4>4. audits[s] \in Nat /\ audits[s] + Cardinality(Auditors(s)) <= Cardinality(Maintenance)
        BY DEF AlertInv, AlertTypes, Counted
      <4> QED BY <4>2, <4>3, <4>4
    <3> QED BY <3>1, <3>2
  <2> QED BY <2>1 DEF Counted
<1>8. \A k : Ale!Active(k)' = Ale!Active(k) BY DEF Ale!Active
<1>9. ASSUME ~overlapped' PROVE Solo'
  <2>0. Solo BY <1>9 DEF AlertInv
  <2>1. OneWorks' BY <1>1, <1>3, <1>4, <2>0 DEF Solo, OneWorks, Ale!Working
  <2>2. OneCondition' BY <1>1, <1>3, <2>0 DEF Solo, OneCondition, Expecting
  <2>3. OneAudit'
    <3>1. OneAudit BY <2>0 DEF Solo
    <3> QED BY ONLY <1>14, <1>18, <1>2, <1>3, <3>1, m \in Maintenance, audits' = audits DEF OneAudit
  <2>4. OneJudge' BY <1>1, <1>3, <2>0 DEF Solo, OneJudge
  <2>5. OneActive' = OneActive BY <1>8 DEF OneActive
  <2> QED BY <2>0, <2>1, <2>2, <2>3, <2>4, <2>5 DEF Solo
<1>10. CASE calm = m /\ CalmAt(m)
  <2>1. CalmAt(m)'
    <3>1. Ale!Working(m)' /\ \A n \in Maintenance \ {m} : ~Ale!Working(n)' BY <1>1, <1>3, <1>10 DEF CalmAt, Ale!Working
    <3>2. /\ maintenance[m].phase = "resolve" /\ maintenance[m].rows = {} /\ maintenance[m].snapshot = latest
          /\ Ale!Active("policy") = {} /\ IF Ale!Desired(m) THEN Ale!Active("condition") # {} ELSE Ale!Active("condition") = {}
      BY <1>4, <1>10 DEF CalmAt
    <3>3. Evaluates(m) BY <3>2 DEF Evaluates, Ale!Desired
    <3>4. Evaluates(m)' BY <3>3, <1>8 DEF Evaluates
    <3> QED BY <1>1, <1>3, <3>1, <3>4 DEF CalmAt
  <2>2. m # "settled" BY DEF Ale!AlertAssumption
  <2> QED BY <1>5, <1>6, <1>7, <1>9, <1>10, <2>1, <2>2 DEF AlertInv
<1>11. CASE calm = "disturbed"
  BY <1>5, <1>6, <1>7, <1>9, <1>11, DisturbedIsCalm DEF AlertInv
<1> QED BY <1>4, <1>10, <1>11, WorkerIsCalm

LEMMA CommitChangesIsSound ==
  ASSUME Ale!AlertAssumption, AlertInv, NEW m \in Maintenance, Ale!CommitChanges(m) PROVE AlertInv'
<1> USE DEF Ale!CommitChanges, Ale!To
<1> DEFINE w == [Ale!Idle EXCEPT !.phase = "expire"]
           s == maintenance[m].snapshot
           news == Ale!Appeared(s) /\ ~maintenance[m].seen
<1>1. w \in Process /\ w.phase = "expire" /\ w.old = Ale!NoAlert BY IdleIs DEF Phases
<1>0. maintenance' = [maintenance EXCEPT ![m] = w] OBVIOUS
<1>15. /\ audits' = IF news THEN [audits EXCEPT ![s] = @ + 1] ELSE audits
       /\ \/ news /\ Ale!Active("change") = {} /\ Ale!NewAlert("change")
          \/ alerts' = alerts
  OBVIOUS
<1> HIDE DEF w
<1>3. /\ maintenance' \in [Maintenance -> Process] /\ maintenance'[m] = w
      /\ \A n \in Maintenance \ {m} : maintenance'[n] = maintenance[n]
  BY <1>0, <1>1, Stepped
<1>4. Ale!Working(m) /\ maintenance[m].phase = "commit" BY DEF Ale!Working
<1>2. s \in Ale!Snapshot BY DEF AlertInv, AlertTypes, Process
<1> HIDE DEF s, news
<1>12. violation.alert \in Ale!Alert \cup {Ale!NoAlert} /\ \A n \in Maintenance : maintenance[n].old \in Ale!Alert \cup {Ale!NoAlert}
  BY DEF Process, AlertInv, AlertTypes
<1>13. /\ alerts' \in [Ale!Alert -> AlertRow]
       /\ \A k \in {"policy", "condition"} : Ale!Active(k)' = Ale!Active(k)
       /\ \A a \in Ale!Alert : (alerts'[a].kind = "condition") = (alerts[a].kind = "condition")
       /\ violation.alert # Ale!NoAlert => alerts'[violation.alert] = alerts[violation.alert]
       /\ (\A a, b \in Ale!Active("change") : a = b) => (\A a, b \in Ale!Active("change")' : a = b)
  <2>1. CASE alerts' = alerts BY <2>1 DEF Ale!Active, AlertInv, AlertTypes
  <2>2. CASE Ale!Active("change") = {} /\ Ale!NewAlert("change")
    <3>1. /\ Ale!Fresh \in Ale!Alert /\ alerts' \in [Ale!Alert -> AlertRow]
          /\ alerts'[Ale!Fresh].kind = "change"
          /\ \A a \in Ale!Alert \ {Ale!Fresh} : alerts'[a] = alerts[a]
          /\ alerts[Ale!Fresh].kind # "condition" /\ Ale!Fresh # violation.alert
          /\ Ale!Active("change")' = Ale!Active("change") \cup {Ale!Fresh}
          /\ \A other \in {"condition", "policy", "change"} \ {"change"} : Ale!Active(other)' = Ale!Active(other)
      BY <2>2, NewAlertIs
    <3>2. \A k \in {"policy", "condition"} : Ale!Active(k)' = Ale!Active(k) BY <3>1
    <3>3. \A a \in Ale!Alert : (alerts'[a].kind = "condition") = (alerts[a].kind = "condition") BY <3>1
    <3>4. violation.alert # Ale!NoAlert => alerts'[violation.alert] = alerts[violation.alert] BY <3>1, <1>12
    <3> QED BY <2>2, <3>1, <3>2, <3>3, <3>4
  <2> QED BY <1>15, <2>1, <2>2
<1>16. /\ audits' \in [Ale!Snapshot -> Nat]
       /\ \A t \in Ale!Snapshot : audits'[t] = IF news /\ t = s THEN audits[t] + 1 ELSE audits[t]
  BY <1>2, <1>15 DEF AlertInv, AlertTypes
<1>5. AlertTypes' BY <1>3, <1>13, <1>16 DEF AlertInv, AlertTypes
<1>6. Kinds'
  <2>1. \A n \in Maintenance : maintenance'[n].old \in {maintenance[n].old, Ale!NoAlert} BY <1>1, <1>3
  <2>2. \A n \in Maintenance : maintenance[n].old # Ale!NoAlert => alerts'[maintenance[n].old].kind = "condition"
    BY <1>12, <1>13 DEF AlertInv, Kinds, Ale!NoAlert
  <2>3. violation.alert # Ale!NoAlert => alerts'[violation.alert].kind = "policy" BY <1>13 DEF AlertInv, Kinds
  <2> QED BY <2>1, <2>2, <2>3 DEF AlertInv, Kinds
<1>7. Counted'
  <2>1. ASSUME NEW t \in Ale!Snapshot PROVE audits'[t] + Cardinality(Auditors(t)') <= Cardinality(Maintenance)
    <3>0. Auditors(t)' = Auditors(t) \ {m} BY <1>1, <1>3 DEF Auditors
    <3>1. IsFiniteSet(Auditors(t)) /\ Cardinality(Auditors(t)) \in Nat /\ Cardinality(Maintenance) \in Nat
      BY AuditorsAreFew
    <3>2. audits[t] \in Nat /\ audits[t] + Cardinality(Auditors(t)) <= Cardinality(Maintenance)
      BY DEF AlertInv, AlertTypes, Counted
    <3>3. Cardinality(Auditors(t)') = IF m \in Auditors(t) THEN Cardinality(Auditors(t)) - 1 ELSE Cardinality(Auditors(t))
      BY <3>0, <3>1, FS_RemoveElement
    <3>4. news /\ t = s => m \in Auditors(t) BY <1>4 DEF news, s, Auditors
    <3> QED BY <1>16, <3>1, <3>2, <3>3, <3>4
  <2> QED BY <2>1 DEF Counted
<1>9. ASSUME ~overlapped' PROVE Solo'
  <2>0. Solo BY <1>9 DEF AlertInv
  <2>1. OneWorks' BY <1>1, <1>3, <1>4, <2>0 DEF Solo, OneWorks, Ale!Working
  <2>2. OneCondition' BY <1>1, <1>3, <1>13, <2>0 DEF Solo, OneCondition, Expecting
  <2>3. OneAudit'
    <3>1. \A n \in Maintenance : maintenance'[n].phase # "commit"
      <4>1. \A n \in Maintenance \ {m} : ~Ale!Working(n) BY <1>4, <2>0 DEF Solo, OneWorks
      <4> QED BY <1>1, <1>3, <4>1 DEF Ale!Working
    <3>2. news => audits[s] = 0 BY <1>4, <2>0 DEF Solo, OneAudit, news, s
    <3> QED BY <1>16, <3>1, <3>2, <2>0 DEF Solo, OneAudit
  <2>4. OneJudge' BY <1>1, <1>3, <2>0 DEF Solo, OneJudge
  <2>5. OneActive => OneActive' BY <1>13 DEF OneActive
  <2> QED BY <2>0, <2>1, <2>2, <2>3, <2>4, <2>5 DEF Solo
<1>10. CASE calm = m /\ CalmAt(m)
  <2>1. CalmAt(m)'
    <3>1. Ale!Working(m)' /\ \A n \in Maintenance \ {m} : ~Ale!Working(n)' BY <1>1, <1>3, <1>10 DEF CalmAt, Ale!Working
    <3>2. s = latest /\ Evaluates(m) /\ maintenance[m].seen = (audits[latest] > 0)
      BY <1>4, <1>10 DEF CalmAt, s
    <3>3. Evaluates(m)' BY <3>2, <1>13 DEF Evaluates
    <3>4. Ale!Appeared(latest)' = Ale!Appeared(latest) BY DEF Ale!Appeared
    <3>6. maintenance[m].seen <=> audits[latest] > 0 BY <3>2
    <3>7. audits[latest] \in Nat BY <1>2, <3>2 DEF AlertInv, AlertTypes
    <3>8. news <=> Ale!Appeared(latest) /\ ~maintenance[m].seen BY <3>2 DEF news
    <3>5. Ale!Appeared(latest) => audits'[latest] > 0 BY ONLY <1>2, <1>16, <3>2, <3>6, <3>7, <3>8
    <3> QED BY <1>1, <1>3, <3>1, <3>3, <3>4, <3>5 DEF CalmAt
  <2>2. m # "settled" BY DEF Ale!AlertAssumption
  <2> QED BY <1>5, <1>6, <1>7, <1>9, <1>10, <2>1, <2>2 DEF AlertInv
<1>11. CASE calm = "disturbed"
  BY <1>5, <1>6, <1>7, <1>9, <1>11, DisturbedIsCalm DEF AlertInv
<1> QED BY <1>4, <1>10, <1>11, WorkerIsCalm

LEMMA ExpireIsSound ==
  ASSUME Ale!AlertAssumption, AlertInv, NEW m \in Maintenance, Ale!ExpireTemporary(m) PROVE AlertInv'
<1> USE DEF Ale!ExpireTemporary
<1> DEFINE w == [Ale!Idle EXCEPT !.phase = "judge", !.snapshot = latest, !.seen = violation.open, !.spared = excepted]
<1>1. /\ w \in Process /\ w.phase = "judge" /\ w.snapshot = latest /\ w.old = Ale!NoAlert
      /\ w.seen = violation.open /\ w.spared = excepted
  <2>1. Ale!Idle \in Process BY DEF Ale!Idle, Process, Phases, Ale!Snapshot, Ale!NoAlert, Ale!AlertAssumption
  <2>2. latest \in Ale!Snapshot /\ "judge" \in Phases /\ violation.open \in BOOLEAN /\ excepted \in BOOLEAN
    BY DEF AlertInv, AlertTypes, Phases
  <2>3. Ale!Idle.old = Ale!NoAlert BY DEF Ale!Idle
  <2> QED BY <2>1, <2>2, <2>3 DEF Process
<1>0. maintenance' = [maintenance EXCEPT ![m] = w] OBVIOUS
<1> HIDE DEF w
<1>3. /\ maintenance' \in [Maintenance -> Process] /\ maintenance'[m] = w
      /\ \A n \in Maintenance \ {m} : maintenance'[n] = maintenance[n]
  BY <1>0, <1>1, Stepped
<1>4. Ale!Working(m) /\ maintenance[m].phase = "expire" BY DEF Ale!Working
<1>12. violation.alert \in Ale!Alert \cup {Ale!NoAlert} /\ \A n \in Maintenance : maintenance[n].old \in Ale!Alert \cup {Ale!NoAlert}
  BY DEF Process, AlertInv, AlertTypes
<1>13. /\ alerts' \in [Ale!Alert -> AlertRow]
       /\ \A a \in Ale!Alert : alerts'[a].kind = alerts[a].kind
       /\ \A a \in Ale!Alert : a \notin Ale!Active("change") => alerts'[a] = alerts[a]
       /\ \A a \in Ale!Alert : alerts'[a].status \in {alerts[a].status, "resolved"}
  <2>1. \A a \in Ale!Alert : /\ alerts[a] \in AlertRow /\ Ale!Resolved(a) \in AlertRow
                             /\ Ale!Resolved(a).kind = alerts[a].kind /\ Ale!Resolved(a).status = "resolved"
    <3>1. \A a \in Ale!Alert : alerts[a] \in AlertRow BY DEF AlertInv, AlertTypes
    <3> QED BY <3>1 DEF Ale!Resolved, AlertRow
  <2>2. alerts' = [a \in Ale!Alert |-> IF a \in Ale!Active("change") /\ alerts[a].over THEN Ale!Resolved(a) ELSE alerts[a]]
    OBVIOUS
  <2> QED BY <2>1, <2>2
<1>14. /\ \A k \in {"policy", "condition"} : Ale!Active(k)' = Ale!Active(k)
       /\ Ale!Active("change")' \subseteq Ale!Active("change")
  BY <1>13 DEF Ale!Active
<1>5. AlertTypes' BY <1>3, <1>13 DEF AlertInv, AlertTypes
<1>6. Kinds'
  <2>1. \A n \in Maintenance : maintenance'[n].old \in {maintenance[n].old, Ale!NoAlert} BY <1>1, <1>3
  <2>2. \A n \in Maintenance : maintenance[n].old # Ale!NoAlert => alerts'[maintenance[n].old].kind = "condition"
    BY <1>12, <1>13 DEF AlertInv, Kinds, Ale!NoAlert
  <2>3. violation.alert # Ale!NoAlert => alerts'[violation.alert].kind = "policy" BY <1>12, <1>13 DEF AlertInv, Kinds
  <2> QED BY <2>1, <2>2, <2>3 DEF AlertInv, Kinds
<1>7. Counted'
  <2>1. \A s : Auditors(s)' \subseteq Auditors(s) BY <1>1, <1>3 DEF Auditors
  <2> QED BY <2>1, CountedStays
<1>9. ASSUME ~overlapped' PROVE Solo'
  <2>0. Solo BY <1>9 DEF AlertInv
  <2>1. OneWorks' BY <1>1, <1>3, <1>4, <2>0 DEF Solo, OneWorks, Ale!Working
  <2>2. OneCondition' BY <1>1, <1>3, <1>13, <2>0 DEF Solo, OneCondition, Expecting
  <2>3. OneAudit' BY <1>1, <1>3, <2>0 DEF Solo, OneAudit
  <2>4. OneJudge' BY <1>1, <1>3, <2>0 DEF Solo, OneJudge
  <2>5. OneActive => OneActive' BY <1>14 DEF OneActive
  <2> QED BY <2>0, <2>1, <2>2, <2>3, <2>4, <2>5 DEF Solo
<1>10. CASE calm = m /\ CalmAt(m)
  <2>1. CalmAt(m)'
    <3>1. Ale!Working(m)' /\ \A n \in Maintenance \ {m} : ~Ale!Working(n)' BY <1>1, <1>3, <1>10 DEF CalmAt, Ale!Working
    <3>2. Evaluates(m) /\ (Ale!Appeared(latest) => audits[latest] > 0) BY <1>4, <1>10 DEF CalmAt
    <3>3. Evaluates(m)' BY <3>2, <1>14 DEF Evaluates
    <3>4. Ale!Appeared(latest)' = Ale!Appeared(latest) BY DEF Ale!Appeared
    <3> QED BY <1>1, <1>3, <3>1, <3>2, <3>3, <3>4 DEF CalmAt
  <2>2. m # "settled" BY DEF Ale!AlertAssumption
  <2> QED BY <1>5, <1>6, <1>7, <1>9, <1>10, <2>1, <2>2 DEF AlertInv
<1>11. CASE calm = "disturbed"
  BY <1>5, <1>6, <1>7, <1>9, <1>11, DisturbedIsCalm DEF AlertInv
<1> QED BY <1>4, <1>10, <1>11, WorkerIsCalm

\* What the policies' transaction does to the violation and its alert.
PoliciesDo(m) ==
  LET seen == maintenance[m].seen
      due == "tool" \in facts[maintenance[m].snapshot] /\ ~maintenance[m].spared IN
    \/ due /\ (violation.open => seen) /\ Ale!Detect(seen)
    \/ ~due /\ seen /\ Ale!Clear
    \/ ~seen /\ (due => violation.open) /\ UNCHANGED <<alerts, violation>>

LEMMA PoliciesKeep ==
  ASSUME Ale!AlertAssumption, AlertInv, NEW m \in Maintenance, PoliciesDo(m)
  PROVE  /\ alerts' \in [Ale!Alert -> AlertRow] /\ violation' \in [open : BOOLEAN, alert : Ale!Alert \cup {Ale!NoAlert}]
         /\ \A a \in Ale!Alert : (alerts'[a].kind = "condition") = (alerts[a].kind = "condition")
         /\ \A k \in {"condition", "change"} : Ale!Active(k)' = Ale!Active(k)
         /\ violation'.alert # Ale!NoAlert => alerts'[violation'.alert].kind = "policy"
<1>0. violation \in [open : BOOLEAN, alert : Ale!Alert \cup {Ale!NoAlert}] /\ maintenance[m].seen \in BOOLEAN
  BY DEF AlertInv, AlertTypes, Process
<1>1. CASE UNCHANGED <<alerts, violation>> BY <1>1 DEF Ale!Active, AlertInv, AlertTypes, Kinds
<1>2. CASE Ale!NewAlert("policy") /\ violation' = [open |-> violation.open \/ ~maintenance[m].seen, alert |-> Ale!Fresh]
  <2>1. /\ Ale!Fresh \in Ale!Alert /\ alerts' \in [Ale!Alert -> AlertRow]
        /\ alerts'[Ale!Fresh].kind = "policy"
        /\ \A a \in Ale!Alert \ {Ale!Fresh} : alerts'[a] = alerts[a]
        /\ alerts[Ale!Fresh].kind # "condition"
        /\ \A other \in {"condition", "policy", "change"} \ {"policy"} : Ale!Active(other)' = Ale!Active(other)
    BY <1>2, NewAlertIs
  <2>2. violation'.alert = Ale!Fresh /\ violation' \in [open : BOOLEAN, alert : Ale!Alert \cup {Ale!NoAlert}] BY <1>0, <1>2, <2>1
  <2>3. \A a \in Ale!Alert : (alerts'[a].kind = "condition") = (alerts[a].kind = "condition") BY <2>1
  <2>4. \A k \in {"condition", "change"} : Ale!Active(k)' = Ale!Active(k) BY <2>1
  <2> QED BY <2>1, <2>2, <2>3, <2>4
<1>3. CASE Ale!Clear
  <2>1. violation' \in [open : BOOLEAN, alert : Ale!Alert \cup {Ale!NoAlert}] /\ violation'.alert = violation.alert
    BY <1>0, <1>3 DEF Ale!Clear
  <2>2. CASE alerts' = alerts BY <2>1, <2>2 DEF Ale!Active, AlertInv, AlertTypes, Kinds
  <2>3. CASE Ale!AlertIsActive /\ alerts' = [alerts EXCEPT ![violation.alert].status = "resolved"]
    <3>1. violation.alert \in Ale!Alert /\ alerts[violation.alert].kind = "policy"
      BY <1>0, <2>3 DEF Ale!AlertIsActive, AlertInv, Kinds
    <3>2. /\ alerts' \in [Ale!Alert -> AlertRow]
          /\ \A a \in Ale!Alert : alerts'[a].kind = alerts[a].kind
          /\ \A a \in Ale!Alert \ {violation.alert} : alerts'[a] = alerts[a]
      BY <2>3, <3>1 DEF AlertInv, AlertTypes, AlertRow
    <3>3. \A k \in {"condition", "change"} : Ale!Active(k)' = Ale!Active(k) BY <3>1, <3>2 DEF Ale!Active
    <3> QED BY <2>1, <3>1, <3>2, <3>3
  <2> QED BY <1>3, <2>2, <2>3 DEF Ale!Clear
<1> QED BY <1>1, <1>2, <1>3 DEF PoliciesDo, Ale!Detect

LEMMA PoliciesSettle ==
  ASSUME Ale!AlertAssumption, AlertInv, NEW m \in Maintenance, PoliciesDo(m), maintenance[m].seen = violation.open
  PROVE  /\ OneActive => OneActive'
         /\ Ale!Active("policy") = {} =>
              LET due == "tool" \in facts[maintenance[m].snapshot] /\ ~maintenance[m].spared IN
                /\ (violation'.open <=> due)
                /\ violation'.open => violation'.alert \in Ale!Active("policy")'
                /\ ~violation'.open => Ale!Active("policy")' = {}
<1> DEFINE due == "tool" \in facts[maintenance[m].snapshot] /\ ~maintenance[m].spared
<1>0. /\ violation \in [open : BOOLEAN, alert : Ale!Alert \cup {Ale!NoAlert}]
      /\ violation.alert # Ale!NoAlert => alerts[violation.alert].kind = "policy"
  BY DEF AlertInv, AlertTypes, Kinds
<1>1. \/ due /\ violation.open /\ Ale!AlertIsActive /\ UNCHANGED <<alerts, violation>>
      \/ /\ due /\ (violation.open => ~Ale!AlertIsActive) /\ Ale!NewAlert("policy")
         /\ violation' = [open |-> TRUE, alert |-> Ale!Fresh]
      \/ ~due /\ violation.open /\ Ale!Clear
      \/ ~violation.open /\ ~due /\ UNCHANGED <<alerts, violation>>
  BY <1>0 DEF PoliciesDo, Ale!Detect
<1>2. Ale!AlertIsActive <=> violation.alert \in Ale!Active("policy") BY <1>0 DEF Ale!AlertIsActive, Ale!Active, Ale!Alert, Ale!NoAlert
<1> HIDE DEF due
<1>3. CASE due /\ violation.open /\ Ale!AlertIsActive /\ UNCHANGED <<alerts, violation>>
  BY <1>2, <1>3 DEF OneActive, Ale!Active, due
<1>4. CASE /\ due /\ (violation.open => ~Ale!AlertIsActive) /\ Ale!NewAlert("policy")
           /\ violation' = [open |-> TRUE, alert |-> Ale!Fresh]
  <2>1. /\ Ale!Active("policy")' = Ale!Active("policy") \cup {Ale!Fresh}
        /\ \A other \in {"condition", "policy", "change"} \ {"policy"} : Ale!Active(other)' = Ale!Active(other)
    BY <1>4, NewAlertIs
  <2>2. Ale!Active("change")' = Ale!Active("change") BY <2>1
  <2>3. OneActive => Ale!Active("policy") = {} BY <1>2, <1>4 DEF OneActive
  <2>4. violation'.open = TRUE /\ violation'.alert = Ale!Fresh BY <1>4
  <2> QED BY <1>4, <2>1, <2>2, <2>3, <2>4 DEF OneActive, due
<1>5. CASE ~due /\ violation.open /\ Ale!Clear
  <2>1. violation'.open = FALSE /\ violation'.alert = violation.alert BY <1>0, <1>5 DEF Ale!Clear
  <2>2. \A a \in Ale!Alert : /\ alerts'[a].kind = alerts[a].kind
                             /\ a # violation.alert => alerts'[a] = alerts[a]
                             /\ a = violation.alert => alerts'[a].status = "resolved"
    BY <1>0, <1>5 DEF Ale!Clear, Ale!AlertIsActive, AlertInv, AlertTypes, AlertRow, Ale!Alert, Ale!NoAlert
  <2>3. Ale!Active("policy")' = Ale!Active("policy") \ {violation.alert} BY <2>2 DEF Ale!Active
  <2>4. Ale!Active("change")' \subseteq Ale!Active("change") BY <2>2 DEF Ale!Active
  <2> QED BY <1>5, <2>1, <2>3, <2>4 DEF OneActive, due
<1>6. CASE ~violation.open /\ ~due /\ UNCHANGED <<alerts, violation>>
  BY <1>6 DEF OneActive, Ale!Active, due
<1> QED BY <1>1, <1>3, <1>4, <1>5, <1>6

LEMMA CommitPoliciesIsSound ==
  ASSUME Ale!AlertAssumption, AlertInv, NEW m \in Maintenance, Ale!CommitPolicies(m) PROVE AlertInv'
<1> USE DEF Ale!CommitPolicies, Ale!EndRun, Ale!To
<1> DEFINE w == [Ale!Idle EXCEPT !.phase = "idle"]
<1>1. w \in Process /\ w.phase = "idle" /\ w.old = Ale!NoAlert BY IdleIs DEF Phases
<1>0. maintenance' = [maintenance EXCEPT ![m] = w] OBVIOUS
<1> HIDE DEF w
<1>3. /\ maintenance' \in [Maintenance -> Process] /\ maintenance'[m] = w
      /\ \A n \in Maintenance \ {m} : maintenance'[n] = maintenance[n]
  BY <1>0, <1>1, Stepped
<1>4. Ale!Working(m) /\ maintenance[m].phase = "judge" BY DEF Ale!Working
<1>12. \A n \in Maintenance : maintenance[n].old \in Ale!Alert \cup {Ale!NoAlert} BY DEF Process, AlertInv, AlertTypes
<1>2. PoliciesDo(m) BY DEF PoliciesDo
<1>13. /\ alerts' \in [Ale!Alert -> AlertRow] /\ violation' \in [open : BOOLEAN, alert : Ale!Alert \cup {Ale!NoAlert}]
       /\ \A a \in Ale!Alert : (alerts'[a].kind = "condition") = (alerts[a].kind = "condition")
       /\ \A k \in {"condition", "change"} : Ale!Active(k)' = Ale!Active(k)
       /\ violation'.alert # Ale!NoAlert => alerts'[violation'.alert].kind = "policy"
  BY <1>2, PoliciesKeep
<1>14. /\ calm' = (IF calm = m THEN "settled" ELSE calm) /\ runRow' = [runRow EXCEPT ![m] = "ended"]
       /\ UNCHANGED <<facts, latest, audits, excepted, console, overlapped, revived>>
  OBVIOUS
<1>5. AlertTypes' BY <1>3, <1>13, <1>14 DEF AlertInv, AlertTypes
<1>6. Kinds'
  <2>1. \A n \in Maintenance : maintenance'[n].old \in {maintenance[n].old, Ale!NoAlert} BY <1>1, <1>3
  <2>2. \A n \in Maintenance : maintenance[n].old # Ale!NoAlert => alerts'[maintenance[n].old].kind = "condition"
    BY <1>12, <1>13 DEF AlertInv, Kinds, Ale!NoAlert
  <2> QED BY <2>1, <2>2, <1>13, <1>14 DEF AlertInv, Kinds
<1>7. Counted'
  <2>1. \A s : Auditors(s)' \subseteq Auditors(s) BY <1>1, <1>3 DEF Auditors
  <2> QED BY <1>14, <2>1, CountedStays
<1>9. ASSUME ~overlapped' PROVE Solo'
  <2>0. Solo BY <1>9, <1>14 DEF AlertInv
  <2>6. \A n \in Maintenance \ {m} : ~Ale!Working(n) BY <1>4, <2>0 DEF Solo, OneWorks
  <2>7. \A n \in Maintenance : ~Ale!Working(n)' BY <1>1, <1>3, <2>6 DEF Ale!Working
  <2>1. OneWorks' BY <2>7 DEF OneWorks
  <2>2. OneCondition' BY <1>1, <1>3, <1>13, <2>0 DEF Solo, OneCondition, Expecting
  <2>3. OneAudit' BY <1>1, <1>3, <1>14, <2>0 DEF Solo, OneAudit
  <2>4. OneJudge' BY <2>7 DEF OneJudge, Ale!Working
  <2>5. OneActive => OneActive' BY <1>2, <1>4, <2>0, PoliciesSettle DEF Solo, OneJudge
  <2> QED BY <1>14, <2>0, <2>1, <2>2, <2>3, <2>4, <2>5 DEF Solo
<1>10. CASE calm = m /\ CalmAt(m)
  <2>1. Settled'
    <3>1. \A n \in Maintenance : ~Ale!Working(n)' BY <1>1, <1>3, <1>10 DEF CalmAt, Ale!Working
    <3>2. /\ maintenance[m].snapshot = latest /\ maintenance[m].seen = violation.open
          /\ maintenance[m].spared = excepted /\ Evaluates(m) /\ (Ale!Appeared(latest) => audits[latest] > 0)
      BY <1>4, <1>10 DEF CalmAt
    <3>3. /\ violation'.open <=> ("tool" \in facts[latest] /\ ~excepted)
          /\ violation'.open => violation'.alert \in Ale!Active("policy")'
          /\ ~violation'.open => Ale!Active("policy")' = {}
      BY <1>2, <3>2, PoliciesSettle DEF Evaluates
    <3>4. (Ale!Active("condition")' # {}) = ("disk" \in facts'[latest']) BY <3>2, <1>13, <1>14 DEF Evaluates
    <3>5. Ale!Appeared(latest)' => audits'[latest'] > 0 BY <3>2, <1>14 DEF Ale!Appeared
    <3>6. violation'.open \in BOOLEAN BY <1>13
    <3>7. violation'.open = ("tool" \in facts'[latest'] /\ ~excepted') BY <3>3, <3>6, <1>14
    <3>8. IF violation'.open THEN violation'.alert \in Ale!Active("policy")' ELSE Ale!Active("policy")' = {} BY <3>3
    <3> QED BY <3>1, <3>4, <3>5, <3>7, <3>8 DEF Settled, Ale!PassIsTrue
  <2>2. calm' = "settled" /\ "settled" \notin Maintenance BY <1>10, <1>14 DEF Ale!AlertAssumption
  <2> QED BY <1>5, <1>6, <1>7, <1>9, <2>1, <2>2 DEF AlertInv
<1>11. CASE calm = "disturbed"
  <2>1. calm' = "disturbed" BY <1>11, <1>14 DEF Ale!AlertAssumption
  <2> QED BY <1>5, <1>6, <1>7, <1>9, <2>1, DisturbedIsCalm DEF AlertInv
<1> QED BY <1>4, <1>10, <1>11, WorkerIsCalm

LEMMA AlertNextIsSound == ASSUME Ale!AlertAssumption, AlertInv, Ale!AlertsNext PROVE AlertInv'
<1>1. ASSUME NEW f \in SUBSET Ale!Fact, Ale!NewInventory(f) PROVE AlertInv' BY <1>1, NewInventoryIsSound
<1>2. CASE Ale!ChangeException \/ Ale!ConsoleSaves BY <1>2, ChangeExceptionIsSound, ConsoleSavesIsSound
<1>3. ASSUME NEW a \in Ale!Alert, Ale!Lapse(a) \/ \E wants \in {"acknowledged", "resolved"} : Ale!ConsoleReads(a, wants) PROVE AlertInv'
  BY <1>3, LapseIsSound, ConsoleReadsIsSound
<1>4. ASSUME NEW m \in Maintenance, Ale!CheckRunning(m) \/ Ale!GrowsOld(m) \/ Ale!Die(m) \/ Ale!TaskFails(m) PROVE AlertInv'
  BY <1>4, CheckRunningIsSound, GrowsOldIsSound, StopIsSound
<1>5. ASSUME NEW m \in Maintenance, Ale!RunStep(m) PROVE AlertInv'
  BY <1>5, StartRunIsSound, ReadForAlertsIsSound, SaveDesiredIsSound, ResolveOneIsSound, ReadForChangesIsSound,
     CommitChangesIsSound, ExpireIsSound, CommitPoliciesIsSound DEF Ale!RunStep
<1> QED BY <1>1, <1>2, <1>3, <1>4, <1>5 DEF Ale!AlertsNext

LEMMA AtMostOne == ASSUME NEW S, \A a, b \in S : a = b PROVE Cardinality(S) <= 1
<1>1. CASE S = {} BY <1>1, FS_EmptySet
<1>2. ASSUME NEW a \in S PROVE Cardinality(S) <= 1
  <2>1. S = {a} BY <1>2
  <2>2. Cardinality({a}) = 1 BY FS_Singleton
  <2> QED BY <2>1, <2>2
<1> QED BY <1>1, <1>2

LEMMA AlertInvIsEnough == ASSUME Ale!AlertAssumption, AlertInv PROVE Ale!AlertsTypeOK /\ Ale!AlertsAreTrue
<1>1. Ale!AlertsTypeOK
  <2>1. ASSUME NEW s \in Ale!Snapshot PROVE audits[s] \in 0 .. Cardinality(Maintenance)
    <3>1. audits[s] \in Nat /\ audits[s] + Cardinality(Auditors(s)) <= Cardinality(Maintenance)
      BY DEF AlertInv, AlertTypes, Counted
    <3>2. Cardinality(Auditors(s)) \in Nat /\ Cardinality(Maintenance) \in Nat BY AuditorsAreFew
    <3> QED BY <3>1, <3>2
  <2>2. audits \in [Ale!Snapshot -> 0 .. Cardinality(Maintenance)] BY <2>1 DEF AlertInv, AlertTypes
  <2>3. \A m \in Maintenance : maintenance[m].rows \subseteq Ale!Alert /\ maintenance[m].snapshot \in Ale!Snapshot
    BY DEF AlertInv, AlertTypes, Process
  <2> QED BY <2>2, <2>3, AleSets DEF Ale!AlertsTypeOK, AlertInv, AlertTypes, AlertRow
<1>2. Ale!OneAlertEach
  <2>1. ASSUME ~overlapped
        PROVE  /\ Cardinality(Ale!Active("condition")) <= 1
               /\ \A s \in Ale!Snapshot : audits[s] <= 1
               /\ ~revived => Cardinality(Ale!Active("change")) <= 1 /\ Cardinality(Ale!Active("policy")) <= 1
    <3>1. Solo BY <2>1 DEF AlertInv
    <3>2. \A a, b \in Ale!Active("condition") : a = b BY <3>1 DEF Solo, OneCondition, Ale!Active
    <3>3. Cardinality(Ale!Active("condition")) <= 1 BY <3>2, AtMostOne
    <3>4. ASSUME ~revived PROVE Cardinality(Ale!Active("change")) <= 1 /\ Cardinality(Ale!Active("policy")) <= 1
      <4>1. (\A a, b \in Ale!Active("change") : a = b) /\ (\A a, b \in Ale!Active("policy") : a = b)
        BY <3>1, <3>4 DEF Solo, OneActive
      <4> QED BY <4>1, AtMostOne
    <3> QED BY <3>1, <3>3, <3>4 DEF Solo, OneAudit
  <2> QED BY <2>1, AleSets DEF Ale!OneAlertEach, AlertInv, AlertTypes
<1>3. Ale!PassIsTrue BY DEF AlertInv, Settled, Ale!PassIsTrue
<1> QED BY <1>1, <1>2, <1>3 DEF Ale!AlertsAreTrue

-----------------------------------------------------------------------------
(* The review of access.                                                    *)

\* The instance has its own copies of the operators of FiniteSets.
LEMMA RevSets == \A S : Rev!Cardinality(S) = Cardinality(S) /\ Rev!IsFiniteSet(S) = IsFiniteSet(S)
BY DEF Rev!Cardinality, Cardinality, Rev!IsFiniteSet, IsFiniteSet

PrincipalRec == [group : BOOLEAN, name : {NameOf[i] : i \in Rev!Identity} \cup {"none"}, link : Rev!Identity \cup {Rev!NoLink},
                 used : BOOLEAN]
RuleRec == [level : Rev!Level, removes : BOOLEAN, source : Rev!Source \cup {"none"}]
UploadRec == [phase : {"none", "collected", "running", "imported"}, kind : {"directory", "acl"},
              ids : SUBSET Rev!Identity, world : World \cup {Rev!NoUpload.world}]
RunRec == [status : {"none", "running", "success", "partial_success", "failed"}, of : UploadRec]
GrantRec == [folder : Rev!Folder \cup {"none"}, to : Rev!Identity \cup {Rev!NoLink}, level : Rev!Level]

ReviewTypes ==
  /\ world \in World /\ known \subseteq Rev!Identity /\ members \subseteq User \X Group
  /\ acl \in [Rev!Identity -> {"absent", "open", "found", "unknown"}]
  /\ upload \in UploadRec /\ run \in RunRec
  /\ seeded \in BOOLEAN /\ current \subseteq {"directory", "acl", "identities"}
  /\ principal \in [Rev!Row -> PrincipalRec] /\ rule \in [Rev!Folder \X Rev!Row -> RuleRec] /\ granted \in GrantRec
Stored(u) ==
  IF u.kind = "directory" THEN u.ids \subseteq known /\ Rev!Memberships(u.world.members, u.ids) \subseteq members
  ELSE \A i \in u.world.acl : acl[i] # "absent"
UploadSound ==
  /\ upload.phase \in {"running", "imported"} =>
       /\ run.status = "running" /\ run.of.kind = upload.kind
       /\ run.of.ids = upload.ids /\ run.of.world = upload.world
  /\ upload.phase = "imported" => Stored(run.of)
  /\ run.status \in {"success", "partial_success"} => Stored(run.of)
CurrentSound ==
  /\ "directory" \in current => Rev!Identity \subseteq known /\ world.members \subseteq members
  /\ "acl" \in current => \A i \in world.acl : acl[i] # "absent"
  /\ "identities" \in current => {"directory", "acl"} \subseteq current /\ Rev!UnknownEntries = {}
  /\ upload.phase # "none" /\ upload.world # world => current = {}
GrantSound ==
  granted.level > 0 =>
    /\ granted.folder \in Rev!Folder /\ granted.to \in Rev!Identity
    /\ \E p \in Rev!Row : /\ principal[p].link = granted.to /\ principal[p].group = Rev!IsGroup(granted.to)
                          /\ rule[<<granted.folder, p>>].level = granted.level /\ ~rule[<<granted.folder, p>>].removes
OneLinked ==
  \A p, q \in Rev!Row : principal[p].used /\ principal[q].used /\ principal[p].link = principal[q].link
                    /\ principal[p].link # Rev!NoLink => p = q
ReviewInv == ReviewTypes /\ UploadSound /\ CurrentSound /\ GrantSound /\ OneLinked
LEMMA WorldIs ==
  ASSUME Rev!ReviewAssumption, NEW u \in UploadRec
  PROVE  u.ids \subseteq Rev!Identity /\ u.world.acl \subseteq Rev!Identity /\ u.world.members \subseteq User \X Group
BY DEF Rev!ReviewAssumption, UploadRec, Rev!NoUpload

LEMMA ReviewInitIsSound == ASSUME Rev!ReviewAssumption, Rev!ReviewInit PROVE ReviewInv
<1> USE DEF Rev!ReviewInit
<1>1. Rev!NoUpload \in UploadRec BY DEF Rev!NoUpload, UploadRec
<1>2. Rev!NoRow \in PrincipalRec /\ Rev!NoRow.link = Rev!NoLink BY DEF Rev!NoRow, PrincipalRec
<1>3. Rev!NoRule \in RuleRec BY DEF Rev!NoRule, RuleRec, Rev!Level
<1>4. Rev!NoGrant \in GrantRec /\ Rev!NoGrant.level = 0 BY DEF Rev!NoGrant, GrantRec, Rev!Level
<1>5. run \in RunRec BY <1>1 DEF RunRec
<1>6. ReviewTypes BY <1>1, <1>2, <1>3, <1>4, <1>5 DEF ReviewTypes
<1>7. UploadSound BY DEF UploadSound, Rev!NoUpload
<1>8. CurrentSound BY DEF CurrentSound, Rev!NoUpload
<1>9. GrantSound /\ OneLinked BY <1>2, <1>4 DEF GrantSound, OneLinked
<1> QED BY <1>6, <1>7, <1>8, <1>9 DEF ReviewInv

LEMMA PlanStays == ASSUME ReviewInv, UNCHANGED Rev!plan PROVE GrantSound' /\ OneLinked'
BY DEF ReviewInv, Rev!plan, GrantSound, OneLinked

LEMMA InventoryStays == ASSUME ReviewInv, UNCHANGED Rev!inventory PROVE UploadSound' /\ CurrentSound'
BY DEF ReviewInv, Rev!inventory, UploadSound, CurrentSound, Stored, Rev!UnknownEntries

---------------------------------------------------------------------------
\* The uploads.

LEMMA ChangeWorldIsSound == ASSUME ReviewInv, NEW w \in World, Rev!ChangeWorld(w) PROVE ReviewInv'
<1> USE DEF Rev!ChangeWorld
<1>1. ReviewTypes' BY DEF ReviewInv, ReviewTypes, Rev!plan
<1>2. UploadSound' BY DEF ReviewInv, UploadSound, Stored
<1>3. CurrentSound' BY DEF CurrentSound
<1> QED BY <1>1, <1>2, <1>3, PlanStays DEF ReviewInv

LEMMA CollectIsSound ==
  ASSUME ReviewInv, NEW kind \in {"directory", "acl"}, NEW ids \in SUBSET Rev!Identity, Rev!Collect(kind, ids) PROVE ReviewInv'
<1> USE DEF Rev!Collect
<1>1. /\ upload' \in UploadRec /\ upload'.phase = "collected" /\ upload'.world = world
  BY DEF UploadRec, ReviewInv, ReviewTypes
<1>2. ReviewTypes' BY <1>1 DEF ReviewInv, ReviewTypes, Rev!plan
<1>3. UploadSound' BY <1>1 DEF ReviewInv, UploadSound, Stored
<1>4. CurrentSound' BY <1>1 DEF ReviewInv, CurrentSound, Rev!UnknownEntries
<1> QED BY <1>2, <1>3, <1>4, PlanStays DEF ReviewInv

LEMMA ReceiveIsSound == ASSUME ReviewInv, Rev!ReceiveUpload PROVE ReviewInv'
<1> USE DEF Rev!ReceiveUpload
<1>0. upload \in UploadRec BY DEF ReviewInv, ReviewTypes
<1>1. /\ upload' \in UploadRec /\ upload'.phase = "running" /\ upload'.world = upload.world
      /\ upload'.ids = upload.ids /\ upload'.kind = upload.kind
  BY <1>0 DEF UploadRec
<1>2. run' \in RunRec /\ run'.status = "running" /\ run'.of = upload BY <1>0 DEF RunRec
<1>3. ReviewTypes' BY <1>1, <1>2 DEF ReviewInv, ReviewTypes, Rev!plan
<1>4. UploadSound' BY <1>1, <1>2 DEF UploadSound
<1>5. CurrentSound' BY <1>1 DEF ReviewInv, CurrentSound, Rev!UnknownEntries
<1> QED BY <1>3, <1>4, <1>5, PlanStays DEF ReviewInv

LEMMA ImportDirectoryIsSound == ASSUME Rev!ReviewAssumption, ReviewInv, Rev!ImportDirectory PROVE ReviewInv'
<1> USE DEF Rev!ImportDirectory
<1>0. upload \in UploadRec /\ world \in World BY DEF ReviewInv, ReviewTypes
<1>1. /\ upload' \in UploadRec /\ upload'.phase = "imported" /\ upload'.world = upload.world
      /\ upload'.ids = upload.ids /\ upload'.kind = "directory"
  BY <1>0 DEF UploadRec
<1>2. /\ upload.ids \subseteq Rev!Identity /\ upload.world.members \subseteq User \X Group
      /\ world.members \subseteq User \X Group
  BY <1>0, WorldIs DEF Rev!ReviewAssumption
<1>3. known' \subseteq Rev!Identity /\ members' \subseteq User \X Group
  BY <1>2 DEF ReviewInv, ReviewTypes, Rev!Memberships
<1>4. current' \subseteq {"directory", "acl", "identities"} BY DEF ReviewInv, ReviewTypes
<1>5. ReviewTypes' BY <1>1, <1>3, <1>4 DEF ReviewInv, ReviewTypes, Rev!plan
<1>6. known \subseteq known' /\ members \subseteq members' /\ acl' = acl /\ run' = run OBVIOUS
<1>7. Rev!Memberships(upload.world.members, upload.ids) \subseteq members' /\ upload.ids \subseteq known'
  BY DEF Rev!Memberships
<1>8. /\ run.status = "running" /\ run.of.kind = upload.kind /\ run.of.ids = upload.ids /\ run.of.world = upload.world
  BY DEF ReviewInv, UploadSound
<1>9. UploadSound' BY <1>1, <1>6, <1>7, <1>8 DEF UploadSound, Stored
<1>10. CurrentSound'
  <2>1. CASE upload.world = world /\ upload.ids = Rev!Identity
    <3>1. Rev!Identity \subseteq known' /\ world.members \subseteq members'
      <4>1. Rev!Memberships(world.members, known') = world.members
        BY <1>2, <2>1, <1>7 DEF Rev!Memberships, Rev!Identity
      <4> QED BY <2>1, <4>1, <1>7
    <3> QED BY <1>1, <2>1, <3>1 DEF ReviewInv, CurrentSound, Rev!UnknownEntries
  <2>2. CASE ~(upload.world = world /\ upload.ids = Rev!Identity)
    BY <1>1, <1>6, <2>2 DEF ReviewInv, CurrentSound, Rev!UnknownEntries
  <2> QED BY <2>1, <2>2
<1> QED BY <1>5, <1>9, <1>10, PlanStays DEF ReviewInv

LEMMA ImportAclIsSound == ASSUME Rev!ReviewAssumption, ReviewInv, Rev!ImportAcl PROVE ReviewInv'
<1> USE DEF Rev!ImportAcl
<1>0. upload \in UploadRec /\ world \in World BY DEF ReviewInv, ReviewTypes
<1>1. /\ upload' \in UploadRec /\ upload'.phase = "imported" /\ upload'.world = upload.world
      /\ upload'.ids = upload.ids /\ upload'.kind = "acl"
  BY <1>0 DEF UploadRec
<1>2. upload.world.acl \subseteq Rev!Identity BY <1>0, WorldIs
<1>3. /\ acl' \in [Rev!Identity -> {"absent", "open", "found", "unknown"}]
      /\ \A i \in Rev!Identity : acl'[i] = IF i \in upload.world.acl /\ acl[i] = "absent" THEN "open" ELSE acl[i]
  BY DEF ReviewInv, ReviewTypes
<1>4. current' \subseteq {"directory", "acl", "identities"} BY DEF ReviewInv, ReviewTypes
<1>5. ReviewTypes' BY <1>1, <1>3, <1>4 DEF ReviewInv, ReviewTypes, Rev!plan
<1>6. \A i \in upload.world.acl : acl'[i] # "absent" BY <1>2, <1>3
<1>7. \A i \in Rev!Identity : acl[i] # "absent" => acl'[i] # "absent" BY <1>3
<1>8. /\ run.status = "running" /\ run.of.kind = upload.kind /\ run.of.ids = upload.ids /\ run.of.world = upload.world
  BY DEF ReviewInv, UploadSound
<1>9. UploadSound' BY <1>1, <1>6, <1>8 DEF UploadSound, Stored
<1>10. CurrentSound'
  <2>1. CASE upload.world = world
    BY <1>1, <1>6, <2>1 DEF ReviewInv, CurrentSound
  <2>2. CASE upload.world # world
    <3>1. current = {} /\ current' = {} BY <2>2 DEF ReviewInv, CurrentSound
    <3> QED BY <3>1 DEF CurrentSound
  <2> QED BY <2>1, <2>2
<1> QED BY <1>5, <1>9, <1>10, PlanStays DEF ReviewInv

LEMMA FinishIsSound == ASSUME ReviewInv, Rev!FinishRun PROVE ReviewInv'
<1> USE DEF Rev!FinishRun
<1>1. upload' \in UploadRec /\ upload'.phase = "none" BY DEF Rev!NoUpload, UploadRec
<1>2. run' \in RunRec /\ run'.of = run.of BY DEF ReviewInv, ReviewTypes, RunRec
<1>3. ReviewTypes' BY <1>1, <1>2 DEF ReviewInv, ReviewTypes, Rev!plan
<1>4. UploadSound' BY <1>1, <1>2 DEF ReviewInv, UploadSound, Stored
<1>5. CurrentSound' BY <1>1 DEF ReviewInv, CurrentSound, Rev!UnknownEntries
<1> QED BY <1>3, <1>4, <1>5, PlanStays DEF ReviewInv

LEMMA ImportFailsIsSound == ASSUME ReviewInv, Rev!ImportFails PROVE ReviewInv'
<1> USE DEF Rev!ImportFails
<1>1. upload' \in UploadRec /\ upload'.phase = "none" BY DEF Rev!NoUpload, UploadRec
<1>2. run' = run \/ (run' \in RunRec /\ run'.of = run.of /\ run'.status = "failed") BY DEF ReviewInv, ReviewTypes, RunRec
<1>3. ReviewTypes' BY <1>1, <1>2 DEF ReviewInv, ReviewTypes, Rev!plan
<1>4. UploadSound' BY <1>1, <1>2 DEF ReviewInv, UploadSound, Stored
<1>5. CurrentSound' BY <1>1 DEF ReviewInv, CurrentSound, Rev!UnknownEntries
<1> QED BY <1>3, <1>4, <1>5, PlanStays DEF ReviewInv

LEMMA ResolveIsSound == ASSUME Rev!ReviewAssumption, ReviewInv, NEW force \in BOOLEAN, Rev!ResolveIdentities(force) PROVE ReviewInv'
<1> DEFINE due == {i \in Rev!Identity : acl[i] = "open" \/ (force /\ acl[i] # "absent")}
<1>1. /\ acl' = [i \in Rev!Identity |-> IF i \notin due THEN acl[i] ELSE IF i \in known THEN "found" ELSE "unknown"]
      /\ current' = IF {"directory", "acl"} \subseteq current /\ \A i \in Rev!Identity : acl[i] = "unknown" => force
                  THEN current \cup {"identities"} ELSE current
      /\ UNCHANGED <<world, known, members, upload, run, uploads, events, Rev!plan>>
  BY DEF Rev!ResolveIdentities
<1>2. \A i \in Rev!Identity : /\ acl[i] = "absent" => acl'[i] = "absent"
                              /\ acl[i] # "absent" => acl'[i] # "absent"
                              /\ i \in known /\ acl'[i] \in {"open", "unknown"} => acl[i] = "unknown" /\ ~force
  BY <1>1 DEF ReviewInv, ReviewTypes
<1>3. ReviewTypes' BY <1>1 DEF ReviewInv, ReviewTypes, Rev!plan
<1>4. \A u \in UploadRec : u.world.acl \subseteq Rev!Identity BY WorldIs
<1>5. world.acl \subseteq Rev!Identity BY DEF ReviewInv, ReviewTypes, Rev!ReviewAssumption
<1> HIDE DEF due
<1>6. UploadSound'
  <2>1. run.of \in UploadRec BY DEF ReviewInv, ReviewTypes, RunRec
  <2>2. run.of.world.acl \subseteq Rev!Identity BY <1>4, <2>1
  <2> QED BY <1>1, <1>2, <2>2 DEF ReviewInv, UploadSound, Stored
<1>7. CurrentSound'
  <2>1. "acl" \in current => \A i \in world.acl : acl'[i] # "absent" BY <1>2, <1>5 DEF ReviewInv, CurrentSound
  <2>2. ASSUME "identities" \in current' PROVE {"directory", "acl"} \subseteq current' /\ Rev!UnknownEntries' = {}
    <3>1. {"directory", "acl"} \subseteq current BY <1>1, <2>2 DEF ReviewInv, CurrentSound
    <3>2. Rev!Identity \subseteq known BY <3>1 DEF ReviewInv, CurrentSound
    <3>3. \A i \in Rev!Identity : acl[i] = "unknown" => force
      <4>1. CASE "identities" \in current BY <4>1 DEF ReviewInv, CurrentSound, Rev!UnknownEntries
      <4>2. CASE "identities" \notin current BY <1>1, <2>2, <4>2
      <4> QED BY <4>1, <4>2
    <3>4. Rev!UnknownEntries' = {} BY <1>2, <3>2, <3>3 DEF Rev!UnknownEntries
    <3> QED BY <1>1, <3>1, <3>4
  <2>3. upload.phase # "none" /\ upload.world # world => current' = {} BY <1>1 DEF ReviewInv, CurrentSound
  <2>4. ("directory" \in current' <=> "directory" \in current) /\ ("acl" \in current' <=> "acl" \in current) BY <1>1
  <2> QED BY <1>1, <2>1, <2>2, <2>3, <2>4 DEF ReviewInv, CurrentSound
<1> QED BY <1>1, <1>3, <1>6, <1>7, PlanStays DEF ReviewInv

---------------------------------------------------------------------------
\* The rules.

LEMMA FirstUnused == ASSUME Rev!ReviewAssumption, Rev!Unused # {} PROVE Rev!First(Rev!Unused) \in Rev!Unused
<1>1. IsFiniteSet(Rev!Unused)
  <2>1. IsFiniteSet(Rev!Row) BY FS_Interval DEF Rev!Row, Rev!ReviewAssumption
  <2>2. Rev!Unused \subseteq Rev!Row BY DEF Rev!Unused
  <2> QED BY <2>1, <2>2, FS_Subset
<1> DEFINE f == [p \in Rev!Unused |-> p]
<1>2. f \in [Rev!Unused -> Int] BY DEF Rev!Unused, Rev!Row
<1>3. \E p \in Rev!Unused : \A q \in Rev!Unused : f[p] <= f[q]
  <2> HIDE DEF f
  <2> QED BY <1>1, <1>2, LeastMember
<1>4. \E p \in Rev!Unused : \A q \in Rev!Unused : p <= q BY <1>3
<1> QED BY <1>4 DEF Rev!First

\* A row is free, or one that nobody else shares an identity with.
LEMMA NewIs == ASSUME Rev!ReviewAssumption, NEW i, NEW p \in Rev!New(i) PROVE p \in Rev!Row /\ ~principal[p].used
BY FirstUnused DEF Rev!New, Rev!Unused

LEMMA PutIsSound ==
  ASSUME Rev!ReviewAssumption, ReviewInv, NEW p \in Rev!Row, NEW i \in Rev!Identity, NEW link \in {i, Rev!NoLink}, NEW rules, Rev!Put(p, i, link, rules),
         link # Rev!NoLink => p \in Rev!Linked(i) \/ Rev!Linked(i) = {}
  PROVE  /\ principal' \in [Rev!Row -> PrincipalRec] /\ OneLinked' /\ rule' = rules
         /\ principal'[p].link = link /\ principal'[p].group = Rev!IsGroup(i)
<1> DEFINE x == [group |-> Rev!IsGroup(i), name |-> NameOf[i], link |-> link, used |-> TRUE]
<1>1. principal' = [principal EXCEPT ![p] = x] /\ rule' = rules BY DEF Rev!Put
<1>2. Rev!IsGroup(i) \in BOOLEAN BY DEF Rev!IsGroup
<1>3. x \in PrincipalRec BY <1>2 DEF PrincipalRec
<1>4. x.link = link /\ x.group = Rev!IsGroup(i) OBVIOUS
<1> HIDE DEF x
<1>5. /\ principal' \in [Rev!Row -> PrincipalRec] /\ principal'[p] = x
      /\ \A q \in Rev!Row \ {p} : principal'[q] = principal[q]
  BY <1>1, <1>3 DEF ReviewInv, ReviewTypes
<1>6. OneLinked' BY <1>4, <1>5 DEF ReviewInv, OneLinked, Rev!Linked
<1> QED BY <1>1, <1>4, <1>5, <1>6

\* What a command writes.
LEMMA RulesAreSound ==
  ASSUME ReviewInv, UNCHANGED Rev!inventory, principal' \in [Rev!Row -> PrincipalRec], OneLinked',
         rule' \in [Rev!Folder \X Rev!Row -> RuleRec], seeded' \in BOOLEAN, granted' \in GrantRec, GrantSound'
  PROVE  ReviewInv'
<1>1. ReviewTypes' BY DEF ReviewInv, ReviewTypes, Rev!inventory
<1> QED BY <1>1, InventoryStays DEF ReviewInv

LEMMA NoGrantIs == ASSUME granted' = Rev!NoGrant PROVE granted' \in GrantRec /\ GrantSound'
BY DEF Rev!NoGrant, GrantRec, GrantSound, Rev!Level

LEMMA ImportRuleIsSound ==
  ASSUME Rev!ReviewAssumption, ReviewInv, NEW i \in Reviewed, NEW f \in Rev!Folder, NEW removes \in BOOLEAN,
         Rev!ImportRule(i, f, 1, removes)
  PROVE  ReviewInv'
<1> USE DEF Rev!ImportRule
<1> DEFINE x == [level |-> 1, removes |-> removes, source |-> "spreadsheet"]
<1>0. i \in Rev!Identity BY DEF Rev!ReviewAssumption
<1>1. PICK p \in Rev!SpreadsheetRow(i) : Rev!Put(p, i, Rev!LinkOf(i), [rule EXCEPT ![<<f, p>>] = x]) OBVIOUS
<1>2. p \in Rev!Row BY NewIs DEF Rev!SpreadsheetRow, Rev!Linked, Rev!Named
<1>3. Rev!LinkOf(i) \in {i, Rev!NoLink} BY DEF Rev!LinkOf
<1>4. Rev!LinkOf(i) # Rev!NoLink => p \in Rev!Linked(i) \/ Rev!Linked(i) = {} BY DEF Rev!SpreadsheetRow
<1>5. x \in RuleRec BY DEF RuleRec, Rev!Level, Rev!Source
<1> HIDE DEF x
<1>6. principal' \in [Rev!Row -> PrincipalRec] /\ OneLinked' /\ rule' = [rule EXCEPT ![<<f, p>>] = x]
  BY <1>0, <1>1, <1>2, <1>3, <1>4, PutIsSound
<1>7. rule' \in [Rev!Folder \X Rev!Row -> RuleRec] BY <1>2, <1>5, <1>6 DEF ReviewInv, ReviewTypes
<1>8. granted' \in GrantRec /\ GrantSound' BY NoGrantIs
<1>9. seeded' \in BOOLEAN /\ UNCHANGED Rev!inventory BY DEF Rev!Command, ReviewInv, ReviewTypes
<1> QED BY <1>6, <1>7, <1>8, <1>9, RulesAreSound

LEMMA GrantRuleIsSound ==
  ASSUME Rev!ReviewAssumption, ReviewInv, NEW i \in Reviewed, NEW f \in Rev!Folder, Rev!GrantRule(i, f, 3)
  PROVE  ReviewInv'
<1> USE DEF Rev!GrantRule
<1> DEFINE x == [level |-> 3, removes |-> FALSE, source |-> "manual"]
<1>0. i \in Rev!Identity BY DEF Rev!ReviewAssumption
<1>1. PICK p \in Rev!IdentityRow(i) : Rev!Put(p, i, i, [rule EXCEPT ![<<f, p>>] = x]) OBVIOUS
<1>2. p \in Rev!Row /\ (p \in Rev!Linked(i) \/ Rev!Linked(i) = {}) BY NewIs DEF Rev!IdentityRow, Rev!Linked
<1>5. x \in RuleRec /\ x.level = 3 /\ x.removes = FALSE BY DEF RuleRec, Rev!Level, Rev!Source
<1> HIDE DEF x
<1>6. /\ principal' \in [Rev!Row -> PrincipalRec] /\ OneLinked' /\ rule' = [rule EXCEPT ![<<f, p>>] = x]
      /\ principal'[p].link = i /\ principal'[p].group = Rev!IsGroup(i)
  BY <1>0, <1>1, <1>2, PutIsSound
<1>7. rule' \in [Rev!Folder \X Rev!Row -> RuleRec] /\ rule'[<<f, p>>] = x BY <1>2, <1>5, <1>6 DEF ReviewInv, ReviewTypes
<1>8. granted' \in GrantRec /\ granted'.folder = f /\ granted'.to = i /\ granted'.level = 3
  BY <1>0 DEF GrantRec, Rev!Level
<1>10. GrantSound' BY <1>0, <1>2, <1>5, <1>6, <1>7, <1>8 DEF GrantSound, Rev!IsGroup
<1>9. seeded' \in BOOLEAN /\ UNCHANGED Rev!inventory BY DEF Rev!Command, ReviewInv, ReviewTypes
<1> QED BY <1>6, <1>7, <1>8, <1>9, <1>10, RulesAreSound

LEMMA SyncIsSound ==
  ASSUME Rev!ReviewAssumption, ReviewInv, NEW clear \in BOOLEAN, Rev!SyncGroups(clear) PROVE ReviewInv'
<1> USE DEF Rev!SyncGroups
<1> DEFINE x == [level |-> 2, removes |-> FALSE, source |-> "imported"]
           kept == IF clear THEN [y \in Rev!Folder \X Rev!Row |-> Rev!NoRule] ELSE rule
<1>1. \/ rule' = kept /\ UNCHANGED principal
      \/ \E i \in SyncGroup \cap known : \E p \in Rev!IdentityRow(i) : Rev!Put(p, i, i, [kept EXCEPT ![<<"folder", p>>] = x])
  OBVIOUS
<1>2. kept \in [Rev!Folder \X Rev!Row -> RuleRec] BY DEF ReviewInv, ReviewTypes, Rev!NoRule, RuleRec, Rev!Level
<1>5. x \in RuleRec BY DEF RuleRec, Rev!Level, Rev!Source
<1> HIDE DEF x, kept
<1>3. principal' \in [Rev!Row -> PrincipalRec] /\ OneLinked' /\ rule' \in [Rev!Folder \X Rev!Row -> RuleRec]
  <2>1. CASE rule' = kept /\ UNCHANGED principal BY <1>2, <2>1 DEF ReviewInv, ReviewTypes, OneLinked
  <2>2. ASSUME NEW i \in SyncGroup \cap known, NEW p \in Rev!IdentityRow(i), Rev!Put(p, i, i, [kept EXCEPT ![<<"folder", p>>] = x])
        PROVE  principal' \in [Rev!Row -> PrincipalRec] /\ OneLinked' /\ rule' \in [Rev!Folder \X Rev!Row -> RuleRec]
    <3>0. i \in Rev!Identity BY DEF Rev!ReviewAssumption, Rev!Identity
    <3>1. p \in Rev!Row /\ (p \in Rev!Linked(i) \/ Rev!Linked(i) = {}) BY NewIs DEF Rev!IdentityRow, Rev!Linked
    <3>2. /\ principal' \in [Rev!Row -> PrincipalRec] /\ OneLinked' /\ rule' = [kept EXCEPT ![<<"folder", p>>] = x]
      BY <3>0, <3>1, <2>2, PutIsSound
    <3> QED BY <1>2, <1>5, <3>1, <3>2 DEF Rev!Folder
  <2> QED BY <1>1, <2>1, <2>2
<1>8. granted' \in GrantRec /\ GrantSound' BY NoGrantIs
<1>9. seeded' \in BOOLEAN /\ UNCHANGED Rev!inventory BY DEF Rev!Command, ReviewInv, ReviewTypes
<1> QED BY <1>3, <1>8, <1>9, RulesAreSound

LEMMA SeedRulesIsSound ==
  ASSUME Rev!ReviewAssumption, ReviewInv, NEW clear \in BOOLEAN, Rev!SeedRules(clear) PROVE ReviewInv'
<1> USE DEF Rev!SeedRules
<1> DEFINE x == [level |-> 2, removes |-> FALSE, source |-> "business"]
           kept == [y \in Rev!Folder \X Rev!Row |-> IF clear /\ rule[y].source = "business" THEN Rev!NoRule ELSE rule[y]]
<1>1. \/ rule' = kept /\ UNCHANGED principal
      \/ \E i \in (SeedUser \cap known) \ Hidden : \E p \in Rev!IdentityRow(i) :
           Rev!Put(p, i, i, [kept EXCEPT ![<<"area", p>>] = x])
  OBVIOUS
<1>2. kept \in [Rev!Folder \X Rev!Row -> RuleRec] BY DEF ReviewInv, ReviewTypes, Rev!NoRule, RuleRec, Rev!Level
<1>5. x \in RuleRec BY DEF RuleRec, Rev!Level, Rev!Source
<1> HIDE DEF x, kept
<1>3. principal' \in [Rev!Row -> PrincipalRec] /\ OneLinked' /\ rule' \in [Rev!Folder \X Rev!Row -> RuleRec]
  <2>1. CASE rule' = kept /\ UNCHANGED principal BY <1>2, <2>1 DEF ReviewInv, ReviewTypes, OneLinked
  <2>2. ASSUME NEW i \in (SeedUser \cap known) \ Hidden, NEW p \in Rev!IdentityRow(i), Rev!Put(p, i, i, [kept EXCEPT ![<<"area", p>>] = x])
        PROVE  principal' \in [Rev!Row -> PrincipalRec] /\ OneLinked' /\ rule' \in [Rev!Folder \X Rev!Row -> RuleRec]
    <3>0. i \in Rev!Identity BY DEF Rev!ReviewAssumption, Rev!Identity
    <3>1. p \in Rev!Row /\ (p \in Rev!Linked(i) \/ Rev!Linked(i) = {}) BY NewIs DEF Rev!IdentityRow, Rev!Linked
    <3>2. /\ principal' \in [Rev!Row -> PrincipalRec] /\ OneLinked' /\ rule' = [kept EXCEPT ![<<"area", p>>] = x]
      BY <3>0, <3>1, <2>2, PutIsSound
    <3> QED BY <1>2, <1>5, <3>1, <3>2 DEF Rev!Folder
  <2> QED BY <1>1, <2>1, <2>2
<1>8. granted' \in GrantRec /\ GrantSound' BY NoGrantIs
<1>9. seeded' \in BOOLEAN /\ UNCHANGED Rev!inventory BY DEF Rev!Command, ReviewInv, ReviewTypes
<1> QED BY <1>3, <1>8, <1>9, RulesAreSound

LEMMA SeedFoldersIsSound ==
  ASSUME ReviewInv, NEW replace \in BOOLEAN, NEW force \in BOOLEAN, Rev!SeedFolders(replace, force) PROVE ReviewInv'
<1> USE DEF Rev!SeedFolders
<1>1. rule' \in [Rev!Folder \X Rev!Row -> RuleRec] BY DEF ReviewInv, ReviewTypes, Rev!NoRule, RuleRec, Rev!Level
<1>2. principal' \in [Rev!Row -> PrincipalRec] /\ OneLinked' BY DEF ReviewInv, ReviewTypes, OneLinked
<1>3. granted' \in GrantRec /\ GrantSound' BY NoGrantIs
<1>4. seeded' \in BOOLEAN /\ UNCHANGED Rev!inventory BY DEF Rev!Command
<1> QED BY <1>1, <1>2, <1>3, <1>4, RulesAreSound

LEMMA ReviewNextIsSound == ASSUME Rev!ReviewAssumption, ReviewInv, Rev!ReviewNext PROVE ReviewInv'
<1>1. ASSUME NEW w \in World, Rev!ChangeWorld(w) PROVE ReviewInv' BY <1>1, ChangeWorldIsSound
<1>2. ASSUME NEW ids \in {Rev!Identity, Rev!Identity \ {Rev!Last(User)}}, Rev!Collect("directory", ids) PROVE ReviewInv'
  BY <1>2, CollectIsSound
<1>3. CASE Rev!Collect("acl", Rev!Identity) BY <1>3, CollectIsSound
<1>4. CASE Rev!ReceiveUpload \/ Rev!ImportDirectory \/ Rev!ImportAcl \/ Rev!FinishRun \/ Rev!ImportFails
  BY <1>4, ReceiveIsSound, ImportDirectoryIsSound, ImportAclIsSound, FinishIsSound, ImportFailsIsSound
<1>5. ASSUME NEW force \in BOOLEAN, Rev!ResolveIdentities(force) PROVE ReviewInv' BY <1>5, ResolveIsSound
<1>6. ASSUME NEW i \in Reviewed, NEW f \in Rev!Folder, NEW removes \in BOOLEAN, Rev!ImportRule(i, f, 1, removes) PROVE ReviewInv'
  BY <1>6, ImportRuleIsSound
<1>7. ASSUME NEW i \in Reviewed, NEW f \in Rev!Folder, Rev!GrantRule(i, f, 3) PROVE ReviewInv' BY <1>7, GrantRuleIsSound
<1>8. ASSUME NEW clear \in BOOLEAN, Rev!SyncGroups(clear) \/ Rev!SeedRules(clear) PROVE ReviewInv'
  BY <1>8, SyncIsSound, SeedRulesIsSound
<1>9. ASSUME NEW replace \in BOOLEAN, NEW force \in BOOLEAN, Rev!SeedFolders(replace, force) PROVE ReviewInv'
  BY <1>9, SeedFoldersIsSound
<1> QED BY <1>1, <1>2, <1>3, <1>4, <1>5, <1>6, <1>7, <1>8, <1>9 DEF Rev!ReviewNext

LEMMA ReviewStays == ASSUME ReviewInv, UNCHANGED reviewV PROVE ReviewInv'
<1>1. ReviewTypes' BY DEF ReviewInv, ReviewTypes, reviewV
<1>2. UNCHANGED Rev!inventory /\ UNCHANGED Rev!plan BY DEF reviewV, Rev!inventory, Rev!plan
<1> QED BY <1>1, <1>2, InventoryStays, PlanStays DEF ReviewInv

---------------------------------------------------------------------------
\* What the page shows.

LEMMA StrictlyFewer ==
  ASSUME NEW S, IsFiniteSet(S), NEW r \in S, NEW P \in SUBSET S, r \notin P
  PROVE  IsFiniteSet(P) /\ Cardinality(P) \in Nat /\ Cardinality(S) \in Nat /\ Cardinality(P) < Cardinality(S)
<1>1. IsFiniteSet(P) /\ Cardinality(P) <= Cardinality(S) /\ (Cardinality(S) = Cardinality(P) => S = P) BY FS_Subset
<1>2. Cardinality(P) \in Nat /\ Cardinality(S) \in Nat BY <1>1, FS_CardinalityType
<1>3. P # S OBVIOUS
<1> QED BY <1>1, <1>2, <1>3

LEMMA StrongestIs ==
  ASSUME NEW levels \in SUBSET Rev!Level
  PROVE  Rev!Strongest(levels) \in Rev!Level /\ \A k \in levels : k <= Rev!Strongest(levels)
<1>1. CASE levels = {} BY <1>1 DEF Rev!Strongest, Rev!Level
<1>2. CASE levels # {}
  <2>1. \E l \in levels : \A k \in levels : k <= l
    <3>1. CASE 3 \in levels BY <3>1 DEF Rev!Level
    <3>2. CASE 3 \notin levels /\ 2 \in levels BY <3>2 DEF Rev!Level
    <3>3. CASE 3 \notin levels /\ 2 \notin levels /\ 1 \in levels BY <3>3 DEF Rev!Level
    <3>4. CASE 3 \notin levels /\ 2 \notin levels /\ 1 \notin levels
      <4>1. \A k \in levels : k = 0 BY <3>4 DEF Rev!Level
      <4> QED BY <1>2, <4>1
    <3> QED BY <3>1, <3>2, <3>3, <3>4
  <2>2. Rev!Strongest(levels) \in levels /\ \A k \in levels : k <= Rev!Strongest(levels) BY <1>2, <2>1 DEF Rev!Strongest
  <2> QED BY <2>2
<1> QED BY <1>1, <1>2

LEMMA LevelsAre ==
  ASSUME ReviewInv, NEW f \in Rev!Folder, NEW key PROVE Rev!FinalLevels(f, key) \in SUBSET Rev!Level
<1>1. \A x \in Rev!Above(f) \X Rev!Row : rule[x].level \in Rev!Level
  <2>1. Rev!Above(f) \subseteq Rev!Folder BY DEF Rev!Above, Rev!Folder
  <2> QED BY <2>1 DEF ReviewInv, ReviewTypes, RuleRec
<1> QED BY <1>1 DEF Rev!FinalLevels

LEMMA PageShowsThem == ASSUME Rev!ReviewAssumption, ReviewInv PROVE Rev!InventoryReachesPage
<1>1. ASSUME {"directory", "acl"} \subseteq current, ~Rev!CutShort, NEW i \in world.acl, NEW u \in User \ Hidden,
             Rev!Reaches(i, u), i \notin Rev!UnknownEntries
      PROVE  u \in Rev!ShownUsers
  <2>1. i \in Rev!Identity /\ acl[i] # "absent" /\ world.members \subseteq members /\ i \in Nat \ {0} /\ u \in Nat
    BY <1>1 DEF ReviewInv, ReviewTypes, CurrentSound, Rev!ReviewAssumption, Rev!Identity
  <2>2. i \in Rev!Found BY <1>1, <2>1 DEF ReviewInv, ReviewTypes, Rev!Found, Rev!UnknownEntries
  <2>3. IsFiniteSet(Rev!Identity) /\ User \subseteq Rev!Identity /\ Group \subseteq Rev!Identity /\ Limit \in Nat /\ User \subseteq Nat
    BY RevSets DEF Rev!ReviewAssumption, Rev!Identity
  <2>4. IsFiniteSet(User) BY <2>3, FS_Subset
  <2>5. <<u, i>> \in Rev!CurrentRows
    <3>1. CASE i = u BY <3>1, <2>2 DEF Rev!CurrentRows
    <3>2. CASE i # u
      <4>1. <<u, i>> \in members BY <1>1, <2>1, <3>2 DEF Rev!Reaches
      <4>2. i \in Group /\ u \in Rev!MembersOf(i) BY <4>1 DEF ReviewInv, ReviewTypes, Rev!MembersOf
      <4>3. IsFiniteSet(Rev!MembersOf(i))
        <5>1. Rev!MembersOf(i) \subseteq User BY DEF Rev!MembersOf
        <5> QED BY <2>4, <5>1, FS_Subset
      <4>4. ~(Cardinality(Rev!MembersOf(i)) > Limit) BY <1>1, <2>2, <4>2, RevSets DEF Rev!CutShort
      <4> DEFINE less == {w \in Rev!MembersOf(i) : w < u}
      <4>5. less \in SUBSET Rev!MembersOf(i) /\ u \notin less BY <2>1
      <4>6. Cardinality(less) \in Nat /\ Cardinality(Rev!MembersOf(i)) \in Nat /\ Cardinality(less) < Cardinality(Rev!MembersOf(i))
        <5> HIDE DEF less
        <5> QED BY <4>2, <4>3, <4>5, StrictlyFewer
      <4>7. Cardinality(less) < Limit
        <5> HIDE DEF less
        <5> QED BY <2>3, <4>4, <4>6
      <4>8. u \in Rev!FirstMembers(i) BY <4>2, <4>7, RevSets DEF Rev!FirstMembers
      <4> QED BY <2>2, <4>2, <4>8 DEF Rev!CurrentRows
    <3> QED BY <3>1, <3>2
  <2>6. IsFiniteSet(Rev!CurrentRows)
    <3>1. Rev!CurrentRows \subseteq User \X Rev!Identity
      <4>1. \A g : Rev!FirstMembers(g) \subseteq User BY DEF Rev!FirstMembers, Rev!MembersOf
      <4>2. Rev!Found \subseteq Rev!Identity BY DEF Rev!Found
      <4> QED BY <2>3, <4>1, <4>2 DEF Rev!CurrentRows
    <3>2. IsFiniteSet(User \X Rev!Identity) BY <2>3, <2>4, FS_Product
    <3> QED BY <3>1, <3>2, FS_Subset
  <2> DEFINE r == <<u, i>>
             ahead == {q \in Rev!CurrentRows : Rev!Before(q, r)}
  <2>7. ahead \in SUBSET Rev!CurrentRows /\ r \notin ahead
    <3>1. ~Rev!Before(r, r) BY <2>1 DEF Rev!Before
    <3> QED BY <3>1
  <2>8. ~(Cardinality(Rev!CurrentRows) > Limit) BY <1>1, RevSets DEF Rev!CutShort, Rev!IsLimited
  <2>9. Cardinality(ahead) < Limit
    <3> HIDE DEF ahead, r
    <3>1. r \in Rev!CurrentRows BY <2>5 DEF r
    <3>2. /\ Cardinality(ahead) \in Nat /\ Cardinality(Rev!CurrentRows) \in Nat
          /\ Cardinality(ahead) < Cardinality(Rev!CurrentRows)
      BY <2>6, <2>7, <3>1, StrictlyFewer
    <3> QED BY <2>3, <2>8, <3>2
  <2>10. r \in Rev!ShownRows BY <2>5, <2>9, RevSets DEF Rev!ShownRows
  <2>11. r[1] = u OBVIOUS
  <2> QED BY <2>10, <2>11 DEF Rev!ShownUsers
<1>2. "identities" \in current => Rev!UnknownEntries = {} BY DEF ReviewInv, CurrentSound
<1> QED BY <1>1, <1>2 DEF Rev!InventoryReachesPage

LEMMA NobodyIs == ASSUME Rev!ReviewAssumption, ReviewInv PROVE Rev!NobodyIsForgotten
<1>1. ASSUME NEW f \in Rev!Folder, NEW u \in Rev!ShownUsers,
             Rev!PersonKey(u) \notin Rev!FinalKeys(f), Rev!PersonKey(u) \notin Rev!RemovedByRule(f), Rev!NameKey(NameOf[u]) \notin Rev!FinalKeys(f),
             ~\E v \in User \ {u} : NameOf[v] = NameOf[u] /\ Rev!PersonKey(v) \in Rev!FinalKeys(f)
      PROVE  u \in Rev!LeftOut(f)
  <2>1. Rev!PersonKey(u) \notin Rev!NamesIn(f) BY <1>1 DEF Rev!NamesIn, Rev!PersonKey, Rev!NameKey
  <2>2. Rev!NameKey(NameOf[u]) \notin Rev!NamesIn(f)
    <3>1. ASSUME NEW v \in User, Rev!PersonKey(v) \in Rev!FinalKeys(f), Rev!NameKey(NameOf[u]) = Rev!NameKey(NameOf[v]) PROVE FALSE
      <4>1. NameOf[u] = NameOf[v] BY <3>1 DEF Rev!NameKey
      <4> QED BY <1>1, <3>1, <4>1
    <3> QED BY <1>1, <3>1 DEF Rev!NamesIn
  <2> QED BY <1>1, <2>1, <2>2 DEF Rev!LeftOut, Rev!Keys
<1>2. ASSUME NEW f \in Rev!Folder, NEW u \in Rev!LeftOut(f) PROVE Rev!FinalLevel(f, Rev!PersonKey(u)) = 0
  <2>1. Rev!PersonKey(u) \notin Rev!FinalKeys(f) BY DEF Rev!LeftOut, Rev!Keys, Rev!NamesIn
  <2>2. Rev!FinalLevels(f, Rev!PersonKey(u)) \in SUBSET Rev!Level BY LevelsAre
  <2>3. Rev!FinalLevel(f, Rev!PersonKey(u)) \in Rev!Level BY <2>2, StrongestIs DEF Rev!FinalLevel
  <2>4. CASE Rev!PersonKey(u) \in UNION {Rev!GrantedTo(p) : p \in Rev!Row} BY <2>1, <2>3, <2>4 DEF Rev!FinalKeys, Rev!Level
  <2>5. CASE Rev!PersonKey(u) \notin UNION {Rev!GrantedTo(p) : p \in Rev!Row}
    <3>1. Rev!FinalLevels(f, Rev!PersonKey(u)) = {} BY <2>5 DEF Rev!FinalLevels
    <3> QED BY <3>1 DEF Rev!FinalLevel, Rev!Strongest
  <2> QED BY <2>4, <2>5
<1> QED BY <1>1, <1>2 DEF Rev!NobodyIsForgotten

LEMMA GrantIs == ASSUME Rev!ReviewAssumption, ReviewInv PROVE Rev!GrantIsShown
<1> SUFFICES ASSUME NEW f \in Rev!Folder, granted.level > 0, granted.folder \in Rev!Above(f),
                    NEW u \in (IF granted.to \in User THEN {granted.to}
                               ELSE IF granted.to \in AdminGroup THEN {} ELSE Rev!MembersOf(granted.to)) \ Hidden
             PROVE  Rev!FinalLevel(f, Rev!PersonKey(u)) >= granted.level
  BY DEF Rev!GrantIsShown
<1>1. /\ granted.folder \in Rev!Folder /\ granted.to \in Rev!Identity
      /\ \E p \in Rev!Row : /\ principal[p].link = granted.to /\ principal[p].group = Rev!IsGroup(granted.to)
                            /\ rule[<<granted.folder, p>>].level = granted.level /\ ~rule[<<granted.folder, p>>].removes
  BY DEF ReviewInv, GrantSound
<1>2. PICK p \in Rev!Row : /\ principal[p].link = granted.to /\ principal[p].group = Rev!IsGroup(granted.to)
                           /\ rule[<<granted.folder, p>>].level = granted.level /\ ~rule[<<granted.folder, p>>].removes
  BY <1>1
<1>3. granted.to # Rev!NoLink BY <1>1 DEF Rev!ReviewAssumption, Rev!NoLink
<1>4. Rev!PersonKey(u) \in Rev!GrantedTo(p)
  <2>1. CASE granted.to \in User
    <3>1. ~principal[p].group BY <1>2, <2>1 DEF Rev!IsGroup, Rev!ReviewAssumption
    <3>2. u = granted.to /\ u \notin Hidden BY <2>1
    <3> QED BY <1>2, <1>3, <3>1, <3>2 DEF Rev!GrantedTo
  <2>2. CASE granted.to \notin User
    <3>1. granted.to \in Group /\ granted.to \notin AdminGroup /\ u \in Rev!MembersOf(granted.to) \ Hidden
      BY <1>1, <2>2 DEF Rev!Identity
    <3>2. principal[p].group BY <1>2, <3>1 DEF Rev!IsGroup
    <3>3. Rev!GroupsOf(p) = {granted.to} BY <1>2, <1>3, <3>1 DEF Rev!GroupsOf
    <3>4. granted.to \in Nat BY <1>1 DEF Rev!ReviewAssumption
    <3>5. Rev!First({granted.to}) = granted.to BY <3>4 DEF Rev!First
    <3> QED BY <3>1, <3>2, <3>3, <3>5 DEF Rev!GrantedTo
  <2> QED BY <2>1, <2>2
<1>5. Rev!Positive(granted.folder, p) BY <1>2 DEF Rev!Positive
<1> DEFINE y == <<granted.folder, p>>
<1>6. y \in Rev!Above(f) \X Rev!Row /\ y[1] = granted.folder /\ y[2] = p /\ rule[y].level = granted.level BY <1>2
<1>7. granted.level \in Rev!FinalLevels(f, Rev!PersonKey(u))
  <2> HIDE DEF y
  <2> QED BY <1>4, <1>5, <1>6 DEF Rev!FinalLevels
<1>8. Rev!FinalLevels(f, Rev!PersonKey(u)) \in SUBSET Rev!Level BY LevelsAre
<1>9. Rev!Strongest(Rev!FinalLevels(f, Rev!PersonKey(u))) \in Rev!Level /\ granted.level <= Rev!Strongest(Rev!FinalLevels(f, Rev!PersonKey(u)))
  BY <1>7, <1>8, StrongestIs
<1>10. granted.level \in Rev!Level BY DEF ReviewInv, ReviewTypes, GrantRec
<1> QED BY <1>9, <1>10 DEF Rev!FinalLevel, Rev!Level

LEMMA OneIs == ASSUME Rev!ReviewAssumption, ReviewInv PROVE Rev!OnePrincipalEach
<1> SUFFICES ASSUME NEW i \in Rev!Identity PROVE Cardinality(Rev!Linked(i)) <= 1 BY RevSets DEF Rev!OnePrincipalEach
<1>1. CASE Rev!Linked(i) = {} BY <1>1, FS_EmptySet
<1>2. ASSUME NEW p \in Rev!Linked(i) PROVE Cardinality(Rev!Linked(i)) <= 1
  <2>1. i # Rev!NoLink BY DEF Rev!ReviewAssumption, Rev!NoLink
  <2>2. \A q \in Rev!Linked(i) : q = p BY <2>1 DEF ReviewInv, OneLinked, Rev!Linked
  <2>3. Rev!Linked(i) = {p} BY <2>2
  <2>4. Cardinality({p}) = 1 BY FS_Singleton
  <2> QED BY <2>3, <2>4
<1> QED BY <1>1, <1>2

LEMMA ReviewInvIsEnough == ASSUME Rev!ReviewAssumption, ReviewInv PROVE Rev!ReviewTypeOK /\ Rev!AccessIsReviewed
<1>1. Rev!ReviewTypeOK
  BY DEF ReviewInv, ReviewTypes, Rev!ReviewTypeOK, UploadRec, RunRec, PrincipalRec, RuleRec, GrantRec
<1>2. Rev!RunIsTrue BY DEF ReviewInv, UploadSound, Stored, Rev!RunIsTrue
<1> QED BY <1>1, <1>2, PageShowsThem, NobodyIs, GrantIs, OneIs DEF Rev!AccessIsReviewed

-----------------------------------------------------------------------------
(* Inventory.                                                               *)

Messages == sent \cup received
MessageSound(m) ==
  /\ m.at \in 1 .. clock
  /\ m.scope = "heartbeat" => m.sections = {} /\ m.knows \subseteq HeartbeatField
  /\ m.scope # "heartbeat" => \A f \in m.knows : Inv!SectionOf(f) \in m.sections
MessagesSound ==
  /\ \A m \in Messages : MessageSound(m)
  /\ \A m, r \in Messages : m.at = r.at => m = r
  /\ sent \cap received = {}
PostingSound ==
  /\ worker \in {"posting", "answered"} => \A m \in Messages : m.at = posting => m.scope = "scheduled"
  /\ worker = "answered" => \E m \in received : m.at = posting
  /\ posting <= clock
DatedSound ==
  /\ \A s \in Inv!Section : dated[s] # 0 => \E m \in received : m.at = dated[s] /\ s \in m.sections
  /\ \A f \in Inv!Field : evidence[f] # 0 => dated[Inv!SectionOf(f)] # 0
ProvenSound == proven.observed # {} => \E m \in received : m.at = proven.at /\ m.knows = proven.observed
FullSound ==
  \/ basis.scheduled /\ dated["hardware"] # 0
  \/ \A f \in {"cpu", "memory"} :
       full.evidence[f] = evidence[f] /\ (f \notin HeartbeatField => full.column[f] = evidence[f])
InventoryInv ==
  Inv!InventoryTypeOK /\ MessagesSound /\ PostingSound /\ DatedSound /\ ProvenSound /\ FullSound /\ Inv!InventoryIsKept

\* The bounds are numbers, and heartbeats carry fields of the inventory.
LEMMA Bounds == MaxWishes \in Nat /\ MaxSetbacks \in Nat /\ HeartbeatField \subseteq Inv!Field
BY EstateAssumption DEF Inv!InventoryAssumption

LEMMA SectionsAre == \A f \in Inv!Field : Inv!SectionOf(f) \in Inv!Section
BY DEF Inv!Field, Inv!Section, Inv!SectionOf

\* Whichever snapshot the page about capacity takes, it has the evidence there is.
LEMMA PagesAre == ASSUME FullSound, DatedSound, Inv!EvidenceIsKept, Inv!DatesAreTrue PROVE Inv!PagesAgree
<1>1. ASSUME NEW f \in {"cpu", "memory"} \ HeartbeatField PROVE Inv!InCapacity(f) = Inv!OnPage(f)
  <2>1. f \in Inv!Field /\ f # "ip" /\ column[f] = evidence[f] BY <1>1 DEF Inv!Field, Inv!DatesAreTrue
  <2>2. Inv!InCapacity(f) = evidence[f]
    <3>1. CASE basis.scheduled /\ dated["hardware"] # 0
      <4>1. Inv!Chosen.evidence = evidence /\ Inv!Chosen.column = column BY <3>1 DEF Inv!Chosen
      <4>2. Inv!Chosen.evidence[f] = evidence[f] /\ Inv!Chosen.column[f] = column[f] BY <4>1
      <4> QED BY <2>1, <4>2 DEF Inv!InCapacity
    <3>2. CASE ~(basis.scheduled /\ dated["hardware"] # 0)
      <4>1. Inv!Chosen = full BY <3>2 DEF Inv!Chosen
      <4>2. full.evidence[f] = evidence[f] /\ full.column[f] = evidence[f] BY <1>1, <3>2 DEF FullSound
      <4> QED BY <4>1, <4>2 DEF Inv!InCapacity
    <3> QED BY <3>1, <3>2
  <2>3. Inv!OnPage(f) = evidence[f]
    <3>1. CASE \A s \in Inv!Section : dated[s] = 0
      <4>1. evidence[f] = 0 BY <2>1, <3>1, SectionsAre DEF DatedSound
      <4> QED BY <3>1, <4>1 DEF Inv!OnPage
    <3> QED BY <2>1, <3>1 DEF Inv!OnPage
  <2> QED BY <2>2, <2>3
<1>2. ASSUME NEW f \in Inv!Field, Inv!OnPage(f) # 0 PROVE \E m \in received : m.at = Inv!OnPage(f) /\ f \in m.knows
  <2>1. Inv!OnPage(f) = evidence[f] \/ Inv!OnPage(f) = column[f] BY <1>2 DEF Inv!OnPage
  <2> QED BY <1>2, <2>1 DEF Inv!EvidenceIsKept
<1> QED BY <1>1, <1>2 DEF Inv!PagesAgree

LEMMA InventoryInitIsSound == ASSUME Inv!InventoryAssumption, Inv!InventoryInit PROVE InventoryInv
<1> USE DEF Inv!InventoryInit
<1>1. Inv!InventoryTypeOK BY DEF Inv!InventoryTypeOK, Inv!InventoryAssumption
<1>2. MessagesSound /\ PostingSound BY DEF MessagesSound, PostingSound, Messages
<1>3. DatedSound /\ ProvenSound /\ FullSound BY DEF DatedSound, ProvenSound, FullSound, Inv!Field
<1>4. Inv!EvidenceIsKept BY DEF Inv!EvidenceIsKept, Inv!Reported
<1>5. Inv!DatesAreTrue BY DEF Inv!DatesAreTrue, Inv!Field
<1>6. Inv!CheckpointIsReceived /\ Inv!OriginIsReported BY DEF Inv!CheckpointIsReceived, Inv!OriginIsReported
<1>7. Inv!PagesAgree BY <1>3, <1>4, <1>5, PagesAre
<1> QED BY <1>1, <1>2, <1>3, <1>4, <1>5, <1>6, <1>7 DEF InventoryInv, Inv!InventoryIsKept

\* What the server has is untouched by what the agent does.
ServerSound ==
  DatedSound /\ ProvenSound /\ FullSound /\ Inv!EvidenceIsKept /\ Inv!DatesAreTrue /\ Inv!OriginIsReported
LEMMA PagesFollow == ServerSound => Inv!PagesAgree
BY PagesAre DEF ServerSound
LEMMA PagesFollowNext == (ServerSound => Inv!PagesAgree)'
BY PagesFollow, PTL
LEMMA InventoryServerStays == ASSUME ServerSound, UNCHANGED Inv!server PROVE ServerSound'
BY DEF ServerSound, DatedSound, ProvenSound, FullSound, Inv!EvidenceIsKept, Inv!DatesAreTrue, Inv!OriginIsReported,
       Inv!Reported, Inv!server

LEMMA MessagesStay ==
  ASSUME MessagesSound, clock' = clock, sent' \subseteq sent, UNCHANGED received PROVE MessagesSound'
BY DEF MessagesSound, Messages, MessageSound

\* A new reading is a message of its own.
LEMMA NewMessage ==
  ASSUME Inv!InventoryTypeOK, MessagesSound, clock' = clock + 1, UNCHANGED received,
         NEW m, sent' = sent \cup {m}, m.at = clock + 1, MessageSound(m)'
  PROVE  MessagesSound' /\ \A r \in Messages : r.at # m.at
<1>1. clock \in Nat /\ \A r \in Messages : r.at \in 1 .. clock BY DEF Inv!InventoryTypeOK, MessagesSound, MessageSound
<1>2. \A r \in Messages : r.at # m.at BY <1>1
<1>3. \A r \in Messages : MessageSound(r)' BY <1>1 DEF MessagesSound, MessageSound
<1>4. Messages' = Messages \cup {m} BY DEF Messages
<1>5. (sent \cap received)' = {} BY <1>2 DEF MessagesSound, Messages
<1> QED BY <1>2, <1>3, <1>4, <1>5 DEF MessagesSound

\* A reading brings sections, values of these, and says whether it is whole.
LEMMA YieldIs ==
  ASSUME NEW plan \in SUBSET Inv!InventoryGroup, NEW y \in Inv!Yields[plan]
  PROVE  /\ y.sections \in SUBSET Inv!Section /\ y.knows \in SUBSET Inv!Field /\ y.whole \in BOOLEAN
         /\ \A f \in y.knows : Inv!SectionOf(f) \in y.sections
<1>1. PICK failed \in SUBSET {"platform", "details", "network"}, unknown \in SUBSET {"cpu", "ip"}, whole \in BOOLEAN :
        y = Inv!Yield(plan, failed, unknown, whole)
  BY DEF Inv!Yields
<1> DEFINE sections == Inv!Read(plan, failed)
           knows == Inv!Knows(plan, sections, Inv!Missing(failed, unknown))
<1>2. sections \in SUBSET Inv!Section BY DEF Inv!Read
<1>3. knows \in SUBSET Inv!Field /\ \A f \in knows : Inv!SectionOf(f) \in sections BY DEF Inv!Knows
<1>4. y = [sections |-> sections, knows |-> knows, whole |-> whole /\ "details" \notin failed /\ "cpu" \in knows]
  BY <1>1 DEF Inv!Yield
<1> HIDE DEF sections, knows
<1>5. (whole /\ "details" \notin failed /\ "cpu" \in knows) \in BOOLEAN OBVIOUS
<1> QED BY <1>2, <1>3, <1>4, <1>5

LEMMA CollectionIs ==
  ASSUME NEW scope \in {"scheduled", "full"}, NEW plan \in SUBSET Inv!InventoryGroup, NEW y \in Inv!Yields[plan],
         Inv!InventoryTypeOK,
         NEW m, m = [at |-> clock + 1, scope |-> scope, plan |-> plan, sections |-> y.sections, knows |-> y.knows,
                     whole |-> y.whole]
  PROVE  m \in Inv!Message /\ m.at = clock + 1 /\ m.scope = scope /\ \A f \in m.knows : Inv!SectionOf(f) \in m.sections
<1>1. clock + 1 \in Nat BY DEF Inv!InventoryTypeOK
<1> QED BY <1>1, YieldIs DEF Inv!Message

LEMMA CheckpointsStay ==
  ASSUME Inv!CheckpointIsReceived, received \subseteq received',
         UNCHANGED <<checkpoint, saved>> \/ (UNCHANGED checkpoint /\ saved' = checkpoint) \/ (checkpoint' = saved /\ UNCHANGED saved)
  PROVE  Inv!CheckpointIsReceived'
BY DEF Inv!CheckpointIsReceived, Inv!Satisfied

LEMMA PostingStays ==
  ASSUME PostingSound, UNCHANGED <<worker, posting, received, clock>>, sent' \subseteq sent PROVE PostingSound'
BY DEF PostingSound, Messages

\* A reading that is not the worker's leaves what the worker posts alone.
LEMMA PostingUndisturbed ==
  ASSUME Inv!InventoryTypeOK, PostingSound, UNCHANGED <<worker, posting, received>>, clock' = clock + 1,
         NEW m, sent' = sent \cup {m}, m.at = clock + 1
  PROVE  PostingSound'
<1>1. posting <= clock /\ clock \in Nat /\ posting \in Nat BY DEF PostingSound, Inv!InventoryTypeOK
<1>2. m.at # posting /\ posting <= clock' BY <1>1
<1>3. Messages' = Messages \cup {m} BY DEF Messages
<1> QED BY <1>2, <1>3 DEF PostingSound

\* A reading is one new message.
LEMMA ReadsIsSound ==
  ASSUME InventoryInv, NEW scope \in {"scheduled", "full"}, NEW plan \in SUBSET Inv!InventoryGroup, Inv!Reads(scope, plan),
         UNCHANGED received
  PROVE  /\ MessagesSound' /\ sent' \subseteq Inv!Message /\ clock' = clock + 1
         /\ setbacks' \in 0 .. MaxSetbacks \/ UNCHANGED setbacks
         /\ \E m : m.at = clock + 1 /\ m.scope = scope /\ sent' = sent \cup {m} /\ \A r \in Messages : r.at # m.at
<1>1. PICK y \in Inv!Yields[plan] :
        sent' = sent \cup {[at |-> clock + 1, scope |-> scope, plan |-> plan, sections |-> y.sections, knows |-> y.knows,
                            whole |-> y.whole]}
  BY DEF Inv!Reads
<1>0. PICK m : m = [at |-> clock + 1, scope |-> scope, plan |-> plan, sections |-> y.sections, knows |-> y.knows,
                    whole |-> y.whole] OBVIOUS
<1>2. clock' = clock + 1 BY DEF Inv!Reads
<1>3. Inv!InventoryTypeOK /\ MessagesSound BY DEF InventoryInv
<1>4. m \in Inv!Message /\ m.at = clock + 1 /\ m.scope = scope /\ \A f \in m.knows : Inv!SectionOf(f) \in m.sections
  BY <1>0, <1>3, CollectionIs
<1>5. sent' = sent \cup {m} BY <1>0, <1>1
<1>6. MessageSound(m)' BY <1>2, <1>3, <1>4 DEF MessageSound, Inv!InventoryTypeOK
<1>7. MessagesSound' /\ \A r \in Messages : r.at # m.at BY <1>2, <1>3, <1>4, <1>5, <1>6, NewMessage
<1>8. sent' \subseteq Inv!Message BY <1>3, <1>4, <1>5 DEF Inv!InventoryTypeOK
<1>9. setbacks' \in 0 .. MaxSetbacks \/ UNCHANGED setbacks
  BY <1>3, Bounds DEF Inv!Reads, Inv!Setback, Inv!InventoryTypeOK
<1> QED BY <1>2, <1>4, <1>5, <1>7, <1>8, <1>9

\* The invariant by whom its parts are about.
LEMMA InventoryParts ==
  InventoryInv <=> /\ Inv!InventoryTypeOK /\ MessagesSound /\ PostingSound
                   /\ ServerSound /\ Inv!CheckpointIsReceived
BY PagesAre DEF InventoryInv, ServerSound, Inv!InventoryIsKept

ServerTypes ==
  /\ received \subseteq Inv!Message
  /\ column \in [Inv!Field -> Nat] /\ evidence \in [Inv!Field -> Nat] /\ dated \in [Inv!Section -> Nat] /\ cpuDated \in Nat
  /\ tried \in [Inv!Section -> [status : {"none", "available", "failed"}, success : Nat]]
  /\ basis \in [source : {"none", "collection", "heartbeat"}, scope : {"none", "scheduled", "full"}, scheduled : BOOLEAN]
  /\ full \in [column : [Inv!Field -> Nat], evidence : [Inv!Field -> Nat]]
  /\ proven \in [observed : SUBSET Inv!Field, at : Nat, inherited : SUBSET Inv!Field, origin : [Inv!Field -> Nat]]
AgentTypes ==
  /\ clock \in Nat /\ expired \subseteq Inv!InventoryGroup /\ checkpoint \in [Inv!InventoryGroup -> Nat] /\ saved \in [Inv!InventoryGroup -> Nat]
  /\ worker \in {"idle", "posting", "answered", "saving"} /\ posting \in Nat /\ sent \subseteq Inv!Message
  /\ wishes \in 0 .. MaxWishes /\ setbacks \in 0 .. MaxSetbacks
LEMMA TypeParts == Inv!InventoryTypeOK <=> ServerTypes /\ AgentTypes
BY DEF Inv!InventoryTypeOK, ServerTypes, AgentTypes

\* A step of the agent leaves the server as it is.
LEMMA InventoryAgentStep ==
  ASSUME InventoryInv, UNCHANGED Inv!server, AgentTypes', MessagesSound', PostingSound',
         UNCHANGED <<checkpoint, saved>> \/ (UNCHANGED checkpoint /\ saved' = checkpoint) \/ (checkpoint' = saved /\ UNCHANGED saved)
  PROVE  InventoryInv'
<1>1. Inv!InventoryTypeOK /\ ServerSound /\ Inv!CheckpointIsReceived BY InventoryParts
<1>2. ServerSound' BY <1>1, InventoryServerStays
<1>3. ServerTypes' BY <1>1, TypeParts DEF ServerTypes, Inv!server
<1>4. received' = received BY DEF Inv!server
<1>5. Inv!CheckpointIsReceived' BY <1>1, <1>4, CheckpointsStay
<1>6. Inv!InventoryTypeOK' BY <1>3 DEF Inv!InventoryTypeOK, ServerTypes, AgentTypes
<1>7. Inv!PagesAgree' BY <1>2, PagesFollowNext
<1> QED BY <1>2, <1>5, <1>6, <1>7 DEF InventoryInv, ServerSound, Inv!InventoryIsKept

LEMMA PassesIsSound == ASSUME InventoryInv, NEW g \in Inv!InventoryGroup, Inv!Passes(g) PROVE InventoryInv'
<1> USE DEF Inv!Passes
<1>1. Inv!InventoryTypeOK /\ MessagesSound /\ PostingSound BY DEF InventoryInv
<1>2. AgentTypes' BY Bounds, <1>1 DEF AgentTypes, Inv!InventoryTypeOK, Inv!Wish
<1>3. MessagesSound' BY <1>1, MessagesStay DEF Inv!server
<1>4. PostingSound' BY <1>1, PostingStays DEF Inv!server
<1> QED BY <1>2, <1>3, <1>4, InventoryAgentStep

LEMMA InventoryCollectIsSound == ASSUME InventoryInv, Inv!Collect PROVE InventoryInv'
<1>1. Inv!InventoryTypeOK /\ PostingSound BY DEF InventoryInv
<1>2. Inv!Reads("scheduled", Inv!Due) /\ worker' = "posting" /\ posting' = clock + 1
      /\ UNCHANGED <<expired, checkpoint, saved, wishes>> /\ UNCHANGED Inv!server BY DEF Inv!Collect
<1>3. Inv!Due \in SUBSET Inv!InventoryGroup /\ UNCHANGED received BY <1>2 DEF Inv!Due, Inv!server
<1>4. /\ MessagesSound' /\ sent' \subseteq Inv!Message /\ clock' = clock + 1
      /\ setbacks' \in 0 .. MaxSetbacks \/ UNCHANGED setbacks
      /\ \E m : m.at = clock + 1 /\ m.scope = "scheduled" /\ sent' = sent \cup {m} /\ \A r \in Messages : r.at # m.at
  BY <1>2, <1>3, ReadsIsSound
<1>5. AgentTypes' BY Bounds, <1>1, <1>2, <1>4 DEF AgentTypes, Inv!InventoryTypeOK
<1>6. PostingSound' BY <1>1, <1>2, <1>3, <1>4 DEF PostingSound, Messages, Inv!InventoryTypeOK
<1> QED BY <1>2, <1>4, <1>5, <1>6, InventoryAgentStep

LEMMA CollectForJobIsSound == ASSUME InventoryInv, Inv!CollectForJob PROVE InventoryInv'
<1>1. Inv!InventoryTypeOK /\ PostingSound BY DEF InventoryInv
<1>2. Inv!Reads("full", Inv!InventoryGroup) /\ Inv!Wish
      /\ UNCHANGED <<expired, checkpoint, saved, worker, posting>> /\ UNCHANGED Inv!server BY DEF Inv!CollectForJob
<1>3. UNCHANGED received BY <1>2 DEF Inv!server
<1>4. /\ MessagesSound' /\ sent' \subseteq Inv!Message /\ clock' = clock + 1
      /\ setbacks' \in 0 .. MaxSetbacks \/ UNCHANGED setbacks
      /\ \E m : m.at = clock + 1 /\ m.scope = "full" /\ sent' = sent \cup {m} /\ \A r \in Messages : r.at # m.at
  BY <1>2, <1>3, ReadsIsSound
<1>5. AgentTypes' BY Bounds, <1>1, <1>2, <1>4 DEF AgentTypes, Inv!InventoryTypeOK, Inv!Wish
<1>6. PostingSound' BY <1>1, <1>2, <1>3, <1>4, PostingUndisturbed
<1> QED BY <1>2, <1>4, <1>5, <1>6, InventoryAgentStep

LEMMA BeatIsSound == ASSUME InventoryInv, Inv!Beat PROVE InventoryInv'
<1>1. Inv!InventoryTypeOK /\ PostingSound /\ MessagesSound BY DEF InventoryInv
<1>2. clock' = clock + 1 /\ Inv!Wish /\ UNCHANGED <<expired, checkpoint, saved, worker, posting, setbacks>>
      /\ UNCHANGED Inv!server
  BY DEF Inv!Beat
<1>3. UNCHANGED received BY <1>2 DEF Inv!server
<1>4. PICK knows \in SUBSET HeartbeatField :
        sent' = sent \cup {[at |-> clock + 1, scope |-> "heartbeat", plan |-> {}, sections |-> {},
                            knows |-> knows, whole |-> FALSE]}
  BY DEF Inv!Beat
<1>0. PICK m : m = [at |-> clock + 1, scope |-> "heartbeat", plan |-> {}, sections |-> {}, knows |-> knows, whole |-> FALSE]
  OBVIOUS
<1>5. m.at = clock + 1 /\ m.scope = "heartbeat" /\ m.sections = {} /\ m.knows \subseteq HeartbeatField BY <1>0, <1>4
<1>6. m \in Inv!Message BY Bounds, <1>0, <1>1, <1>4 DEF Inv!Message, Inv!InventoryTypeOK
<1>7. sent' = sent \cup {m} BY <1>0, <1>4
<1>8. MessageSound(m)' BY <1>1, <1>2, <1>5 DEF MessageSound, Inv!InventoryTypeOK
<1>9. MessagesSound' BY <1>1, <1>2, <1>3, <1>5, <1>7, <1>8, NewMessage
<1>10. PostingSound' BY <1>1, <1>2, <1>3, <1>5, <1>7, PostingUndisturbed
<1>11. AgentTypes' BY Bounds, <1>1, <1>2, <1>6, <1>7 DEF AgentTypes, Inv!InventoryTypeOK, Inv!Wish
<1> QED BY <1>2, <1>9, <1>10, <1>11, InventoryAgentStep

LEMMA RecordCheckpointIsSound == ASSUME InventoryInv, Inv!RecordCheckpoint PROVE InventoryInv'
<1>1. Inv!InventoryTypeOK /\ PostingSound /\ MessagesSound /\ ServerSound /\ Inv!CheckpointIsReceived BY InventoryParts
<1>2. worker = "answered" /\ worker' = "saving" /\ UNCHANGED <<clock, saved, posting, sent, wishes, setbacks>>
      /\ UNCHANGED Inv!server
  BY DEF Inv!RecordCheckpoint
<1>3. PICK m \in received :
        /\ m.at = posting
        /\ checkpoint' = [g \in Inv!InventoryGroup |-> IF g \in Inv!Satisfied(m) THEN m.at ELSE checkpoint[g]]
        /\ expired' = expired \ Inv!Satisfied(m)
  BY DEF Inv!RecordCheckpoint
<1>4. received' = received BY <1>2 DEF Inv!server
<1>5. m.at \in Nat BY <1>1, <1>3 DEF Inv!InventoryTypeOK
<1>6. AgentTypes' BY Bounds, <1>1, <1>2, <1>3, <1>5 DEF AgentTypes, Inv!InventoryTypeOK
<1>7. MessagesSound' BY <1>1, <1>2, <1>4, MessagesStay
<1>8. PostingSound' BY <1>1, <1>2, <1>4 DEF PostingSound
<1>9. ServerSound' BY <1>1, <1>2, InventoryServerStays
<1>10. m.scope = "scheduled" BY <1>1, <1>2, <1>3 DEF PostingSound, Messages
<1>11. ASSUME NEW g \in Inv!InventoryGroup, NEW point \in {checkpoint', saved'}, point[g] # 0
       PROVE  \E r \in received : r.at = point[g] /\ g \in Inv!Satisfied(r) /\ r.scope = "scheduled"
  <2>1. (point[g] = m.at /\ g \in Inv!Satisfied(m)) \/ point[g] = checkpoint[g] \/ point[g] = saved[g] BY <1>2, <1>3
  <2> QED BY <1>1, <1>10, <1>11, <2>1 DEF Inv!CheckpointIsReceived
<1>12. Inv!CheckpointIsReceived' BY <1>4, <1>11 DEF Inv!CheckpointIsReceived, Inv!Satisfied
<1>13. ServerTypes' BY <1>1, <1>2, TypeParts DEF ServerTypes, Inv!server
<1>14. Inv!InventoryTypeOK' BY <1>6, <1>13 DEF Inv!InventoryTypeOK, ServerTypes, AgentTypes
<1>15. Inv!PagesAgree' BY <1>9, PagesFollowNext
<1> QED BY <1>7, <1>8, <1>9, <1>12, <1>14, <1>15 DEF InventoryInv, ServerSound, Inv!InventoryIsKept

LEMMA InventoryGiveUpIsSound == ASSUME InventoryInv, Inv!GiveUp PROVE InventoryInv'
<1>1. Inv!InventoryTypeOK /\ PostingSound /\ MessagesSound BY DEF InventoryInv
<1>2. Inv!Setback /\ worker' = "saving" /\ sent' \subseteq sent
      /\ UNCHANGED <<clock, expired, checkpoint, saved, posting, wishes>> /\ UNCHANGED Inv!server
  BY DEF Inv!GiveUp
<1>3. received' = received BY <1>2 DEF Inv!server
<1>4. AgentTypes' BY Bounds, <1>1, <1>2 DEF AgentTypes, Inv!InventoryTypeOK, Inv!Setback
<1>5. MessagesSound' BY <1>1, <1>2, <1>3, MessagesStay
<1>6. PostingSound' BY <1>1, <1>2 DEF PostingSound
<1> QED BY <1>2, <1>4, <1>5, <1>6, InventoryAgentStep

LEMMA InventorySaveIsSound == ASSUME InventoryInv, Inv!SaveState PROVE InventoryInv'
<1>1. Inv!InventoryTypeOK /\ PostingSound /\ MessagesSound BY DEF InventoryInv
<1>2. worker' = "idle" /\ posting' = 0 /\ UNCHANGED <<clock, expired, checkpoint, sent, wishes>> /\ UNCHANGED Inv!server
  BY DEF Inv!SaveState
<1>7. (saved' = checkpoint /\ UNCHANGED setbacks) \/ (UNCHANGED saved /\ Inv!Setback) BY DEF Inv!SaveState
<1>3. received' = received BY <1>2 DEF Inv!server
<1>4. AgentTypes' BY Bounds, <1>1, <1>2, <1>7 DEF AgentTypes, Inv!InventoryTypeOK, Inv!Setback
<1>5. MessagesSound' BY <1>1, <1>2, <1>3, MessagesStay
<1>6. PostingSound' BY <1>1, <1>2 DEF PostingSound, Inv!InventoryTypeOK
<1> QED BY <1>2, <1>4, <1>5, <1>6, <1>7, InventoryAgentStep

LEMMA InventoryStopIsSound == ASSUME InventoryInv, Inv!Stop PROVE InventoryInv'
<1>1. Inv!InventoryTypeOK /\ PostingSound /\ MessagesSound BY DEF InventoryInv
<1>2. worker' = "idle" /\ posting' = 0 /\ UNCHANGED <<clock, saved, sent, wishes>> /\ UNCHANGED Inv!server
      /\ checkpoint' = saved /\ Inv!Setback /\ expired' \subseteq expired \cup Inv!InventoryGroup
  BY DEF Inv!Stop
<1>3. received' = received BY <1>2 DEF Inv!server
<1>4. AgentTypes' BY Bounds, <1>1, <1>2 DEF AgentTypes, Inv!InventoryTypeOK, Inv!Setback
<1>5. MessagesSound' BY <1>1, <1>2, <1>3, MessagesStay
<1>6. PostingSound' BY <1>1, <1>2 DEF PostingSound, Inv!InventoryTypeOK
<1> QED BY <1>2, <1>4, <1>5, <1>6, InventoryAgentStep

LEMMA InventoryDropIsSound == ASSUME InventoryInv, NEW m \in sent, Inv!Drop(m) PROVE InventoryInv'
<1>1. Inv!InventoryTypeOK /\ PostingSound /\ MessagesSound BY DEF InventoryInv
<1>2. Inv!Setback /\ sent' \subseteq sent /\ UNCHANGED Inv!agent /\ UNCHANGED wishes /\ UNCHANGED Inv!server
  BY DEF Inv!Drop
<1>3. received' = received /\ UNCHANGED <<clock, expired, checkpoint, saved, worker, posting>> BY <1>2 DEF Inv!server, Inv!agent
<1>4. AgentTypes' BY Bounds, <1>1, <1>2, <1>3 DEF AgentTypes, Inv!InventoryTypeOK, Inv!Setback
<1>5. MessagesSound' BY <1>1, <1>2, <1>3, MessagesStay
<1>6. PostingSound' BY <1>1, <1>2, <1>3, PostingStays
<1> QED BY <1>2, <1>3, <1>4, <1>5, <1>6, InventoryAgentStep

\* The server's two handlers.

LEMMA LearnedIs ==
  ASSUME NEW m, NEW old \in [Inv!Field -> Nat], m.at \in Nat
  PROVE  /\ Inv!Learned(m, old) \in [Inv!Field -> Nat]
         /\ \A f \in Inv!Field : Inv!Learned(m, old)[f] = IF f \in m.knows THEN m.at ELSE old[f]
BY DEF Inv!Learned

LEMMA ServeMessages ==
  ASSUME InventoryInv, NEW m \in sent, Inv!Serve(m)
  PROVE  /\ MessagesSound' /\ PostingSound' /\ AgentTypes' /\ received' = received \cup {m} /\ received' \subseteq Inv!Message
         /\ UNCHANGED <<checkpoint, saved>>
<1>1. Inv!InventoryTypeOK /\ PostingSound /\ MessagesSound BY DEF InventoryInv
<1>2. /\ sent' = sent \ {m} /\ received' = received \cup {m}
      /\ worker' = IF worker = "posting" /\ posting = m.at THEN "answered" ELSE worker
      /\ UNCHANGED <<clock, expired, checkpoint, saved, posting, wishes, setbacks>>
  BY DEF Inv!Serve
<1>3. Messages' = Messages BY <1>2 DEF Messages
<1>4. MessagesSound'
  <2>1. \A r \in Messages : MessageSound(r)' BY <1>1, <1>2 DEF MessagesSound, MessageSound
  <2>2. (sent \cap received)' = {} BY <1>1, <1>2 DEF MessagesSound
  <2> QED BY <1>1, <1>3, <2>1, <2>2 DEF MessagesSound
<1>5. PostingSound'
  <2>1. worker' \in {"posting", "answered"} => worker \in {"posting", "answered"} BY <1>2
  <2>2. worker' = "answered" => \E r \in received' : r.at = posting' BY <1>1, <1>2 DEF PostingSound
  <2> QED BY <1>1, <1>2, <1>3, <2>1, <2>2 DEF PostingSound
<1>6. AgentTypes' BY <1>1, <1>2 DEF AgentTypes, Inv!InventoryTypeOK
<1>7. received' \subseteq Inv!Message BY <1>1, <1>2 DEF Inv!InventoryTypeOK
<1> QED BY <1>2, <1>4, <1>5, <1>6, <1>7

\* What was shown before, or the message just received, is what is shown of a field.
LEMMA FieldIsKept ==
  ASSUME InventoryInv, NEW m \in sent, received' = received \cup {m}, m.at \in Nat \ {0},
         NEW f \in Inv!Field, NEW scopes, m.scope \in scopes, NEW old, NEW new,
         new = IF f \in m.knows THEN m.at ELSE old,
         old = 0 <=> Inv!Reported(f, scopes) = {},
         old # 0 => \E r \in received : r.at = old /\ f \in r.knows /\ r.scope \in scopes
  PROVE  /\ new = 0 <=> Inv!Reported(f, scopes)' = {}
         /\ new # 0 => \E r \in received' : r.at = new /\ f \in r.knows /\ r.scope \in scopes
<1>1. Inv!Reported(f, scopes)' = Inv!Reported(f, scopes) \cup (IF f \in m.knows THEN {m} ELSE {}) BY DEF Inv!Reported
<1>2. CASE f \in m.knows BY <1>1, <1>2
<1>3. CASE f \notin m.knows BY <1>1, <1>3
<1> QED BY <1>2, <1>3

LEMMA CollectionIsKept ==
  ASSUME InventoryInv, NEW m \in sent, m.scope # "heartbeat", received' = received \cup {m}, received' \subseteq Inv!Message,
         Inv!RecordCollection(m)
  PROVE  ServerTypes' /\ ServerSound'
<1>1. Inv!InventoryTypeOK /\ MessagesSound /\ ServerSound /\ MessageSound(m)
  BY InventoryParts DEF MessagesSound, Messages
<1>2. m \in Inv!Message BY <1>1 DEF Inv!InventoryTypeOK
<1>3. m.at \in Nat \ {0} /\ m.scope \in {"scheduled", "full"} /\ m.sections \subseteq Inv!Section /\ m.knows \subseteq Inv!Field
      /\ \A f \in m.knows : Inv!SectionOf(f) \in m.sections
  BY <1>1, <1>2 DEF Inv!Message, MessageSound, Inv!InventoryTypeOK
<1>4. /\ column' = Inv!Learned(m, column) /\ evidence' = Inv!Learned(m, evidence)
      /\ dated' = [s \in Inv!Section |-> IF s \in m.sections THEN m.at ELSE dated[s]]
      /\ cpuDated' = IF "cpu" \in m.knows THEN m.at ELSE cpuDated
      /\ basis' = [source |-> "collection", scope |-> m.scope, scheduled |-> basis.scheduled \/ m.scope = "scheduled"]
      /\ full' = (IF m.scope = "full" THEN [column |-> column', evidence |-> evidence'] ELSE full)
      /\ UNCHANGED proven
  BY DEF Inv!RecordCollection
<1>5. tried' = [s \in Inv!Section |->
         IF s \in m.sections THEN [status |-> "available", success |-> m.at]
         ELSE IF s \in Inv!Asked(m.plan) THEN [tried[s] EXCEPT !.status = "failed"] ELSE tried[s]]
  BY DEF Inv!RecordCollection
<1>6. column' \in [Inv!Field -> Nat] /\ evidence' \in [Inv!Field -> Nat]
      /\ \A f \in Inv!Field : /\ column'[f] = IF f \in m.knows THEN m.at ELSE column[f]
                              /\ evidence'[f] = IF f \in m.knows THEN m.at ELSE evidence[f]
  BY <1>1, <1>3, <1>4, LearnedIs DEF Inv!InventoryTypeOK
<1>7. ServerTypes'
  <2>1. dated' \in [Inv!Section -> Nat] /\ cpuDated' \in Nat BY <1>1, <1>3, <1>4 DEF Inv!InventoryTypeOK
  <2>2. tried' \in [Inv!Section -> [status : {"none", "available", "failed"}, success : Nat]]
    BY <1>1, <1>3, <1>5 DEF Inv!InventoryTypeOK
  <2>3. basis' \in [source : {"none", "collection", "heartbeat"}, scope : {"none", "scheduled", "full"}, scheduled : BOOLEAN]
    <3>1. (basis.scheduled \/ m.scope = "scheduled") \in BOOLEAN OBVIOUS
    <3> QED BY <1>3, <1>4, <3>1
  <2>5. full' \in [column : [Inv!Field -> Nat], evidence : [Inv!Field -> Nat]] BY <1>1, <1>4, <1>6 DEF Inv!InventoryTypeOK
  <2>4. proven' \in [observed : SUBSET Inv!Field, at : Nat, inherited : SUBSET Inv!Field, origin : [Inv!Field -> Nat]]
    BY <1>1, <1>4 DEF Inv!InventoryTypeOK
  <2> QED BY <1>6, <2>1, <2>2, <2>3, <2>4, <2>5 DEF ServerTypes
<1>8. DatedSound'
  <2>1. \A s \in Inv!Section : dated'[s] # 0 => \E r \in received' : r.at = dated'[s] /\ s \in r.sections
    BY <1>1, <1>4 DEF ServerSound, DatedSound
  <2>2. \A f \in Inv!Field : evidence'[f] # 0 => dated'[Inv!SectionOf(f)] # 0
    BY <1>1, <1>3, <1>4, <1>6, SectionsAre DEF ServerSound, DatedSound
  <2> QED BY <2>1, <2>2 DEF DatedSound
<1>9. ProvenSound' BY <1>1, <1>4 DEF ServerSound, ProvenSound
<1>10. Inv!EvidenceIsKept'
  <2> SUFFICES ASSUME NEW f \in Inv!Field
               PROVE  /\ column'[f] = 0 <=> Inv!Reported(f, {"scheduled", "full", "heartbeat"})' = {}
                      /\ evidence'[f] = 0 <=> Inv!Reported(f, {"scheduled", "full"})' = {}
                      /\ column'[f] # 0 => \E r \in received' : r.at = column'[f] /\ f \in r.knows
                      /\ evidence'[f] # 0 => \E r \in received' : r.at = evidence'[f] /\ f \in r.knows /\ r.scope # "heartbeat"
    BY DEF Inv!EvidenceIsKept
  <2>1. /\ column[f] = 0 <=> Inv!Reported(f, {"scheduled", "full", "heartbeat"}) = {}
        /\ evidence[f] = 0 <=> Inv!Reported(f, {"scheduled", "full"}) = {}
        /\ column[f] # 0 => \E r \in received : r.at = column[f] /\ f \in r.knows
        /\ evidence[f] # 0 => \E r \in received : r.at = evidence[f] /\ f \in r.knows /\ r.scope # "heartbeat"
    BY <1>1 DEF ServerSound, Inv!EvidenceIsKept
  <2>2. m.scope \in {"scheduled", "full", "heartbeat"} /\ column'[f] = (IF f \in m.knows THEN m.at ELSE column[f])
        /\ evidence'[f] = (IF f \in m.knows THEN m.at ELSE evidence[f])
    BY <1>3, <1>6
  <2>3. CASE f \in m.knows
    <3>1. m \in Inv!Reported(f, {"scheduled", "full", "heartbeat"})' /\ m \in Inv!Reported(f, {"scheduled", "full"})'
      BY <1>3, <2>3, <2>2 DEF Inv!Reported
    <3>2. column'[f] = m.at /\ evidence'[f] = m.at /\ m.at # 0 /\ m \in received' /\ m.scope # "heartbeat"
      BY <1>3, <2>3, <2>2
    <3> QED BY <2>3, <3>1, <3>2
  <2>4. CASE f \notin m.knows
    <3>1. /\ Inv!Reported(f, {"scheduled", "full", "heartbeat"})' = Inv!Reported(f, {"scheduled", "full", "heartbeat"})
          /\ Inv!Reported(f, {"scheduled", "full"})' = Inv!Reported(f, {"scheduled", "full"})
      BY <2>4 DEF Inv!Reported
    <3>2. column'[f] = column[f] /\ evidence'[f] = evidence[f] BY <2>4, <2>2
    <3> QED BY <2>1, <3>1, <3>2
  <2> QED BY <2>3, <2>4
<1>11. Inv!DatesAreTrue'
  <2>1. cpuDated' = evidence'["cpu"]
    <3>1. "cpu" \in Inv!Field /\ cpuDated = evidence["cpu"] BY <1>1 DEF ServerSound, Inv!DatesAreTrue, Inv!Field
    <3> QED BY <1>4, <1>6, <3>1
  <2>2. \A s \in Inv!Section : tried'[s].success = dated'[s]
    <3>1. \A s \in Inv!Section : tried[s].success = dated[s] BY <1>1 DEF ServerSound, Inv!DatesAreTrue
    <3>2. \A s \in Inv!Section : tried[s] \in [status : {"none", "available", "failed"}, success : Nat]
      BY <1>1 DEF Inv!InventoryTypeOK
    <3> QED BY <1>4, <1>5, <3>1, <3>2
  <2>3. ASSUME NEW r \in received', NEW f \in Inv!Field, r.at = dated'[Inv!SectionOf(f)], f \in r.knows
        PROVE  evidence'[f] = r.at
    <3>0. Inv!SectionOf(f) \in Inv!Section BY SectionsAre
    <3>1. r \in Messages /\ m \in Messages BY DEF Messages
    <3>2. CASE Inv!SectionOf(f) \in m.sections
      <4>1. r.at = m.at BY <1>4, <2>3, <3>0, <3>2
      <4>2. r = m BY <1>1, <3>1, <4>1 DEF MessagesSound
      <4> QED BY <1>6, <2>3, <4>2
    <3>3. CASE Inv!SectionOf(f) \notin m.sections
      <4>1. r.at = dated[Inv!SectionOf(f)] /\ f \notin m.knows BY <1>3, <1>4, <2>3, <3>0, <3>3
      <4>2. r \in received BY <2>3, <4>1
      <4>3. evidence[f] = r.at BY <1>1, <2>3, <4>1, <4>2 DEF ServerSound, Inv!DatesAreTrue
      <4> QED BY <1>6, <4>1, <4>3
    <3> QED BY <3>2, <3>3
  <2>4. \A f \in Inv!Field \ HeartbeatField : column'[f] = evidence'[f]
    BY <1>1, <1>6 DEF ServerSound, Inv!DatesAreTrue
  <2> QED BY <2>1, <2>2, <2>3, <2>4 DEF Inv!DatesAreTrue
<1>12. Inv!OriginIsReported' BY <1>1, <1>4 DEF ServerSound, Inv!OriginIsReported
<1>13. FullSound'
  <2>1. CASE basis'.scheduled /\ dated'["hardware"] # 0 BY <2>1 DEF FullSound
  <2>2. CASE ~(basis'.scheduled /\ dated'["hardware"] # 0)
    <3>1. "hardware" \in Inv!Section /\ basis'.scheduled = (basis.scheduled \/ m.scope = "scheduled") BY <1>4 DEF Inv!Section
    <3>2. ~(basis.scheduled /\ dated["hardware"] # 0)
      <4>1. dated["hardware"] # 0 => dated'["hardware"] # 0 BY <1>3, <1>4, <3>1
      <4> QED BY <2>2, <3>1, <4>1
    <3>3. ASSUME NEW f \in {"cpu", "memory"}
          PROVE  full'.evidence[f] = evidence'[f] /\ (f \notin HeartbeatField => full'.column[f] = evidence'[f])
      <4>1. f \in Inv!Field /\ Inv!SectionOf(f) = "hardware" BY DEF Inv!Field, Inv!SectionOf
      <4>2. CASE m.scope = "full"
        <5>1. full' = [column |-> column', evidence |-> evidence'] BY <1>4, <4>2
        <5>2. full'.evidence = evidence' /\ full'.column = column' BY <5>1
        <5>3. full'.evidence[f] = evidence'[f] /\ full'.column[f] = column'[f] BY <5>2
        <5>4. f \notin HeartbeatField => column'[f] = evidence'[f] BY <1>11, <4>1 DEF Inv!DatesAreTrue
        <5> QED BY <5>3, <5>4
      <4>3. CASE m.scope = "scheduled"
        <5>1. "hardware" \notin m.sections BY <1>3, <1>4, <2>2, <3>1, <4>3
        <5>2. f \notin m.knows BY <1>3, <4>1, <5>1
        <5>3. full' = full /\ evidence'[f] = evidence[f] BY <1>4, <1>6, <4>1, <4>3, <5>2
        <5> QED BY <1>1, <3>2, <5>3 DEF ServerSound, FullSound
      <4> QED BY <1>3, <4>2, <4>3
    <3> QED BY <3>3 DEF FullSound
  <2> QED BY <2>1, <2>2
<1> QED BY <1>7, <1>8, <1>9, <1>10, <1>11, <1>12, <1>13 DEF ServerSound

\* Wherever a heartbeat says that a value comes from, that report was received.
LEMMA OriginIs ==
  ASSUME InventoryInv, NEW f \in Inv!Field, Inv!Origin(f) # 0
  PROVE  \E r \in received : r.at = Inv!Origin(f) /\ (f \in r.knows \/ Inv!SectionOf(f) \in r.sections)
<1>1. ServerSound BY InventoryParts
<1>2. CASE Inv!Origin(f) = proven.origin[f] /\ f \in proven.inherited BY <1>1, <1>2 DEF ServerSound, Inv!OriginIsReported
<1>3. CASE Inv!Origin(f) = proven.at /\ f \in proven.observed BY <1>1, <1>3 DEF ServerSound, ProvenSound
<1>4. CASE Inv!Origin(f) = dated[Inv!SectionOf(f)] BY <1>1, <1>4, SectionsAre DEF ServerSound, DatedSound
<1> QED BY <1>2, <1>3, <1>4 DEF Inv!Origin

LEMMA HeartbeatIsKept ==
  ASSUME InventoryInv, NEW m \in sent, m.scope = "heartbeat", received' = received \cup {m}, received' \subseteq Inv!Message,
         Inv!RecordHeartbeat(m)
  PROVE  ServerTypes' /\ ServerSound'
<1>1. Inv!InventoryTypeOK /\ MessagesSound /\ ServerSound /\ MessageSound(m)
  BY InventoryParts DEF MessagesSound, Messages
<1>2. m \in Inv!Message BY <1>1 DEF Inv!InventoryTypeOK
<1>3. m.at \in Nat \ {0} /\ m.sections = {} /\ m.knows \subseteq Inv!Field /\ m.knows \subseteq HeartbeatField
  BY <1>1, <1>2 DEF Inv!Message, MessageSound, Inv!InventoryTypeOK
<1> DEFINE inherited == {f \in Inv!Field \ m.knows : column[f] # 0}
<1>4. /\ column' = Inv!Learned(m, column) /\ basis' = [basis EXCEPT !.source = "heartbeat"]
      /\ proven' = [observed |-> m.knows, at |-> m.at, inherited |-> inherited,
                    origin |-> [f \in Inv!Field |-> IF f \in inherited THEN Inv!Origin(f) ELSE 0]]
      /\ UNCHANGED <<evidence, dated, cpuDated, tried, full>>
  BY DEF Inv!RecordHeartbeat
<1>5. inherited \in SUBSET Inv!Field OBVIOUS
<1> HIDE DEF inherited
<1>6. column' \in [Inv!Field -> Nat]
      /\ \A f \in Inv!Field : column'[f] = IF f \in m.knows THEN m.at ELSE column[f]
  BY <1>1, <1>3, <1>4, LearnedIs DEF Inv!InventoryTypeOK
<1>7. ServerTypes'
  <2>1. \A f \in Inv!Field : Inv!Origin(f) \in Nat BY <1>1, SectionsAre DEF Inv!InventoryTypeOK, Inv!Origin
  <2>2. proven' \in [observed : SUBSET Inv!Field, at : Nat, inherited : SUBSET Inv!Field, origin : [Inv!Field -> Nat]]
    BY <1>3, <1>4, <1>5, <2>1
  <2>3. basis' \in [source : {"none", "collection", "heartbeat"}, scope : {"none", "scheduled", "full"}, scheduled : BOOLEAN]
    BY <1>1, <1>4 DEF Inv!InventoryTypeOK
  <2> QED BY <1>1, <1>4, <1>6, <2>2, <2>3 DEF ServerTypes, Inv!InventoryTypeOK
<1>8. DatedSound' BY <1>1, <1>4 DEF ServerSound, DatedSound
<1>9. ProvenSound' BY <1>4 DEF ProvenSound
<1>10. Inv!EvidenceIsKept'
  <2> SUFFICES ASSUME NEW f \in Inv!Field
               PROVE  /\ column'[f] = 0 <=> Inv!Reported(f, {"scheduled", "full", "heartbeat"})' = {}
                      /\ evidence'[f] = 0 <=> Inv!Reported(f, {"scheduled", "full"})' = {}
                      /\ column'[f] # 0 => \E r \in received' : r.at = column'[f] /\ f \in r.knows
                      /\ evidence'[f] # 0 => \E r \in received' : r.at = evidence'[f] /\ f \in r.knows /\ r.scope # "heartbeat"
    BY DEF Inv!EvidenceIsKept
  <2>1. /\ column[f] = 0 <=> Inv!Reported(f, {"scheduled", "full", "heartbeat"}) = {}
        /\ evidence[f] = 0 <=> Inv!Reported(f, {"scheduled", "full"}) = {}
        /\ column[f] # 0 => \E r \in received : r.at = column[f] /\ f \in r.knows
        /\ evidence[f] # 0 => \E r \in received : r.at = evidence[f] /\ f \in r.knows /\ r.scope # "heartbeat"
    BY <1>1 DEF ServerSound, Inv!EvidenceIsKept
  <2>2. \A r \in received : r.scope \in {"scheduled", "full", "heartbeat"} BY <1>1 DEF Inv!InventoryTypeOK, Inv!Message
  <2>3. /\ column'[f] = 0 <=> Inv!Reported(f, {"scheduled", "full", "heartbeat"})' = {}
        /\ column'[f] # 0 => \E r \in received' : r.at = column'[f] /\ f \in r.knows
    BY <1>3, <1>6, <2>1, <2>2, FieldIsKept
  <2>4. Inv!Reported(f, {"scheduled", "full"})' = Inv!Reported(f, {"scheduled", "full"}) BY DEF Inv!Reported
  <2> QED BY <1>4, <2>1, <2>3, <2>4
<1>11. Inv!DatesAreTrue'
  <2>1. cpuDated' = evidence'["cpu"] /\ \A s \in Inv!Section : tried'[s].success = dated'[s]
    BY <1>1, <1>4 DEF ServerSound, Inv!DatesAreTrue
  <2>2. ASSUME NEW r \in received', NEW f \in Inv!Field, r.at = dated'[Inv!SectionOf(f)], f \in r.knows
        PROVE  evidence'[f] = r.at
    <3>1. CASE r \in received BY <1>1, <1>4, <2>2, <3>1 DEF ServerSound, Inv!DatesAreTrue
    <3>2. CASE r = m
      <4>1. dated[Inv!SectionOf(f)] = m.at /\ dated[Inv!SectionOf(f)] # 0 BY <1>3, <1>4, <2>2, <3>2
      <4>2. PICK q \in received : q.at = m.at BY <1>1, <4>1, SectionsAre DEF ServerSound, DatedSound
      <4>3. q = m BY <1>1, <4>2 DEF MessagesSound, Messages
      <4> QED BY <1>1, <4>2, <4>3 DEF MessagesSound
    <3> QED BY <3>1, <3>2
  <2>3. \A f \in Inv!Field \ HeartbeatField : column'[f] = evidence'[f]
    BY <1>1, <1>3, <1>4, <1>6 DEF ServerSound, Inv!DatesAreTrue
  <2> QED BY <2>1, <2>2, <2>3 DEF Inv!DatesAreTrue
<1>12. Inv!OriginIsReported'
  <2> SUFFICES ASSUME NEW f \in proven'.inherited, proven'.origin[f] # 0
               PROVE  \E r \in received' : r.at = proven'.origin[f] /\ (f \in r.knows \/ Inv!SectionOf(f) \in r.sections)
    BY DEF Inv!OriginIsReported
  <2>1. f \in inherited /\ f \in Inv!Field BY <1>4, <1>5
  <2>2. proven'.origin[f] = Inv!Origin(f) BY <1>4, <2>1
  <2>3. \E r \in received : r.at = Inv!Origin(f) /\ (f \in r.knows \/ Inv!SectionOf(f) \in r.sections)
    BY <2>1, <2>2, OriginIs
  <2> QED BY <2>2, <2>3
<1>13. FullSound'
  <2>1. basis'.scheduled = basis.scheduled BY <1>1, <1>4 DEF Inv!InventoryTypeOK
  <2> QED BY <1>1, <1>4, <2>1 DEF ServerSound, FullSound
<1> QED BY <1>7, <1>8, <1>9, <1>10, <1>11, <1>12, <1>13 DEF ServerSound

LEMMA InventoryServeIsSound == ASSUME InventoryInv, NEW m \in sent, Inv!Serve(m) PROVE InventoryInv'
<1>1. /\ MessagesSound' /\ PostingSound' /\ AgentTypes' /\ received' = received \cup {m} /\ received' \subseteq Inv!Message
      /\ UNCHANGED <<checkpoint, saved>>
  BY ServeMessages
<1>2. ServerTypes' /\ ServerSound'
  <2>1. CASE m.scope = "heartbeat"
    <3>1. Inv!RecordHeartbeat(m) BY <2>1 DEF Inv!Serve
    <3> QED BY <1>1, <2>1, <3>1, HeartbeatIsKept
  <2>2. CASE m.scope # "heartbeat"
    <3>1. Inv!RecordCollection(m) BY <2>2 DEF Inv!Serve
    <3> QED BY <1>1, <2>2, <3>1, CollectionIsKept
  <2> QED BY <2>1, <2>2
<1>3. Inv!CheckpointIsReceived' BY <1>1, CheckpointsStay, InventoryParts
<1>4. Inv!InventoryTypeOK' BY <1>1, <1>2 DEF Inv!InventoryTypeOK, ServerTypes, AgentTypes
<1>5. Inv!PagesAgree' BY <1>2, PagesFollowNext
<1> QED BY <1>1, <1>2, <1>3, <1>4, <1>5 DEF InventoryInv, ServerSound, Inv!InventoryIsKept

LEMMA InventoryStep == ASSUME InventoryInv, [Inv!InventoryNext]_inventoryV PROVE InventoryInv'
<1>1. CASE UNCHANGED inventoryV
  <2>1. UNCHANGED Inv!server /\ UNCHANGED Inv!agent /\ UNCHANGED <<sent, wishes, setbacks>>
    BY <1>1 DEF inventoryV, Inv!server, Inv!agent
  <2>2. UNCHANGED <<clock, expired, checkpoint, saved, worker, posting>> /\ UNCHANGED received BY <2>1 DEF Inv!agent, Inv!server
  <2>3. Inv!InventoryTypeOK /\ MessagesSound /\ PostingSound BY DEF InventoryInv
  <2>4. AgentTypes' BY <2>1, <2>2, <2>3 DEF AgentTypes, Inv!InventoryTypeOK
  <2>5. MessagesSound' /\ PostingSound' BY <2>1, <2>2, <2>3, MessagesStay, PostingStays
  <2> QED BY <2>1, <2>2, <2>4, <2>5, InventoryAgentStep
<1>2. CASE Inv!InventoryNext
  BY <1>2, PassesIsSound, InventoryCollectIsSound, CollectForJobIsSound, BeatIsSound, RecordCheckpointIsSound, InventoryGiveUpIsSound,
     InventorySaveIsSound, InventoryStopIsSound, InventoryServeIsSound, InventoryDropIsSound DEF Inv!InventoryNext
<1> QED BY <1>1, <1>2

-----------------------------------------------------------------------------
(* Together.                                                                *)

LEMMA EnrMoves ==
  /\ Init => Enr!EnrollmentInit
  /\ [Next]_Vars => [Enr!EnrollmentNext]_enrollmentV
BY DEF Init, Next, OthersRest, Vars

LEMMA RemMoves ==
  /\ Init => Rem!RemovalInit
  /\ [Next]_Vars => [Rem!RemovalNext]_removalV
BY DEF Init, Next, OthersRest, Vars

LEMMA InvMoves ==
  /\ Init => Inv!InventoryInit
  /\ [Next]_Vars => [Inv!InventoryNext]_inventoryV
BY DEF Init, Next, OthersRest, Vars

LEMMA AleMoves ==
  /\ Init => Ale!AlertsInit
  /\ [Next]_Vars => [Ale!AlertsNext]_alertV
BY DEF Init, Next, OthersRest, Vars

LEMMA RevMoves ==
  /\ Init => Rev!ReviewInit
  /\ [Next]_Vars => [Rev!ReviewNext]_reviewV
BY DEF Init, Next, OthersRest, Vars

EstateInv == EnrollmentInv /\ RemovalInv /\ InventoryInv /\ AlertInv /\ ReviewInv

\* The strengthening holds of the composition, for every value of its constants.
THEOREM EstateInvariant == Spec => []EstateInv
<1>1. Init => EstateInv
  BY EstateAssumption, EnrMoves, RemMoves, InvMoves, AleMoves, RevMoves, EnrollmentInitIsSound, RemovalInitInv, InventoryInitIsSound,
     AlertInitIsSound, ReviewInitIsSound
     DEF EstateInv
<1>2. EstateInv /\ [Next]_Vars => EstateInv'
  BY EstateAssumption, EnrMoves, RemMoves, InvMoves, AleMoves, RevMoves, EnrollmentNextIsSound, EnrollmentStaysIsSound, RemovalStep, InventoryStep,
     AlertNextIsSound, AlertsStay, ReviewNextIsSound, ReviewStays DEF EstateInv
<1> QED
  BY <1>1, <1>2, PTL DEF Spec

\* The variables of enrollment, removal, inventory, alerts and access review have their types.
THEOREM EstateTyped == Spec => []EstateTypeOK
<1>1. EstateInv => EstateTypeOK
  BY EstateAssumption, EnrollmentInvIsEnough, AlertInvIsEnough, ReviewInvIsEnough DEF EstateInv, RemovalInv, InventoryInv, EstateTypeOK
<1> QED
  BY <1>1, EstateInvariant, PTL

\* Rows, names and credentials are unique, a link or token admits no more computers than it
\* was made for, and a deployment is complete only after its own endpoint was heard from,
\* whatever is cloned, renamed, retried or installed anew.
THEOREM EnrollmentSound == Spec => []EnrollmentIsSound
<1>1. EstateInv => EnrollmentIsSound
  BY EstateAssumption, EnrollmentInvIsEnough DEF EstateInv, EnrollmentIsSound
<1> QED
  BY <1>1, EstateInvariant, PTL

\* One order is active and one job open at a time, no update is open next to it, two
\* uninstallers meet only when a job was ended over the head of one; what was deleted had
\* been ordered and granted, and what is recorded as completed was done.
THEOREM RemovalsTrue == Spec => []RemovalsAreTrue
<1>1. EstateInv => RemovalsAreTrue
  BY DEF EstateInv, RemovalInv, RemovalsAreTrue
<1> QED
  BY <1>1, EstateInvariant, PTL

\* A cancelled or expired order is not given to the agent later, and a removed endpoint counts
\* as installed again only while an agent is there, or by the late completion of one that was.
THEOREM RemovalsStay == Spec => EndedRemovalsStay
<1>1. EstateInv /\ [Next]_Vars =>
        [\A o \in Rem!Order : removal[o] \in Rem!JobOver \/ order[o].status \in Rem!Ended =>
           o \in delivered \/ o \notin delivered']_Rem!removalVars
  BY RemMoves, EndedOrdersStay
     DEF EstateInv, removalV, Rem!removalVars, Rem!rows, Rem!machine, Rem!computer
<1>2. EstateInv /\ [Next]_Vars =>
        [(lifecycle \in Rem!Terminal /\ lifecycle' \notin Rem!Terminal) =>
           disk \in {"whole", "stopped"} \/ "removed" \in installing \ installing']_Rem!removalVars
  BY RemMoves, OnlyRevives
     DEF EstateInv, removalV, Rem!removalVars, Rem!rows, Rem!machine, Rem!computer
<1> QED
  BY <1>1, <1>2, EstateInvariant, PTL
     DEF Spec, EndedRemovalsStay, Rem!NeverGivenLater, Rem!OnlyInstallationRevives

\* Nothing that was reported is forgotten, dates and checkpoints are those of readings the
\* server has, and what a heartbeat passes on was reported, whatever is lost, late, partial
\* or out of order, for any number of readings and any fields that heartbeats carry.
THEOREM InventoryKept == Spec => []InventoryIsKept
<1>1. EstateInv => InventoryIsKept
  BY DEF EstateInv, InventoryInv, InventoryIsKept
<1> QED
  BY <1>1, EstateInvariant, PTL

\* At most one alert of a kind is active unless runs overlapped or an old one was revived
\* by a save, and after an undisturbed run the alerts are those of the inventory, whatever
\* runs crash, are given up or started again.
THEOREM AlertsTrue == Spec => []AlertsAreTrue
<1>1. EstateInv => AlertsAreTrue
  BY EstateAssumption, AlertInvIsEnough DEF EstateInv, AlertsAreTrue
<1> QED
  BY <1>1, EstateInvariant, PTL

\* Whoever has access in the imported inventory is on the folder's page unless it is cut,
\* whoever is shown and does not keep access is said to lose it, a grant is shown where it
\* was given and below, principals are not doubled and a successful upload is stored.
THEOREM AccessReviewed == Spec => []AccessIsReviewed
<1>1. EstateInv => AccessIsReviewed
  BY EstateAssumption, ReviewInvIsEnough DEF EstateInv, AccessIsReviewed
<1> QED
  BY <1>1, EstateInvariant, PTL
=============================================================================
