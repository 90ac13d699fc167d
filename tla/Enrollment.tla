----------------------------- MODULE Enrollment -----------------------------
(***************************************************************************)
(* How a computer becomes an endpoint: the one-use deployment links and    *)
(* their batches, the enrolment and manual validation tokens, the endpoint *)
(* rows and their credentials, the bootstrap script that asks, installs    *)
(* and confirms, and the heartbeat that completes what it left pending.    *)
(* A row is known by the number of the first credential it was given.      *)
(***************************************************************************)
EXTENDS Integers, FiniteSets

CONSTANTS
  PC, InDomain,          \* computers, and those in the domain of the tokens
  SpareName,             \* a computer is first named after itself
  LastDeployment, LinkKind, BatchUses, IssueRequest, TokenUses,
  MaxRuns, MaxTroubles   \* bounds: installer runs, failures, revocations and changes of identity

EnrollmentAssumption ==
  /\ InDomain \subseteq PC /\ SpareName \notin PC /\ LinkKind \subseteq {"direct", "external"}
  /\ \A n \in {LastDeployment, BatchUses, TokenUses, MaxRuns, MaxTroubles} : n \in Nat

Deployment == 1 .. LastDeployment
MachineId == PC \cup {"image"}  \* a computer's own, or the one of the disk image it was made from
Manual == {"linked", "free"}    \* manual tokens, tied to the enrolment token or to none

VARIABLES
  pc,          \* per computer: its identity, what is installed and where its bootstrap is
  rows,        \* AgentMachine
  tokens,      \* how many credentials were generated
  deployment,  \* AgentDeploymentToken
  proof,       \* per deployment, the rows whose heartbeat came after installing_at
  late,        \* the deployments whose validity is over
  reading,     \* per computer, the row its metadata request read
  enrollToken, manualUsed, lot,
  reconciling, \* heartbeats whose on_commit reconciliation has not run
  taken,       \* history: how often each deployment admitted a computer
  spent,       \* history: how often the enrolment token and each manual token did
  everBeat,    \* history: heartbeats of the release since the metadata was first given
  runs, troubles

enrollmentVars == <<pc, rows, tokens, deployment, proof, late, reading, enrollToken, manualUsed, lot,
  reconciling, taken, spent, everBeat, runs, troubles>>

Unread == [dep |-> 0, status |-> "none", endpoint |-> 0]
NoDeployment == [status |-> "none", kind |-> "direct", request |-> "none", endpoint |-> 0,
  used |-> FALSE, started |-> FALSE, reported |-> FALSE]

EnrollmentInit ==
  /\ \E cloned \in {{}, PC} :
       pc = [p \in PC |-> [id |-> IF p \in cloned THEN "image" ELSE p, name |-> p, cred |-> 0, version |-> "none",
                           stage |-> "idle", dep |-> 0]]
  /\ rows = {} /\ tokens = 0 /\ deployment = [d \in Deployment |-> NoDeployment]
  /\ proof = [d \in Deployment |-> {}] /\ late = {} /\ reading = [p \in PC |-> Unread]
  /\ enrollToken = [open |-> TRUE, uses |-> 0] /\ manualUsed = {}
  /\ lot = [active |-> TRUE, used |-> 0]
  /\ reconciling = {} /\ taken = [d \in Deployment |-> 0]
  /\ spent = [v \in Manual \cup {"token"} |-> 0]
  /\ everBeat = [d \in Deployment |-> {}]
  /\ runs = 0 /\ troubles = 0

Trouble == troubles < MaxTroubles /\ troubles' = troubles + 1

Created == {d \in Deployment : deployment[d].status # "none"}
RowOf(p) == {r \in rows : r.token = pc[p].cred}       \* authenticate_agent_token
Others(r) == rows \ {r}
Stage(p, s) == [pc EXCEPT ![p].stage = s, ![p].dep = IF s = "idle" THEN 0 ELSE @]

---------------------------------------------------------------------------
\* The console.

Publish(d, kind, request) ==
  /\ d = Cardinality(Created) + 1 /\ d \in Deployment
  /\ deployment' = [deployment EXCEPT ![d] =
       [NoDeployment EXCEPT !.status = "waiting", !.kind = kind, !.request = request]]

\* deployment_create: a link for one computer; an external one comes with a manual token.
CreateDeployment(d, kind) ==
  /\ Publish(d, kind, "none")
  /\ UNCHANGED <<pc, rows, tokens, proof, late, reading, enrollToken, manualUsed, lot, reconciling, taken, spent,
                 everBeat, runs, troubles>>

\* deployment_batch_issue: the batch row is locked, a request id is served once.
MayIssue(request) ==
  /\ \A d \in Created : deployment[d].request # request
  /\ lot.active /\ lot.used < BatchUses
BatchIssue(d, request) ==
  /\ MayIssue(request) /\ Publish(d, "batch", request)
  /\ lot' = [lot EXCEPT !.used = @ + 1]
  /\ UNCHANGED <<pc, rows, tokens, proof, late, reading, enrollToken, manualUsed, reconciling, taken, spent,
                 everBeat, runs, troubles>>

\* deployment_batch_revoke; a batch whose time is over takes its deployments with it.
BatchClose(over) ==
  /\ Trouble /\ lot.active /\ lot' = [lot EXCEPT !.active = FALSE]
  /\ late' = IF over THEN late \cup {d \in Created : deployment[d].kind = "batch"} ELSE late
  /\ UNCHANGED <<pc, rows, tokens, deployment, proof, reading, enrollToken, manualUsed, reconciling,
                 taken, spent, everBeat, runs>>

\* agent_enrollment_revoke, or the end of the token's validity.
CloseToken ==
  /\ Trouble /\ enrollToken.open /\ enrollToken' = [enrollToken EXCEPT !.open = FALSE]
  /\ UNCHANGED <<pc, rows, tokens, deployment, proof, late, reading, manualUsed, lot, reconciling,
                 taken, spent, everBeat, runs>>

\* Thirty minutes pass.
DeploymentExpires(d) ==
  /\ Trouble /\ d \in Created \ late /\ late' = late \cup {d}
  /\ UNCHANGED <<pc, rows, tokens, deployment, proof, reading, enrollToken, manualUsed, lot,
                 reconciling, taken, spent, everBeat, runs>>

\* rotate_compromised_agent_tokens, prepare_agent_deploy --force-rotate-token: nobody is given
\* the new credential.
RotateCredential(r) ==
  /\ Trouble /\ tokens' = tokens + 1
  /\ rows' = Others(r) \cup {[r EXCEPT !.token = tokens + 1]}
  /\ UNCHANGED <<pc, deployment, proof, late, reading, enrollToken, manualUsed, lot, reconciling, taken, spent,
                 everBeat, runs>>

---------------------------------------------------------------------------
\* AgentDeploymentMetadataView: the row is read without a lock, checked, and saved later.

Expired(d) ==
  IF deployment[d].status = "expired" THEN deployment ELSE [deployment EXCEPT ![d].status = "expired"]
\* As a mutant: the status alone says that a link can be used.
UsableByStatus(d) == deployment[d].status \in {"waiting", "installing"}
Usable(d) == deployment[d].status \in {"waiting", "installing"} /\ ~deployment[d].used

AskMetadata(p, d) ==
  /\ pc[p].stage = "idle" /\ d \in Created /\ runs < MaxRuns /\ runs' = runs + 1
  /\ IF d \in late THEN deployment' = Expired(d) /\ UNCHANGED <<pc, reading>>
     ELSE /\ Usable(d) /\ UNCHANGED deployment
          /\ reading' = [reading EXCEPT ![p] =
               [dep |-> d, status |-> deployment[d].status, endpoint |-> deployment[d].endpoint]]
          /\ pc' = [pc EXCEPT ![p].stage = "asking", ![p].dep = d]
  /\ UNCHANGED <<rows, tokens, proof, late, enrollToken, manualUsed, lot, reconciling, taken, spent, everBeat,
                  troubles>>

\* mark_installing acts on the status it read.
MarkInstalling(p) ==
  LET d == reading[p].dep IN
    IF reading[p].status = "waiting"
      THEN /\ deployment' = [deployment EXCEPT ![d].status = "installing", ![d].started = TRUE]
           /\ proof' = [proof EXCEPT ![d] = {}]
      ELSE UNCHANGED <<deployment, proof>>

\* mark_failed saves the endpoint it read along with the status.
MarkUnavailable(p) ==
  /\ deployment' = [deployment EXCEPT
       ![reading[p].dep].status = "failed", ![reading[p].dep].endpoint = reading[p].endpoint]
  /\ UNCHANGED proof

GiveMetadata(p) ==
  /\ reading[p] # Unread /\ reading' = [reading EXCEPT ![p] = Unread]
  /\ \/ MarkInstalling(p) /\ pc' = Stage(p, "ready") /\ UNCHANGED troubles
     \/ MarkInstalling(p) /\ pc' = Stage(p, "idle") /\ Trouble    \* the answer is lost
     \/ MarkUnavailable(p) /\ pc' = Stage(p, "idle") /\ Trouble   \* no trust bundle, incomplete release
  /\ UNCHANGED <<rows, tokens, late, enrollToken, manualUsed, lot, reconciling, taken, spent, everBeat,
                 runs>>

---------------------------------------------------------------------------
\* AgentEnrollView.post, one transaction behind the registry's advisory lock.

\* find_enrollment_machine
ById(p) == {r \in rows : r.id = pc[p].id}
ByName(p) == {r \in rows : r.name = pc[p].name}
Found(p) == IF ById(p) # {} THEN ById(p) ELSE ByName(p)
KeysAgree(p) == ById(p) = {} \/ ByName(p) = {} \/ ById(p) = ByName(p)
\* validate_runtime_identity: the id is the row's, the name is nobody else's.
IdentityHolds(p, r) == r.id = pc[p].id /\ \A s \in Others(r) : s.name # pc[p].name

\* An existing row is given to its own bearer only.
MayTake(p, bound) ==
  /\ KeysAgree(p)
  /\ bound # 0 => \E r \in Found(p) : r.key = bound
  /\ RowOf(p) # {} => RowOf(p) = Found(p)
  /\ \A r \in Found(p) : RowOf(p) = {r} /\ IdentityHolds(p, r)

\* The row is made with a fresh credential, or renamed and its credential returned.
Admit(p) ==
  IF Found(p) = {}
    THEN /\ tokens' = tokens + 1
         /\ rows' = rows \cup {[key |-> tokens + 1, token |-> tokens + 1, id |-> pc[p].id,
                                name |-> pc[p].name, installed |-> FALSE]}
    ELSE /\ rows' = {IF r \in Found(p) THEN [r EXCEPT !.name = pc[p].name] ELSE r : r \in rows}
         /\ UNCHANGED tokens
RowKey(p) == IF Found(p) = {} THEN tokens + 1 ELSE (CHOOSE r \in Found(p) : TRUE).key
NewCred(p) == IF Found(p) = {} THEN tokens + 1 ELSE pc[p].cred

\* The answer reaches the installer, or it does not and only the server knows the credential.
Answer(p, received) ==
  \/ pc' = received /\ UNCHANGED troubles
  \/ pc' = Stage(p, "failing") /\ Trouble

\* _validate_deployment_token and the manual token of an external link.
TokenAccepted(p, d) ==
  /\ d \notin late /\ Usable(d)
  /\ deployment[d].kind = "batch" => p \in InDomain

EnrollByDeployment(p) ==
  LET d == pc[p].dep IN
    /\ pc[p].stage = "ready"
    /\ pc[p].version # "new" \/ pc[p].cred = 0 \/ deployment[d].kind = "external"
    /\ IF TokenAccepted(p, d) /\ MayTake(p, deployment[d].endpoint)
         THEN /\ Admit(p)
              /\ deployment' = [deployment EXCEPT ![d].status = "installing", ![d].started = TRUE,
                   ![d].endpoint = RowKey(p), ![d].used = TRUE]
              /\ taken' = [taken EXCEPT ![d] = @ + 1]
              /\ Answer(p, [pc EXCEPT ![p].stage = "installing", ![p].cred = NewCred(p)])
         ELSE /\ pc' = Stage(p, "failing")
              /\ deployment' = IF d \in late THEN Expired(d) ELSE deployment
              /\ UNCHANGED <<rows, tokens, taken, troubles>>
    /\ UNCHANGED <<spent, proof, late, reading, enrollToken, manualUsed, lot, reconciling, everBeat, runs>>

TokenOpen == enrollToken.open /\ enrollToken.uses < TokenUses

\* What a request without a deployment spends: the token, the token and a manual token, or a
\* manual token alone, which spends the token it is linked to.
Voucher(p) ==
  {v \in {{"token"}} \cup {{"token", m} : m \in Manual} \cup {{"free"}} :
     /\ "token" \in v => TokenOpen
     /\ v \cap manualUsed = {}
     /\ v = {"token"} => p \in InDomain
     /\ v = {"token", "free"} => p \notin InDomain}

EnrollByToken(p, v) ==
  /\ pc[p].stage = "idle" /\ pc[p].cred = 0 /\ runs < MaxRuns /\ runs' = runs + 1
  /\ MayTake(p, 0) /\ Admit(p)
  /\ enrollToken' = IF "token" \in v THEN [enrollToken EXCEPT !.uses = @ + 1] ELSE enrollToken
  /\ manualUsed' = manualUsed \cup (v \cap Manual)
  /\ spent' = [u \in DOMAIN spent |-> IF u \in v THEN spent[u] + 1 ELSE spent[u]]
  /\ \/ pc' = [pc EXCEPT ![p].cred = NewCred(p), ![p].version = "old"] /\ UNCHANGED troubles
     \/ Trouble /\ pc' = pc
  /\ UNCHANGED <<deployment, proof, late, reading, lot, reconciling, taken, everBeat>>

---------------------------------------------------------------------------
\* The bootstrap script on the computer.

\* A healthy installation of the same release is not installed again.
SkipInstall(p) ==
  /\ pc[p].stage = "ready" /\ pc[p].version = "new" /\ pc[p].cred # 0
  /\ deployment[pc[p].dep].kind # "external" /\ pc' = Stage(p, "report")
  /\ UNCHANGED <<rows, tokens, deployment, proof, late, reading, enrollToken, manualUsed, lot, reconciling, taken, spent,
                 everBeat, runs, troubles>>

\* The credential is on disk before the files are replaced.
Install(p) ==
  /\ pc[p].stage = "installing"
  /\ \/ pc' = [pc EXCEPT ![p].stage = "report", ![p].version = "new"] /\ UNCHANGED troubles
     \/ pc' = Stage(p, "failing") /\ Trouble
  /\ UNCHANGED <<rows, tokens, deployment, proof, late, reading, enrollToken, manualUsed, lot, reconciling, taken, spent,
                 everBeat, runs>>

\* Power off, the window closed: the script reports nothing.
BootstrapDies(p) ==
  /\ pc[p].stage \notin {"idle", "asking"} /\ Trouble /\ pc' = Stage(p, "idle")
  /\ UNCHANGED <<rows, tokens, deployment, proof, late, reading, enrollToken, manualUsed, lot, reconciling, taken, spent,
                 everBeat, runs>>

\* AgentDeploymentCompleteView: the agent's credential if there is one, or else the link's token.
Reporter(p, d) ==
  IF pc[p].cred # 0 THEN {r.key : r \in RowOf(p)}
  ELSE IF d \notin late /\ deployment[d].status = "installing" THEN {deployment[d].endpoint} \ {0}
  ELSE {}
Accepted(p, d) == {k \in Reporter(p, d) : deployment[d].endpoint \in {0, k}}

\* The failure branch comes before every check of the status.
ReportFailure(p) ==
  LET d == pc[p].dep IN
    /\ pc[p].stage = "failing" /\ pc' = Stage(p, "idle")
    /\ \/ \E k \in Accepted(p, d) :
            /\ deployment' = [deployment EXCEPT ![d].status = "failed", ![d].endpoint = k]
            /\ UNCHANGED troubles
       \/ Accepted(p, d) = {} /\ UNCHANGED <<deployment, troubles>>
       \/ Accepted(p, d) # {} /\ Trouble /\ UNCHANGED deployment
    /\ UNCHANGED <<rows, tokens, proof, late, reading, enrollToken, manualUsed, lot, reconciling, taken, spent,
                   everBeat, runs>>

Confirmed(d, k) == deployment[d].started /\ k \in proof[d]
\* mark_machine_installed_from_deployment
MarkInstalled(k) == rows' = {IF r.key = k THEN [r EXCEPT !.installed = TRUE] ELSE r : r \in rows}
Completed(d, k) ==
  [deployment EXCEPT ![d].status = "completed", ![d].endpoint = k, ![d].used = TRUE]

ReportSuccess(p) ==
  LET d == pc[p].dep
      known == Accepted(p, d)
      active == deployment[d].status = "installing" /\ d \notin late /\ deployment[d].started
      idle == pc' = Stage(p, "idle") IN
    /\ pc[p].stage = "report"
    /\ \/ /\ \E k \in known : Confirmed(d, k) /\ MarkInstalled(k)
               /\ \/ deployment[d].status = "completed" /\ deployment[d].endpoint = k /\ UNCHANGED deployment
                  \/ active /\ deployment' = Completed(d, k)
          /\ idle
       \/ /\ \E k \in known : active /\ ~Confirmed(d, k)
               /\ deployment' = [deployment EXCEPT ![d].endpoint = k, ![d].reported = TRUE]
          /\ (idle \/ UNCHANGED pc) /\ UNCHANGED rows     \* it asks again until its time is up
       \/ /\ \A k \in known : ~active /\ ~(deployment[d].status = "completed" /\ Confirmed(d, k))
          /\ idle /\ UNCHANGED <<rows, deployment>>
    /\ UNCHANGED <<tokens, proof, late, reading, enrollToken, manualUsed, lot, reconciling, taken, spent,
                   everBeat, runs, troubles>>

---------------------------------------------------------------------------
\* The agent's heartbeat, and the reconciliation its commit starts.

Heartbeat(p) ==
  /\ pc[p].version # "none"
  /\ \E r \in RowOf(p) : IdentityHolds(p, r) /\
       LET seen(d) == deployment[d].started /\ pc[p].version = "new" IN
       /\ rows' = Others(r) \cup {[r EXCEPT !.name = pc[p].name]}
       /\ proof' = [d \in Deployment |-> IF seen(d) THEN proof[d] \cup {r.key} ELSE proof[d]]
       /\ everBeat' = [d \in Deployment |-> IF seen(d) THEN everBeat[d] \cup {r.key} ELSE everBeat[d]]
       /\ reconciling' = IF pc[p].version = "new" THEN reconciling \cup {r.key} ELSE reconciling
  /\ UNCHANGED <<pc, tokens, deployment, late, reading, enrollToken, manualUsed, lot, taken, spent, runs,
                 troubles>>

\* reconcile_pending_deployment_heartbeat: only the newest deployment of the endpoint.
Pending(d, k) ==
  /\ deployment[d].endpoint = k /\ deployment[d].status = "installing" /\ d \notin late
  /\ deployment[d].reported /\ Confirmed(d, k)
  /\ \A e \in Created : e > d => deployment[e].endpoint # k
Reconcile(k) ==
  /\ k \in reconciling /\ reconciling' = reconciling \ {k}
  /\ \/ \E d \in Created : Pending(d, k) /\ deployment' = Completed(d, k) /\ MarkInstalled(k)
     \/ (\A d \in Created : ~Pending(d, k)) /\ UNCHANGED <<deployment, rows>>
  /\ UNCHANGED <<pc, tokens, proof, late, reading, enrollToken, manualUsed, lot, taken, spent, everBeat,
                 runs, troubles>>

\* The process dies between the commit and its callback.
ReconcileLost(k) ==
  /\ k \in reconciling /\ Trouble /\ reconciling' = reconciling \ {k}
  /\ UNCHANGED <<pc, rows, tokens, deployment, proof, late, reading, enrollToken, manualUsed, lot, taken, spent, everBeat,
                  runs>>

\* The computer is renamed, or Windows is installed anew.
Rename(p, name) ==
  /\ pc[p].name # name /\ Trouble /\ pc' = [pc EXCEPT ![p].name = name]
  /\ UNCHANGED <<rows, tokens, deployment, proof, late, reading, enrollToken, manualUsed, lot, reconciling, taken, spent,
                 everBeat, runs>>
Reimage(p, id) ==
  /\ pc[p].stage = "idle" /\ pc[p].version # "none" /\ Trouble
  /\ pc' = [pc EXCEPT ![p].id = id, ![p].cred = 0, ![p].version = "none"]
  /\ UNCHANGED <<rows, tokens, deployment, proof, late, reading, enrollToken, manualUsed, lot, reconciling, taken, spent,
                 everBeat, runs>>

EnrollmentNext ==
  \/ \E d \in Deployment :
       \/ \E kind \in LinkKind : CreateDeployment(d, kind)
       \/ \E q \in IssueRequest : BatchIssue(d, q)
       \/ DeploymentExpires(d)
       \/ \E p \in PC : AskMetadata(p, d)
  \/ \E over \in BOOLEAN : BatchClose(over)
  \/ CloseToken
  \/ \E r \in rows : RotateCredential(r)
  \/ \E p \in PC :
       \/ GiveMetadata(p) \/ EnrollByDeployment(p) \/ SkipInstall(p) \/ Install(p) \/ BootstrapDies(p)
       \/ ReportFailure(p) \/ ReportSuccess(p) \/ Heartbeat(p)
       \/ \E v \in Voucher(p) : EnrollByToken(p, v)
       \/ \E name \in PC \cup {SpareName} : Rename(p, name)
       \/ \E id \in {p, "image"} : Reimage(p, id)
  \/ \E k \in reconciling : Reconcile(k) \/ ReconcileLost(k)

EnrollmentFairness ==
  /\ \A p \in PC : WF_enrollmentVars(Heartbeat(p))
  /\ \A k \in 1 .. MaxRuns + MaxTroubles : WF_enrollmentVars(Reconcile(k))
EnrollmentSpec == EnrollmentInit /\ [][EnrollmentNext]_enrollmentVars /\ EnrollmentFairness

---------------------------------------------------------------------------
RowKeys == 0 .. tokens
EnrollmentTypeOK ==
  /\ pc \in [PC -> [id : MachineId, name : PC \cup {SpareName}, cred : RowKeys,
                    version : {"none", "old", "new"}, dep : Deployment \cup {0},
                    stage : {"idle", "asking", "ready", "installing", "report", "failing"}]]
  /\ rows \subseteq [key : RowKeys, token : RowKeys, id : MachineId, name : PC \cup {SpareName},
                     installed : BOOLEAN]
  /\ deployment \in [Deployment ->
       [status : {"none", "waiting", "installing", "completed", "expired", "failed"},
        kind : {"direct", "external", "batch"}, request : IssueRequest \cup {"none"}, endpoint : RowKeys,
        used : BOOLEAN, started : BOOLEAN, reported : BOOLEAN]]
  /\ proof \in [Deployment -> SUBSET RowKeys] /\ late \subseteq Deployment /\ manualUsed \subseteq Manual
  /\ enrollToken.uses \in Nat /\ lot.used \in Nat /\ reconciling \subseteq RowKeys

(* One row per machine id, name and credential, however computers are cloned, renamed and          *)
(* installed anew, and a credential is on one computer only (lock_identity_registry,               *)
(* find_enrollment_machine, validate_runtime_identity, 'existing_identity_proof_required').        *)
IdentityIsUnique ==
  /\ \A r, s \in rows : r # s => r.id # s.id /\ r.name # s.name /\ r.token # s.token
  /\ \A p, q \in PC : p # q /\ pc[p].cred # 0 => pc[p].cred # pc[q].cred
  /\ \A p \in PC : \A r \in RowOf(p) : r.id = pc[p].id

(* What was authorized once happens once: a link and a manual token admit one computer, the        *)
(* enrolment token as many as it says, and a batch gives no more links than it was opened for      *)
(* (AgentDeploymentToken.is_used, mark_used, deployment_batch_issue).                              *)
AuthorizedOnce ==
  /\ \A d \in Deployment : taken[d] <= 1
  /\ \A m \in Manual : spent[m] <= 1
  /\ spent["token"] = enrollToken.uses /\ enrollToken.uses <= TokenUses
  /\ Cardinality({d \in Created : deployment[d].kind = "batch"}) = lot.used /\ lot.used <= BatchUses
  /\ \A d, e \in Created : d # e /\ deployment[d].request # "none" => deployment[d].request # deployment[e].request

(* A deployment is completed only for the endpoint it was bound to, and only after that endpoint's *)
(* agent of the new release was heard from since the installation began.                           *)
CompletionIsProved ==
  \A d \in Created : deployment[d].status = "completed" =>
    /\ deployment[d].endpoint \in everBeat[d]
    /\ deployment[d].used /\ deployment[d].started
EnrollmentIsSound == IdentityIsUnique /\ AuthorizedOnce /\ CompletionIsProved

(* An installation the script left waiting for a heartbeat is completed by one: the agent sends    *)
(* them as long as it runs.                                                                        *)
InstallationOpen(d) ==
  /\ deployment[d].status = "installing" /\ deployment[d].reported /\ d \notin late
  /\ \A e \in Created : e > d => deployment[e].endpoint # deployment[d].endpoint
  /\ \E p \in PC : pc[p].version = "new" /\ \E r \in RowOf(p) :
       r.key = deployment[d].endpoint /\ IdentityHolds(p, r)
=============================================================================
