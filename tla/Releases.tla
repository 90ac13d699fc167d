-------------------------------- MODULE Releases --------------------------------
(***************************************************************************)
(* Agent releases on the server: import, publication, promotion between    *)
(* channels, pause, supersession, revocation; and the update jobs that the *)
(* update policy or a technician makes of them.                            *)
(*                                                                         *)
(* A request reads a release and later saves the whole row it has read,    *)
(* without a lock; likewise a decision to update is taken first and its    *)
(* job is created later.  Versions are numbers in their order.             *)
(***************************************************************************)
EXTENDS Naturals

CONSTANTS
  MaxVersion,        \* releases 1..MaxVersion
  EndpointChannel,   \* update_channel of the endpoint
  Editor,            \* requests that change releases
  MaxReleaseOps,     \* bound: what editors begin
  MaxDecisions       \* bound: update decisions

ReleaseAssumption ==
  /\ MaxVersion \in Nat \ {0} /\ EndpointChannel \in {"development", "pilot", "stable"}
  /\ {MaxReleaseOps, MaxDecisions} \subseteq Nat /\ "panel" \notin Editor /\ "none" \notin Editor

VARIABLES
  release,    \* AgentRelease rows
  editor,     \* what each request has read
  keyRevoked, \* AgentReleaseSigningKey.revoked of the signing key
  installed,  \* version the endpoint runs
  decision,   \* an eligible decision whose job is not created yet
  update,     \* the last update job of the endpoint
  outdated,   \* history: the decision at hand, or the job made of it, was overtaken
  releaseOps, decisions

releaseVars ==
  <<release, editor, keyRevoked, installed, decision, update, outdated, releaseOps, decisions>>

Version == 1..MaxVersion
Channel == {"development", "pilot", "stable"}
ReleaseStatus == {"draft", "published", "paused", "revoked", "superseded"}
Immutable == ReleaseStatus \ {"draft"}
NoRelease == [status |-> "none", channel |-> "none", paused |-> FALSE, revoked |-> FALSE,
              released |-> "none", signed |-> FALSE]
NoEditor == [on |-> FALSE, version |-> 0, seen |-> NoRelease]
NoDecision == [by |-> "none", version |-> 0, forced |-> FALSE]
NoUpdate == [status |-> "none", version |-> 0, forced |-> FALSE]
ActiveUpdate == {"queued", "sent"}

ReleasesInit ==
  /\ release = [v \in Version |-> NoRelease] /\ editor = [q \in Editor |-> NoEditor]
  /\ keyRevoked = FALSE /\ installed \in {0, MaxVersion + 1} /\ decision = NoDecision /\ update = NoUpdate
  /\ outdated = FALSE /\ releaseOps = 0 /\ decisions = 0

----------------------------------------------------------------------------
(* AgentRelease.save and the signature policy.                             *)

\* clean() brings the flags of the row into line ...
Cleaned(row) ==
  LET revoked == row.revoked \/ row.status = "revoked"
      status == IF revoked THEN "revoked" ELSE row.status IN
  [row EXCEPT !.revoked = revoked, !.status = status, !.paused = @ \/ status = "paused"]
\* ... and refuses an unsigned stable release; save() refuses to change what may not
\* change once the stored row is no draft: of these, the time of publication can differ.
Saveable(v, row) ==
  /\ (row.channel = "stable" /\ Cleaned(row).status \in Immutable => row.signed)
  /\ release[v].status \in Immutable => row.released = release[v].released
Save(v, row) == Saveable(v, row) /\ release' = [release EXCEPT ![v] = Cleaned(row)]

SignaturePolicy(row) == IF row.signed THEN ~keyRevoked ELSE row.channel # "stable"

----------------------------------------------------------------------------
(* Requests: a row is read ...                                             *)

ReadRelease(q, v) ==
  /\ ~editor[q].on /\ releaseOps < MaxReleaseOps
  /\ editor' = [editor EXCEPT ![q] = [on |-> TRUE, version |-> v, seen |-> release[v]]]
  /\ releaseOps' = releaseOps + 1
  /\ UNCHANGED <<release, keyRevoked, installed, decision, update, outdated, decisions>>

\* ... and the operation saves it, changed, over whatever is there now.
Seen(q) == editor[q].seen
Write(q, row) == editor[q].on /\ Save(editor[q].version, row) /\ editor' = [editor EXCEPT ![q] = NoEditor]
Aside == UNCHANGED <<keyRevoked, installed, decision, releaseOps, decisions>>
Rest == Aside /\ UNCHANGED <<update, outdated>>

\* A new release, by the console or an import; an import may also replace a draft.
CreateRelease(q) ==
  /\ editor[q].on /\ Seen(q).status = "none" /\ release[editor[q].version].status = "none"
  /\ \E status \in ReleaseStatus, channel \in Channel, signed \in BOOLEAN :
       Write(q, [status |-> status, channel |-> channel, paused |-> status = "paused", revoked |-> FALSE,
                 released |-> IF status = "published" THEN "panel" ELSE "none", signed |-> signed])
  /\ Rest
ImportRelease(q) ==
  /\ editor[q].on /\ Seen(q).status \in {"none", "draft"}
  /\ \E status \in ReleaseStatus, channel \in Channel, signed \in BOOLEAN :
       /\ signed => ~keyRevoked
       /\ Write(q, [status |-> status, channel |-> channel, paused |-> status = "paused", revoked |-> FALSE,
                    released |-> IF status = "draft" THEN "none" ELSE q, signed |-> signed])
       /\ outdated' = (outdated \/ (status = "revoked" /\ editor[q].version \in {decision.version, update.version}))
  /\ Aside /\ UNCHANGED update
Publish(q) ==
  /\ Seen(q).status = "draft" /\ SignaturePolicy(Seen(q))
  /\ \E paused \in BOOLEAN :
       Write(q, [Seen(q) EXCEPT !.paused = paused, !.status = IF paused THEN "paused" ELSE "published",
                   !.released = IF @ = "none" THEN q ELSE @])
  /\ Rest
\* From development to pilot to stable; the command may leave pilot out.
Promote(q) ==
  /\ Seen(q).status \in {"published", "paused"} /\ Seen(q).signed /\ SignaturePolicy(Seen(q))
  /\ \E channel \in Channel, paused \in BOOLEAN :
       /\ <<Seen(q).channel, channel>> \in {<<"development", "pilot">>, <<"pilot", "stable">>, <<"development", "stable">>}
       /\ Write(q, [Seen(q) EXCEPT !.channel = channel, !.paused = paused,
                      !.status = IF paused THEN "paused" ELSE "published"])
  /\ Rest
\* The percentage alone (paused = "keep") also saves the row as it was read.
ChangeRollout(q) ==
  /\ Seen(q).status \in {"draft", "published", "paused"}
  /\ \/ Write(q, Seen(q))
     \/ Write(q, [Seen(q) EXCEPT !.paused = TRUE, !.status = IF @ = "published" THEN "paused" ELSE @])
     \/ Write(q, [Seen(q) EXCEPT !.paused = FALSE, !.status = IF @ = "paused" THEN "published" ELSE @])
  /\ Rest
\* By another release, of these or of those left out.
Supersede(q) ==
  /\ Seen(q).status \in {"draft", "published", "paused"}
  /\ Write(q, [Seen(q) EXCEPT !.status = "superseded", !.paused = TRUE])
  /\ Rest
\* Mutant: the jobs of a revoked release are left alone.
RevokeOnly(q) ==
  /\ Seen(q).status \in ReleaseStatus \ {"revoked"}
  /\ Write(q, [Seen(q) EXCEPT !.status = "revoked", !.revoked = TRUE, !.paused = TRUE])
  /\ Rest
\* Revocation also cancels the jobs that have not started.
Revoke(q) ==
  LET v == editor[q].version IN
  /\ Seen(q).status \in ReleaseStatus \ {"revoked"}
  /\ Write(q, [Seen(q) EXCEPT !.status = "revoked", !.revoked = TRUE, !.paused = TRUE])
  /\ update' = IF update.version = v /\ update.status \in ActiveUpdate
               THEN [update EXCEPT !.status = "cancelled"] ELSE update
  /\ outdated' = (outdated \/ decision.version = v)
  /\ Aside
\* The request is refused, for what it has read or by save().
Refuse(q) ==
  /\ editor[q].on /\ editor' = [editor EXCEPT ![q] = NoEditor]
  /\ UNCHANGED release /\ Rest

RevokeKey ==
  /\ ~keyRevoked /\ keyRevoked' = TRUE
  /\ UNCHANGED <<release, editor, installed, decision, update, outdated, releaseOps, decisions>>

----------------------------------------------------------------------------
(* Update decisions and jobs.                                              *)

\* evaluate_agent_update_eligibility.  Groups, percentages and windows of an endpoint may
\* exclude it at any time: Decide is then not taken.
Eligible(v, manual, forced) ==
  /\ release[v].channel = EndpointChannel /\ ~release[v].revoked
  /\ \/ release[v].status = "published" /\ ~release[v].paused
     \/ manual /\ release[v].status \in {"published", "paused", "superseded"}
  /\ SignaturePolicy(release[v])
  /\ (v > installed \/ (v < installed /\ forced))
OnOffer(v) == release[v].channel = EndpointChannel /\ release[v].status = "published"
Newest == {v \in Version : OnOffer(v) /\ \A w \in Version : OnOffer(w) => w <= v}
Decide ==
  /\ decision = NoDecision /\ decisions < MaxDecisions
  /\ \/ \E v \in Newest : Eligible(v, FALSE, FALSE) /\ decision' = [by |-> "policy", version |-> v, forced |-> FALSE]
     \/ \E v \in Version, forced \in BOOLEAN :
          /\ update.status \notin ActiveUpdate /\ Eligible(v, TRUE, forced)
          /\ decision' = [by |-> "panel", version |-> v, forced |-> forced]
  /\ decisions' = decisions + 1 /\ outdated' = (outdated /\ update.status \in ActiveUpdate)
  /\ UNCHANGED <<release, editor, keyRevoked, installed, update, releaseOps>>
\* Under the endpoint's lock there is one job of this kind at most.
Dispatch ==
  /\ decision # NoDecision /\ decision' = NoDecision
  /\ update' = IF update.status \in ActiveUpdate THEN update
               ELSE [status |-> "queued", version |-> decision.version, forced |-> decision.forced]
  /\ UNCHANGED <<release, editor, keyRevoked, installed, outdated, releaseOps, decisions>>
\* The endpoint's agent, as far as the server learns of it.
DeliverUpdate ==
  /\ update.status = "queued" /\ update' = [update EXCEPT !.status = "sent"]
  /\ UNCHANGED <<release, editor, keyRevoked, installed, decision, outdated, releaseOps, decisions>>
EndUpdate ==
  /\ update.status = "sent"
  /\ \E done \in BOOLEAN :
       /\ update' = [update EXCEPT !.status = IF done THEN "completed" ELSE "failed"]
       /\ installed' = IF done THEN update.version ELSE installed
       /\ outdated' = (outdated \/ (done /\ decision # NoDecision))
  /\ UNCHANGED <<release, editor, keyRevoked, decision, releaseOps, decisions>>

ReleasesNext ==
  \/ \E q \in Editor :
       \/ \E v \in Version : ReadRelease(q, v)
       \/ CreateRelease(q) \/ ImportRelease(q) \/ Publish(q) \/ Promote(q) \/ ChangeRollout(q)
       \/ Supersede(q) \/ Revoke(q) \/ Refuse(q)
  \/ RevokeKey \/ Decide \/ Dispatch \/ DeliverUpdate \/ EndUpdate

ReleasesSpec == ReleasesInit /\ [][ReleasesNext]_releaseVars

----------------------------------------------------------------------------
(* Properties.                                                             *)

ReleasesTypeOK ==
  /\ \A v \in Version : release[v] = NoRelease \/ release[v].status \in ReleaseStatus
  /\ installed \in 0..MaxVersion + 1 /\ decision.version \in 0..MaxVersion /\ update.version \in 0..MaxVersion
  /\ update.status \in {"none", "cancelled", "completed", "failed"} \cup ActiveUpdate

\* A job that waits to be executed is for a release that is not revoked, and for a newer
\* version unless a downgrade was asked for; but a decision taken before the release was
\* revoked, or before another update came to its end, is carried out all the same.
UpdatesAreWanted ==
  update.status \in ActiveUpdate /\ ~outdated =>
    /\ release[update.version].status # "revoked"
    /\ (update.version > installed \/ update.forced)
\* What is offered can be trusted: rows whose flags contradict one another, or stable
\* releases without a signature, are never stored, whatever was saved over what.
OffersAreSound ==
  \A v \in Version :
    /\ release[v].revoked <=> release[v].status = "revoked"
    /\ release[v].status = "published" => ~release[v].paused
    /\ (release[v].status \in Immutable /\ release[v].channel = "stable" => release[v].signed)
ReleasesAreSafe == UpdatesAreWanted /\ OffersAreSound

\* A revoked release is offered again only by a request that had read it before.
RevokedIsFinal ==
  [][\A v \in Version : release[v].status = "revoked" /\ release'[v].status # "revoked" =>
       \E q \in Editor : editor[q].on /\ ~editor'[q].on /\ editor[q].version = v
                         /\ editor[q].seen.status # "revoked"]_releaseVars
=============================================================================
