--------------------------- MODULE ReleaseManifest --------------------------
(***************************************************************************)
(* What a publish and a rollback do to assets, governed objects and the    *)
(* release manifest (publishing.go, release_publishing.go), beside edits   *)
(* that append a revision with no release (AppendCatalogRevision).         *)
(* A release is a whole manifest: the pins of every asset and object that  *)
(* was ever released.  Who may publish is the subject of ProposalReview;   *)
(* here every proposal in review has passed the gates, and the operator of *)
(* a rollback did not write the proposal.  A publish that fails on what it *)
(* would write (vocabulary, knowledge checks) is a publish that is not     *)
(* made.                                                                   *)
(***************************************************************************)
EXTENDS Integers, Sequences, FiniteSets, Functions, Proposals

CONSTANTS
    Asset,          \* semantic assets, with revisions
    Object,         \* governed objects, with a version
    Target,         \* what each proposal changes
    Value,          \* contents
    Operator,       \* rollbacks served at once
    MaxAppends,     \* bound: revisions appended with no release
    MaxReleases     \* bound: releases ever published

NoProposal == [state |-> "none"]
NoProposalID == "none"

ASSUME ReleaseAssumption ==
    /\ NoProposalID \notin Proposal
    /\ Asset \intersect Object = {}
    /\ Target \in [Proposal -> Asset \union Object]
    /\ MaxAppends \in Nat
    /\ MaxReleases \in Nat

VARIABLES
    revisions,      \* asset_revisions, the contents in order
    current,        \* semantic_assets.current_revision_id
    version,        \* of each governed object
    content,        \* of each governed object
    proposal,       \* proposals and their change-set
    releases,       \* releases with their manifests, in sequence
    rolling,        \* per operator, the release he is rolling back, or 0
    appends,
    contentBefore   \* history: content of the objects before each release

vars == <<revisions, current, version, content, proposal, releases, rolling, appends,
          contentBefore>>

Init ==
    /\ revisions \in [Asset -> {<<v>> : v \in Value}]
    /\ current = [a \in Asset |-> 1]
    /\ version = [o \in Object |-> 1]
    /\ content \in [Object -> Value]
    /\ proposal = [p \in Proposal |-> NoProposal]
    /\ releases = <<>>
    /\ rolling = [op \in Operator |-> 0]
    /\ appends = 0
    /\ contentBefore = <<>>

-----------------------------------------------------------------------------
(* Revisions and proposals.                                                *)

\* An asset has no two revisions with one content digest.
BugRepeatsContent(a, v) == v \in Value
IsNew(a, v) == v \notin Range(revisions[a])

\* AppendRevision, the edit of an asset outside any proposal.
AppendRevision(a) ==
    /\ appends < MaxAppends
    /\ appends' = appends + 1
    /\ \E v \in Value :
        /\ IsNew(a, v)
        /\ revisions' = [revisions EXCEPT ![a] = Append(@, v)]
    /\ current' = [current EXCEPT ![a] = Len(revisions[a]) + 1]
    /\ UNCHANGED <<version, content, proposal, releases, rolling, contentBefore>>

\* A proposal reaches review.  Its base is any revision of the asset; its
\* change-set updates a field of which it knows the value.
OpenAssetProposal(p) ==
    /\ Target[p] \in Asset
    /\ proposal[p] = NoProposal
    /\ \E base \in DOMAIN revisions[Target[p]], after \in Value :
        proposal' = [proposal EXCEPT ![p] = [state |-> "in_review", base |-> base, after |-> after]]
    /\ UNCHANGED <<revisions, current, version, content, releases, rolling, appends, contentBefore>>

OpenObjectProposal(p) ==
    /\ Target[p] \in Object
    /\ proposal[p] = NoProposal
    /\ \E after \in Value :
        proposal' = [proposal EXCEPT ![p] = [state |-> "in_review",
                                             before |-> content[Target[p]], after |-> after]]
    /\ UNCHANGED <<revisions, current, version, content, releases, rolling, appends, contentBefore>>

-----------------------------------------------------------------------------
(* Manifests.                                                              *)

PinsAsset(k, a) == a \in DOMAIN releases[k].assets
PinsObject(k, o) == o \in DOMAIN releases[k].objects

\* The newest of a set of sequence numbers.
Newest(S) == CHOOSE k \in S : \A j \in S : j <= k

\* LatestPublishedAssetPins, LatestPublishedObjectPins: for each what the
\* newest release that pins it says.
LatestAssetPins ==
    [a \in {b \in Asset : \E k \in DOMAIN releases : PinsAsset(k, b)} |->
        releases[Newest({k \in DOMAIN releases : PinsAsset(k, a)})].assets[a]]
LatestObjectPins ==
    [o \in {b \in Object : \E k \in DOMAIN releases : PinsObject(k, b)} |->
        releases[Newest({k \in DOMAIN releases : PinsObject(k, o)})].objects[o]]

\* LatestAssetPinBefore.
ReleasesBefore(t, a) == {k \in DOMAIN releases : k < t /\ PinsAsset(k, a)}
PinBefore(t, a) == releases[Newest(ReleasesBefore(t, a))].assets[a]

\* The rows of a new release; the sequence number is the next one.
Publish(release) ==
    /\ Len(releases) < MaxReleases
    /\ releases' = Append(releases, release)
    /\ contentBefore' = Append(contentBefore, content)

-----------------------------------------------------------------------------
(* PublishRelease, one transaction under the workspace lock.               *)

NoPins == [x \in {} |-> 0]
Pin(x, n) == [y \in {x} |-> n]

\* g, but for what f has to say.
Over(f, g) == [x \in DOMAIN f \union DOMAIN g |-> IF x \in DOMAIN f THEN f[x] ELSE g[x]]

\* carryPublishedPins adds the pins that the publish does not change.
BugCarriesOver(own, latest) == Over(latest, own)
Carried(own, latest) == Over(own, latest)

BaseIsCurrent(p) == current[Target[p]] = proposal[p].base

\* publishAssetRevision.
PublishAssetRevision(p) ==
    LET a == Target[p]
        next == Len(revisions[a]) + 1
    IN
    /\ a \in Asset
    /\ proposal[p].state = "in_review"
    /\ BaseIsCurrent(p)
    /\ IsNew(a, proposal[p].after)
    /\ revisions' = [revisions EXCEPT ![a] = Append(@, proposal[p].after)]
    /\ current' = [current EXCEPT ![a] = next]
    /\ Publish([assets |-> Carried(Pin(a, next), LatestAssetPins), objects |-> Carried(NoPins, LatestObjectPins),
                origin |-> p, undoes |-> 0])
    /\ proposal' = [proposal EXCEPT ![p].state = "released"]
    /\ UNCHANGED <<version, content, rolling, appends>>

\* publishGovernedObject.
PublishGovernedObject(p) ==
    LET o == Target[p]
        next == version[o] + 1
    IN
    /\ o \in Object
    /\ proposal[p].state = "in_review"
    /\ content' = [content EXCEPT ![o] = proposal[p].after]
    /\ version' = [version EXCEPT ![o] = next]
    /\ Publish([assets |-> Carried(NoPins, LatestAssetPins), objects |-> Carried(Pin(o, next), LatestObjectPins),
                origin |-> p, undoes |-> 0])
    /\ proposal' = [proposal EXCEPT ![p].state = "released"]
    /\ UNCHANGED <<revisions, current, rolling, appends>>

-----------------------------------------------------------------------------
(* RollbackRelease plans outside the transaction, over rows that never     *)
(* change; RestoreRelease carries the plan out.                            *)

HasOrigin(t) == releases[t].origin # NoProposalID
NotRolledBack(t) == \A k \in DOMAIN releases : releases[k].undoes # t
IsLatest(t) == t = Len(releases)

\* planRestore: a publish put one target where it is, a rollback any number.
RestoredAssets(t) ==
    {a \in DOMAIN releases[t].assets : HasOrigin(t) => Target[releases[t].origin] = a}
RestoredObjects(t) ==
    {o \in DOMAIN releases[t].objects : HasOrigin(t) => Target[releases[t].origin] = o}

RestoredPin(t, a) ==
    IF ReleasesBefore(t, a) # {} THEN PinBefore(t, a) ELSE proposal[releases[t].origin].base

\* Otherwise RELEASE_PRIOR_STATE_UNKNOWN.
PriorStateKnown(t) ==
    \/ HasOrigin(t)
    \/ /\ \A a \in RestoredAssets(t) : ReleasesBefore(t, a) # {}
       /\ RestoredObjects(t) = {}

PlanRollback(op) ==
    LET t == Len(releases) IN
    /\ rolling[op] = 0
    /\ t # 0
    /\ NotRolledBack(t)
    /\ PriorStateKnown(t)
    /\ rolling' = [rolling EXCEPT ![op] = t]
    /\ UNCHANGED <<revisions, current, version, content, proposal, releases, appends, contentBefore>>

StillRollable(t) == IsLatest(t) /\ NotRolledBack(t)

\* restoreAssetRevision and restoreGovernedObject: what is to be restored is
\* where the release put it.
BugRestoresMovedAsset(t) == \A o \in RestoredObjects(t) : version[o] = releases[t].objects[o]
NotMoved(t) ==
    /\ \A a \in RestoredAssets(t) : current[a] = releases[t].assets[a]
    /\ \A o \in RestoredObjects(t) : version[o] = releases[t].objects[o]

\* ApplyInverseChangeSet: the value the change-set gives as the one before.
BugAppliesChangeSet(t) == proposal[releases[t].origin].after
RestoredContent(t) == proposal[releases[t].origin].before

RestoreRelease(op) ==
    LET t == rolling[op] IN
    /\ t # 0
    /\ StillRollable(t) /\ NotMoved(t)
    /\ current' = Over([a \in RestoredAssets(t) |-> RestoredPin(t, a)], current)
    /\ version' = Over([o \in RestoredObjects(t) |-> version[o] + 1], version)
    /\ content' = Over([o \in RestoredObjects(t) |-> RestoredContent(t)], content)
    /\ Publish([assets |-> Over([a \in RestoredAssets(t) |-> RestoredPin(t, a)], releases[t].assets),
                objects |-> Over([o \in RestoredObjects(t) |-> version[o] + 1], releases[t].objects),
                origin |-> NoProposalID, undoes |-> t])
    /\ rolling' = [rolling EXCEPT ![op] = 0]
    /\ UNCHANGED <<revisions, proposal, appends>>

\* A rollback that no longer applies ends in a conflict.
RestoreConflict(op) ==
    /\ rolling[op] # 0
    /\ ~(StillRollable(rolling[op]) /\ NotMoved(rolling[op]))
    /\ rolling' = [rolling EXCEPT ![op] = 0]
    /\ UNCHANGED <<revisions, current, version, content, proposal, releases, appends, contentBefore>>

-----------------------------------------------------------------------------
Next ==
    \/ \E a \in Asset : AppendRevision(a)
    \/ \E p \in Proposal :
        \/ OpenAssetProposal(p) \/ OpenObjectProposal(p)
        \/ PublishAssetRevision(p) \/ PublishGovernedObject(p)
    \/ \E op \in Operator : PlanRollback(op) \/ RestoreRelease(op) \/ RestoreConflict(op)

Spec == Init /\ [][Next]_vars

-----------------------------------------------------------------------------
(* Properties.                                                             *)

Proposed ==
    {NoProposal}
    \union [state: {"in_review", "released"}, base: Nat, after: Value]
    \union [state: {"in_review", "released"}, before: Value, after: Value]

IsManifest(release) ==
    /\ DOMAIN release.assets \subseteq Asset
    /\ \A a \in DOMAIN release.assets : release.assets[a] \in DOMAIN revisions[a]
    /\ DOMAIN release.objects \subseteq Object
    /\ \A o \in DOMAIN release.objects : release.objects[o] \in 1..version[o]
    /\ release.origin \in Proposal \union {NoProposalID}

\* Every variable holds values of its type; what is current, and what a
\* release pins, exists, and no asset has two revisions alike (asset_revisions,
\* release_assets, release_objects).
TypeOK ==
    /\ revisions \in [Asset -> Seq(Value)]
    /\ \A a \in Asset : IsInjective(revisions[a])
    /\ \A a \in Asset : current[a] \in DOMAIN revisions[a]
    /\ version \in [Object -> Nat]
    /\ content \in [Object -> Value]
    /\ proposal \in [Proposal -> Proposed]
    /\ Len(releases) <= MaxReleases
    /\ \A k \in DOMAIN releases : IsManifest(releases[k])
    /\ rolling \in [Operator -> 0..Len(releases)]
    /\ appends \in 0..MaxAppends
    /\ contentBefore \in Seq([Object -> Value]) /\ Len(contentBefore) = Len(releases)

InSomeRelease(a, revision) ==
    \E k \in DOMAIN releases : PinsAsset(k, a) /\ releases[k].assets[a] = revision

WrittenByRelease(a, revision) ==
    \E p \in Proposal :
        /\ Target[p] = a /\ proposal[p].state = "released"
        /\ proposal[p].after = revisions[a][revision]

\* The newest manifest is what the workspace runs on: it pins the version each
\* object has, and the revision each asset has unless that is an edit which no
\* release wrote or has pinned yet (PublishRelease and RestoreRelease beside
\* AppendCatalogRevision).
ManifestIsCurrent ==
    releases # <<>> =>
        LET latest == releases[Len(releases)] IN
        /\ \A o \in DOMAIN latest.objects : latest.objects[o] = version[o]
        /\ \A a \in DOMAIN latest.assets :
            \/ latest.assets[a] = current[a]
            \/ ~InSomeRelease(a, current[a]) /\ ~WrittenByRelease(a, current[a])

ContentAfter(k) == IF k = Len(releases) THEN content ELSE contentBefore[k+1]

\* A rollback undoes the release right before it, however many operators try,
\* and gives the objects the content they had before that release
\* (RollbackRelease: "restores the prior application state"), if the undone
\* proposal was drafted on that content.
RollbackRestoresContent ==
    \A k \in DOMAIN releases : releases[k].undoes # 0 =>
        LET t == releases[k].undoes
            stale == {o \in RestoredObjects(t) :
                        proposal[releases[t].origin].before # contentBefore[t][o]}
        IN  /\ t = k - 1
            /\ \A o \in Object \ stale : ContentAfter(k)[o] = contentBefore[t][o]

\* An edit that no release has published is never taken back: whatever moves
\* the asset on is a revision yet to be written, never a rollback
\* (restoreAssetRevision).
UnreleasedEditStays ==
    [][\A a \in Asset :
        ~InSomeRelease(a, current[a]) /\ current'[a] # current[a]
            => current'[a] \notin DOMAIN revisions[a]]_vars
=============================================================================
