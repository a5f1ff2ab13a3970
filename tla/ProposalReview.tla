--------------------------- MODULE ProposalReview ---------------------------
(***************************************************************************)
(* The decision on proposals that wait in review: expert reviews           *)
(* (review.go), review batches (review.go, reviewbatch.go) and the gates   *)
(* of a publish (publishing.go).  Any number of requests are served at     *)
(* once; what a request reads before its transaction may be stale when it  *)
(* writes.  What a publish does to assets is the subject of                *)
(* ReleaseManifest.                                                        *)
(***************************************************************************)
EXTENDS Integers, FiniteSets, Bags, Functions, Proposals

CONSTANTS
    Principal,      \* hold proposal.review and release.publish
    Author,         \* proposals.created_by, per proposal
    Cluster,        \* what a batch groups by: target type, diff, matched rule
    Batch,          \* bound: review batches ever assembled
    Request,        \* requests served at once
    MaxCrashes      \* bound: requests that die between two calls

Verdict == {"approved", "rejected"}
Nobody == "nobody"

ASSUME ReviewAssumption ==
    /\ Author \in [Proposal -> Principal]
    /\ DOMAIN Cluster = Proposal
    /\ Nobody \notin Principal
    /\ MaxCrashes \in Nat

VARIABLES
    state,          \* proposals.state
    escalated,      \* proposals whose decision, taken now, would be expert
    routing,        \* of the latest policy decision recorded
    reviews,        \* reviews, a bag of rows
    batch,          \* review_batches and their members
    releasedBy,     \* releases.published_by, per proposal
    request,        \* the requests being served
    crashes

reviewVars == <<state, escalated, routing, reviews, batch, releasedBy, request, crashes>>

Idle == [at |-> "idle"]
NoBatch == [status |-> "none", members |-> {}, split |-> {}, by |-> Nobody]

Review == [p: Proposal, who: Principal, channel: {"expert", "batch"}, verdict: Verdict]

ReviewInit ==
    /\ state = [p \in Proposal |-> "in_review"]
    /\ routing \in [Proposal -> {"batch", "expert"}]
    /\ escalated = {p \in Proposal : routing[p] = "expert"}
    /\ reviews = EmptyBag
    /\ batch = [b \in Batch |-> NoBatch]
    /\ releasedBy = [p \in Proposal |-> Nobody]
    /\ request = [r \in Request |-> Idle]
    /\ crashes = 0

Becomes(r, doing) == request' = [request EXCEPT ![r] = doing]
Return(r) == Becomes(r, Idle)
Proceed(r, at) == request' = [request EXCEPT ![r].at = at]

Record(review) == reviews' = reviews (+) SetToBag({review})
Recorded(p) == {v \in DOMAIN reviews : v.p = p}

-----------------------------------------------------------------------------
(* ReviewProposal, the expert channel.                                     *)

StartReview(r) ==
    /\ request[r] = Idle
    /\ \E p \in Proposal, who \in Principal, verdict \in Verdict :
        /\ state[p] = "in_review"
        /\ Author[p] # who
        /\ Becomes(r, [at |-> "count", p |-> p, who |-> who, verdict |-> verdict])
    /\ UNCHANGED <<state, escalated, routing, reviews, batch, releasedBy, crashes>>

\* CountProposalReviews: the reviewer has spoken on this channel already.
HasReviewed(p, who) == \E v \in Recorded(p) : v.who = who /\ v.channel = "expert"

CountReviews(r) ==
    LET q == request[r] IN
    /\ q.at = "count"
    /\ IF HasReviewed(q.p, q.who) THEN Return(r) ELSE Proceed(r, "insert")
    /\ UNCHANGED <<state, escalated, routing, reviews, batch, releasedBy, crashes>>

\* RecordReview, whatever became of the proposal.
InsertReview(r) ==
    LET q == request[r] IN
    /\ q.at = "insert"
    /\ Record([p |-> q.p, who |-> q.who, channel |-> "expert", verdict |-> q.verdict])
    /\ IF q.verdict = "rejected" THEN Proceed(r, "transition") ELSE Return(r)
    /\ UNCHANGED <<state, escalated, routing, batch, releasedBy, crashes>>

\* The state machine's answer; a settled proposal is frozen.
BugRejectsAnything(p) == [state EXCEPT ![p] = "rejected"]
RejectedState(p) == [state EXCEPT ![p] = IF @ = "in_review" THEN "rejected" ELSE @]

Transition(r) ==
    /\ request[r].at = "transition"
    /\ state' = RejectedState(request[r].p)
    /\ Return(r)
    /\ UNCHANGED <<escalated, routing, reviews, batch, releasedBy, crashes>>

-----------------------------------------------------------------------------
(* CreateReviewBatches.                                                    *)

Active(b) == batch[b].members \ batch[b].split
InOpenBatch(p) == \E b \in Batch : batch[b].status = "open" /\ p \in Active(b)

Eligible == {p \in Proposal : state[p] = "in_review" /\ routing[p] = "batch" /\ ~InOpenBatch(p)}

ListEligible(r) ==
    /\ request[r] = Idle
    /\ Eligible # {}
    /\ Becomes(r, [at |-> "insert_members", members |-> Eligible])
    /\ UNCHANGED <<state, escalated, routing, reviews, batch, releasedBy, crashes>>

\* The trigger on each member row sees committed rows only.
MayJoin(members) == \A p \in members : state[p] = "in_review" /\ ~InOpenBatch(p)

InsertMembers(r) ==
    /\ request[r].at = "insert_members"
    /\ IF MayJoin(request[r].members) THEN Proceed(r, "commit_batches") ELSE Return(r)
    /\ UNCHANGED <<state, escalated, routing, reviews, batch, releasedBy, crashes>>

\* One batch for each cluster.
Clusters(members) == {{p \in members : Cluster[p] = Cluster[q]} : q \in members}

CommitBatches(r) ==
    /\ request[r].at = "commit_batches"
    /\ \E of \in Injection(Clusters(request[r].members), {b \in Batch : batch[b] = NoBatch}) :
        batch' = [b \in Batch |->
            IF b \in Range(of)
            THEN [NoBatch EXCEPT !.status = "open",
                                 !.members = CHOOSE c \in DOMAIN of : of[c] = b]
            ELSE batch[b]]
    /\ Return(r)
    /\ UNCHANGED <<state, escalated, routing, reviews, releasedBy, crashes>>

-----------------------------------------------------------------------------
(* ConfirmReviewBatch.                                                     *)

\* A blocker turns up: the next decision on the proposal routes to an expert.
Escalate(p) ==
    /\ state[p] = "in_review"
    /\ escalated' = escalated \union {p}
    /\ UNCHANGED <<state, routing, reviews, batch, releasedBy, request, crashes>>

StartConfirm(r) ==
    /\ request[r] = Idle
    /\ \E b \in Batch, who \in Principal, verdict \in Verdict :
        /\ batch[b].status = "open"
        /\ Becomes(r, [at |-> "refresh", b |-> b, who |-> who, verdict |-> verdict])
    /\ UNCHANGED <<state, escalated, routing, reviews, batch, releasedBy, crashes>>

\* refreshMemberDecisions records the decision as it is now, for one member
\* after the other; a decision recorded twice is the same.
RefreshedRouting(members) ==
    [p \in Proposal |-> IF p \in members \intersect escalated /\ state[p] = "in_review"
                        THEN "expert" ELSE routing[p]]

RefreshDecisions(r) ==
    /\ request[r].at = "refresh"
    /\ routing' = RefreshedRouting(batch[request[r].b].members)
    /\ Proceed(r, "decide")
    /\ UNCHANGED <<state, escalated, reviews, batch, releasedBy, crashes>>

SplitOut(b) == {p \in batch[b].members : state[p] # "in_review" \/ routing[p] # "batch"}

\* An author among the members that remain refuses the whole confirm.
BugAuthorConfirms(b, who) == Author = Author
MayDecide(b, who) == \A p \in batch[b].members \ SplitOut(b) : Author[p] # who

BugRejectsSplit(b, verdict) ==
    [p \in Proposal |-> IF verdict = "rejected" /\ p \in SplitOut(b) THEN "rejected" ELSE state[p]]
DecidedState(b, verdict) ==
    [p \in Proposal |-> IF verdict = "rejected" /\ p \in batch[b].members \ SplitOut(b)
                        THEN "rejected" ELSE state[p]]

Conclusion(verdict) == IF verdict = "rejected" THEN "rejected" ELSE "confirmed"

\* One transaction, over the locked batch, members and proposals.
DecideBatch(r) ==
    LET q == request[r]
        applied == batch[q.b].members \ SplitOut(q.b)
    IN
    /\ q.at = "decide"
    /\ IF batch[q.b].status = "open" /\ applied # {} /\ MayDecide(q.b, q.who)
       THEN /\ reviews' = reviews (+) SetToBag({[p |-> p, who |-> q.who, channel |-> "batch",
                                                 verdict |-> q.verdict] : p \in applied})
            /\ state' = DecidedState(q.b, q.verdict)
            /\ batch' = [batch EXCEPT ![q.b].status = Conclusion(q.verdict),
                                      ![q.b].split = SplitOut(q.b),
                                      ![q.b].by = q.who]
       ELSE UNCHANGED <<reviews, state, batch>>
    /\ Return(r)
    /\ UNCHANGED <<escalated, routing, releasedBy, crashes>>

-----------------------------------------------------------------------------
(* PublishProposal.                                                        *)

Approvals(p) == {v \in Recorded(p) : v.verdict = "approved"}
NumApprovals(p) ==
    LET rows == [v \in Approvals(p) |-> reviews[v]] IN BagCardinality(rows)

GatesPass(p, who) ==
    /\ NumApprovals(p) >= 1
    /\ Author[p] # who
    /\ ~(NumApprovals(p) = 1 /\ \E v \in Approvals(p) : v.who = who)

\* The gates, read one after the other outside the transaction; the rows they
\* read are never changed or removed.
PassGates(r) ==
    /\ request[r] = Idle
    /\ \E p \in Proposal, who \in Principal :
        /\ state[p] = "in_review"
        /\ GatesPass(p, who)
        /\ Becomes(r, [at |-> "publish", p |-> p, who |-> who])
    /\ UNCHANGED <<state, escalated, routing, reviews, batch, releasedBy, crashes>>

\* PublishRelease looks at the state again, under the proposal's lock.
StillInReview(p) == state[p] = "in_review"

PublishRelease(r) ==
    LET q == request[r] IN
    /\ q.at = "publish"
    /\ IF StillInReview(q.p)
       THEN /\ state' = [state EXCEPT ![q.p] = "released"]
            /\ releasedBy' = [releasedBy EXCEPT ![q.p] = q.who]
       ELSE UNCHANGED <<state, releasedBy>>
    /\ Return(r)
    /\ UNCHANGED <<escalated, routing, reviews, batch, crashes>>

-----------------------------------------------------------------------------

\* A request is cut off, with what it has committed.
Crash(r) ==
    /\ request[r] # Idle
    /\ crashes < MaxCrashes
    /\ crashes' = crashes + 1
    /\ Return(r)
    /\ UNCHANGED <<state, escalated, routing, reviews, batch, releasedBy>>

ReviewNext ==
    \/ \E r \in Request :
        \/ StartReview(r) \/ CountReviews(r) \/ InsertReview(r) \/ Transition(r)
        \/ ListEligible(r) \/ InsertMembers(r) \/ CommitBatches(r)
        \/ StartConfirm(r) \/ RefreshDecisions(r) \/ DecideBatch(r)
        \/ PassGates(r) \/ PublishRelease(r)
        \/ Crash(r)
    \/ \E p \in Proposal : Escalate(p)

ReviewSpec == ReviewInit /\ [][ReviewNext]_reviewVars

-----------------------------------------------------------------------------
(* Properties.                                                             *)

Doing ==
    {Idle}
    \union [at: {"count", "insert", "transition"}, p: Proposal, who: Principal, verdict: Verdict]
    \union [at: {"insert_members", "commit_batches"}, members: SUBSET Proposal]
    \union [at: {"refresh", "decide"}, b: Batch, who: Principal, verdict: Verdict]
    \union [at: {"publish"}, p: Proposal, who: Principal]

\* Every variable holds values of its type; an author has no review of his
\* own proposal (review.go, DecideBatchMemberOutcome).
ReviewTypeOK ==
    /\ state \in [Proposal -> {"in_review", "rejected", "released"}]
    /\ escalated \subseteq Proposal
    /\ routing \in [Proposal -> {"batch", "expert"}]
    /\ IsABag(reviews)
    /\ DOMAIN reviews \subseteq {v \in Review : v.who # Author[v.p]}
    /\ batch \in [Batch -> [status: {"none", "open", "confirmed", "rejected"},
                            members: SUBSET Proposal, split: SUBSET Proposal,
                            by: Principal \union {Nobody}]]
    /\ releasedBy \in [Proposal -> Principal \union {Nobody}]
    /\ request \in [Request -> Doing]
    /\ crashes \in 0..MaxCrashes

\* A decision is final: a proposal once released or rejected stays so, though
\* a rejection and a publish of it, or two rejections, run side by side
\* (Transition, DecideBatch, PublishRelease).
DecisionIsFinal ==
    [][\A p \in Proposal : state[p] # "in_review" => state'[p] = state[p]]_reviewVars

\* A decided batch is the record of what was decided: each member it did not
\* split out has the reviewer's batch review, and is rejected if the batch is
\* (ConfirmReviewBatch in reviewbatch.go).
BatchSpeaksForItsMembers ==
    \A b \in Batch : batch[b].status \in {"confirmed", "rejected"} =>
        /\ Active(b) # {}
        /\ \A p \in Active(b) :
            /\ \E v \in Recorded(p) :
                /\ v.channel = "batch" /\ v.who = batch[b].by
                /\ batch[b].status = Conclusion(v.verdict)
            /\ batch[b].status = "rejected" => state[p] = "rejected"

=============================================================================
