-------------------------- MODULE MCProposalReview --------------------------
EXTENDS ProposalReview, TLC

CONSTANTS p1, p2, alice, bob

\* Alice wrote everything.
MCAuthor == [p \in Proposal |-> alice]

\* The proposals go into one batch.
MCCluster == [p \in Proposal |-> "same"]

\* Cluster and Author tell nobody but alice apart.
MCSymmetry == Permutations(Proposal) \union Permutations(Batch) \union Permutations(Request)
    \union Permutations(Principal \ {alice})
=============================================================================
