------------------------- MODULE MCReleaseManifest --------------------------
EXTENDS ReleaseManifest, TLC

CONSTANTS a1, o1, p1, p2, p3, p4

\* Two proposals compete for an asset, and two for an object.
MCTarget == p1 :> a1 @@ p2 :> a1 @@ p3 :> o1 @@ p4 :> o1

MCSymmetry == Permutations(Value) \union Permutations(Operator)
=============================================================================
