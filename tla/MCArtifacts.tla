----------------------------- MODULE MCArtifacts -----------------------------
(* An instance of Artifacts for TLC. *)
EXTENDS Artifacts, TLC
CONSTANTS k1, k2, a, b, s1, s2, h1, h2

\* Two sources of one content; a source and its second set; two sources that
\* compete for the quota.
File(d, s) == [content |-> d, source |-> s, first |-> TRUE]
NextFile(d, s) == [content |-> d, source |-> s, first |-> FALSE]

Sharing == k1 :> File(a, s1) @@ k2 :> File(a, s2)
Replacing == k1 :> File(a, s1) @@ k2 :> NextFile(b, s1)
Competing == k1 :> File(a, s1) @@ k2 :> File(b, s2)
FileSets == {Sharing, Replacing, Competing}

Handlers == Permutations({h1, h2})
Quota == [files \in FileSets |-> IF files = Competing THEN 1 ELSE 2]
=============================================================================
