--------------------------- MODULE MCDiscoveryRun ---------------------------
(* Small instances of DiscoveryRun for TLC.                                *)
EXTENDS DiscoveryRun, TLC

CONSTANT d1

\* A dataset is altered while another vanishes, or both are restored.
MCContents == {[o \in Object |-> 1], [o \in Object |-> IF o = d1 THEN 2 ELSE Absent]}

RunSymmetry == Permutations(Run)

=============================================================================
