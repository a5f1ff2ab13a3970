------------------------------ MODULE Proposals ------------------------------
(***************************************************************************)
(* What the modules about the decision on proposals and about their        *)
(* release have in common.                                                 *)
(***************************************************************************)

CONSTANT Proposal   \* proposals.id

=============================================================================
