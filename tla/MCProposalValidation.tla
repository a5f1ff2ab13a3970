------------------------ MODULE MCProposalValidation ------------------------
(* Small instances of ProposalValidation for TLC.                          *)
EXTENDS ProposalValidation, TLC

\* The change-set is clean, or its reference dangles for the second validator.
MCWorlds == {{}, {2}}

ClientSymmetry == Permutations(Client)

=============================================================================
