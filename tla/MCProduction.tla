---------------------------- MODULE MCProduction ----------------------------
(* Small instances of Production for TLC.                                  *)
EXTENDS Production, TLC

\* Operations, lanes and those with the same rights are interchangeable.
MCSymmetry == Permutations(Operation) \union Permutations(Author) \union Permutations(Worker)

\* Some operations change everything, some one identity of a kind.
MCProposed == {Target, Asset}

=============================================================================
