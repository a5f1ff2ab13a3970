----------------------------- MODULE MCEmbedding -----------------------------
(* Small instances of Embedding for TLC.                                   *)
EXTENDS Embedding

CONSTANTS h1, h2

\* The text of one asset changes with every release.
MCStable == {1}

\* Two lanes, retries and faults; and a search while one lane builds and
\* models and releases, or grants, change.
MCMixes ==
    LET Building == [handlers |-> {h1, h2}, attempts |-> 2, releases |-> 1, models |-> 1, grants |-> 0, searches |-> 0, faults |-> 2]
        Searching == [handlers |-> {h1}, attempts |-> 1, releases |-> 2, models |-> 2, grants |-> 0, searches |-> 1, faults |-> 0]
    IN  {Building, Searching, [Searching EXCEPT !.releases = 1, !.models = 1, !.grants = 1]}

=============================================================================
