------------------------------ MODULE MCJobQueue ------------------------------
(* Small instances of JobQueue for TLC.                                    *)
EXTENDS JobQueue

\* Two attempts, the second backing off longer than the first.
MCBackoff == [n \in 1..MaxAttempts |-> n]

=============================================================================
