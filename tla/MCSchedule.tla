---------------------------- MODULE MCSchedule ----------------------------
(* An instance of Schedule for TLC. *)
EXTENDS Schedule
CONSTANTS w1, w2, c1

\* A clock that passes over minute 2, and one that shows 1, 2 and 3 twice.
Spring == [t \in Instant |-> IF t < 2 THEN t ELSE t + 1]
Autumn == [t \in Instant |-> IF t < 3 THEN t + 1 ELSE t - 2]
Clocks == {Spring, Autumn}

Crons == {{1, 2, 3}, {3, 4}}
=============================================================================
