----------------------------- MODULE JobContract -----------------------------
(***************************************************************************)
(* What the background-job framework promises to everything built on it:  *)
(* a submitted job is attempted at most MaxAttempts times, one attempt at *)
(* a time, and ends either succeeded or dead.  No workers, clocks, leases *)
(* or rows: JobQueue.tla has those, and implements this module.           *)
(***************************************************************************)
EXTENDS Naturals

CONSTANTS
    Job,          \* the jobs that may ever be submitted
    MaxAttempts   \* max_attempts of every job

VARIABLES
    phase,        \* where each job stands
    tries         \* attempts started so far

contractVars == <<phase, tries>>

Phases == {"absent", "waiting", "active", "succeeded", "dead"}

ContractInit ==
    /\ phase = [j \in Job |-> "absent"]
    /\ tries = [j \in Job |-> 0]

Submit(j) ==
    /\ phase[j] = "absent"
    /\ phase' = [phase EXCEPT ![j] = "waiting"]
    /\ UNCHANGED tries

Attempt(j) ==
    /\ phase[j] = "waiting"
    /\ tries[j] < MaxAttempts
    /\ phase' = [phase EXCEPT ![j] = "active"]
    /\ tries' = [tries EXCEPT ![j] = @ + 1]

Succeed(j) ==
    /\ phase[j] = "active"
    /\ phase' = [phase EXCEPT ![j] = "succeeded"]
    /\ UNCHANGED tries

\* An attempt that failed for good ends the job whatever attempts are left.
FailForGood(j) ==
    /\ phase[j] = "active"
    /\ phase' = [phase EXCEPT ![j] = "dead"]
    /\ UNCHANGED tries

AfterLostAttempt(j) == IF tries[j] = MaxAttempts THEN "dead" ELSE "waiting"

\* Attempts that failed or were lost; one sweep may find several.
LoseAttempts(S) ==
    /\ S # {}
    /\ \A j \in S : phase[j] = "active"
    /\ phase' = [j \in Job |-> IF j \in S THEN AfterLostAttempt(j) ELSE phase[j]]
    /\ UNCHANGED tries

ContractNext ==
    \/ \E j \in Job : Submit(j) \/ Attempt(j) \/ Succeed(j) \/ FailForGood(j)
    \/ \E S \in SUBSET Job : LoseAttempts(S)

ContractSpec == ContractInit /\ [][ContractNext]_contractVars

=============================================================================
