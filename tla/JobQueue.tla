------------------------------- MODULE JobQueue -------------------------------
(***************************************************************************)
(* The background-job queue: rows of the jobs table, the runtime_runs row *)
(* linked to a job, and the worker processes that reap, claim, renew and  *)
(* finish (application/jobs/worker.go, adapters/postgres/store.go,        *)
(* db/queries/jobs.sql).                                                  *)
(*                                                                        *)
(* Time is kept as countdowns.  leaseLeft[j] is leased_until minus the    *)
(* present, waitLeft[j] is available_at minus the present; a statement    *)
(* run with a timestamp read `lag' ticks ago compares them with -lag.     *)
(* Each transaction of the code is one atomic step.                       *)
(***************************************************************************)
EXTENDS Integers

CONSTANTS
    Job,            \* job rows (workspace and idempotency key)
    Linked,         \* the jobs that have a runtime_runs row
    Worker,         \* worker processes; a restarted one has a fresh owner
                    \* name, and nothing of its predecessor is left to use
                    \* the old one, so a slot stands for all its lives
    NoWorker,       \* lease_owner IS NULL
    MaxAttempts,    \* max_attempts
    LeaseDuration,  \* the lease, in ticks
    Backoff,        \* ticks to wait after attempt n failed
    MaxLag,         \* bound: a timestamp is at most this old when its
                    \* statement commits
    MaxCrashes      \* bound: worker crashes

ASSUME QueueAssumption ==
    /\ Linked \subseteq Job
    /\ NoWorker \notin Worker
    /\ MaxAttempts \in Nat \ {0}
    /\ LeaseDuration \in Nat
    /\ MaxLag \in Nat
    /\ MaxCrashes \in Nat
    /\ 2 * MaxLag < LeaseDuration
    /\ Backoff \in [1..MaxAttempts -> Nat]

VARIABLES
    job,        \* the row: status, attempt, lease_owner, last_error_code
    leaseLeft,  \* ticks until leased_until, meaningful while running
    waitLeft,   \* ticks until available_at, meaningful while claimable
    run,        \* the linked runtime run: state and attempt
    worker,     \* each process: where its loop is, and what it holds
    crashes     \* crashes so far

vars == <<job, leaseLeft, waitLeft, run, worker, crashes>>

Claimable == {"queued", "retryable"}
Finished == {"succeeded", "dead_letter"}
Statuses == {"absent", "running"} \union Claimable \union Finished
Errors == {"none", "lease_expired", "transient", "permanent"}
Outcomes == {"ok", "transient", "permanent"}

\* The terminal states a handler gives its run itself, and all of them.
HandlerVerdicts == {"succeeded", "degraded", "failed"}
SettledStates == HandlerVerdicts \union {"cancelled", "dead_letter"}
RunStates == {"none", "queued", "running"} \union SettledStates

\* A process that executes no job.
Without(pc, lag) == [pc |-> pc, job |-> "none", attempt |-> 0, lag |-> lag]
Idle == Without("idle", 0)
Down == Without("down", 0)

Init ==
    /\ job = [j \in Job |-> [status |-> "absent", attempt |-> 0,
                             owner |-> NoWorker, error |-> "none"]]
    /\ leaseLeft = [j \in Job |-> 0]
    /\ waitLeft = [j \in Job |-> 0]
    /\ run = [j \in Job |-> [state |-> "none", attempt |-> 0]]
    /\ worker = [w \in Worker |-> Idle]
    /\ crashes = 0

-----------------------------------------------------------------------------
(* The SQL conditions.                                                     *)

\* jobs.sql: attempt >= max_attempts.
Exhausted(j) == job[j].attempt >= MaxAttempts

\* jobs.sql: status = 'running' AND leased_until <= now.
BugReapsLiveLease(j, lag) == job[j].status = "running" /\ leaseLeft[j] <= lag
BugNeverExpires(j, lag) == FALSE
Expired(j, lag) == job[j].status = "running" /\ leaseLeft[j] <= -lag

\* jobs.sql: running, owned by w, leased_until > now.
BugNoOwnerFence(w, j, lag) == job[j].status = "running" /\ leaseLeft[j] > -lag
HoldsLease(w, j, lag) ==
    /\ job[j].status = "running"
    /\ job[j].owner = w
    /\ leaseLeft[j] > -lag

\* jobs.sql: queued or retryable, available_at <= now.
BugClaimsDeadLetter(j, lag) ==
    job[j].status \in Claimable \union {"dead_letter"} /\ waitLeft[j] <= -lag
Due(j, lag) == job[j].status \in Claimable /\ waitLeft[j] <= -lag

-----------------------------------------------------------------------------
(* projectJobTerminalState: what a job transition does to the linked run.  *)

\* The run state a row is projected to after a reap, a claim or a finish.
BugDeadLetterStaysQueued(status) ==
    CASE status = "running" -> "running"
      [] status = "succeeded" -> "succeeded"
      [] OTHER -> "queued"
ProjectedState(status) ==
    CASE status = "running" -> "running"
      [] status = "succeeded" -> "succeeded"
      [] status = "dead_letter" -> "dead_letter"
      [] OTHER -> "queued"

\* A job without a run projects nothing; a settled run keeps its state.
Projected(j, row) ==
    IF \/ run[j].state = "none"
       \/ run[j].state \in SettledStates /\ run[j].state # ProjectedState(row.status)
    THEN run[j]
    ELSE [state |-> ProjectedState(row.status), attempt |-> row.attempt]

\* The row after an attempt that ended without success.
Failed(j, error) ==
    [status |-> IF error = "permanent" \/ Exhausted(j) THEN "dead_letter" ELSE "retryable",
     attempt |-> job[j].attempt,
     owner |-> NoWorker,
     error |-> error]

Succeeded(j) == [status |-> "succeeded", attempt |-> job[j].attempt,
                 owner |-> NoWorker, error |-> "none"]

\* Row j becomes `row', with its countdowns, and its run follows.
Write(j, row, lease, wait) ==
    /\ job' = [job EXCEPT ![j] = row]
    /\ leaseLeft' = [leaseLeft EXCEPT ![j] = lease]
    /\ waitLeft' = [waitLeft EXCEPT ![j] = wait]
    /\ run' = [run EXCEPT ![j] = Projected(j, row)]

-----------------------------------------------------------------------------
(* Producers.                                                              *)

\* EnqueueJob returns the existing row when the idempotency key is taken.
\* The runtime run of a linked job is written in the same transaction.
Enqueue(j) ==
    /\ job' = IF job[j].status = "absent"
              THEN [job EXCEPT ![j].status = "queued"]
              ELSE job
    /\ run' = IF job[j].status = "absent" /\ j \in Linked
              THEN [run EXCEPT ![j].state = "queued"]
              ELSE run
    /\ UNCHANGED <<leaseLeft, waitLeft, worker, crashes>>

-----------------------------------------------------------------------------
(* Worker.RunOne: reap, claim, execute under a heartbeat, record.          *)

\* ReapExpiredJobs, with the timestamp RunOne read at its start.
Reap(w) ==
    /\ worker[w].pc = "idle"
    /\ \E lag \in 0..MaxLag :
        LET expired == {j \in Job : Expired(j, lag)}
            row(j) == Failed(j, "lease_expired")
        IN /\ job' = [j \in Job |-> IF j \in expired THEN row(j) ELSE job[j]]
           /\ run' = [j \in Job |-> IF j \in expired THEN Projected(j, row(j)) ELSE run[j]]
           /\ leaseLeft' = [j \in Job |-> IF j \in expired THEN 0 ELSE leaseLeft[j]]
           /\ waitLeft' = [j \in Job |->
                IF j \in expired /\ ~Exhausted(j) THEN -lag ELSE waitLeft[j]]
           /\ worker' = [worker EXCEPT ![w] = Without("reaped", lag)]
    /\ UNCHANGED crashes

\* ClaimJob with the same timestamp.  FOR UPDATE SKIP LOCKED lets a claim
\* pass over an older row that another transaction holds, so any due row.
Claim(w) ==
    /\ worker[w].pc = "reaped"
    /\ \E j \in Job :
        /\ Due(j, worker[w].lag)
        /\ Write(j, [status |-> "running", attempt |-> job[j].attempt + 1,
                     owner |-> w, error |-> "none"],
                 LeaseDuration - worker[w].lag, 0)
        /\ worker' = [worker EXCEPT ![w] = [pc |-> "running", job |-> j,
                                            attempt |-> job[j].attempt + 1, lag |-> 0]]
    /\ UNCHANGED crashes

NothingToClaim(w) ==
    /\ worker[w].pc = "reaped"
    /\ \A j \in Job : ~Due(j, worker[w].lag)
    /\ worker' = [worker EXCEPT ![w] = Idle]
    /\ UNCHANGED <<job, leaseLeft, waitLeft, run, crashes>>

\* The ticker in executeWithLease.  A renewal never moves leased_until back,
\* as it is timed after the one before it.  A lost lease ends the process:
\* RunOne's error ends Run, and the first lane to end stops the others.
Heartbeat(w) ==
    /\ worker[w].pc = "running"
    /\ \E lag \in 0..MaxLag :
        LET j == worker[w].job IN
        \/ /\ HoldsLease(w, j, lag)
           /\ LeaseDuration - lag >= leaseLeft[j]
           /\ leaseLeft' = [leaseLeft EXCEPT ![j] = LeaseDuration - lag]
           /\ UNCHANGED worker
        \/ /\ ~HoldsLease(w, j, lag)
           /\ worker' = [worker EXCEPT ![w] = Down]
           /\ UNCHANGED leaseLeft
    /\ UNCHANGED <<job, waitLeft, run, crashes>>

\* A handler may settle its run in its own transaction, which first locks
\* the job row and checks the lease against the database clock.
HandlerSettlesRun(w) ==
    LET j == worker[w].job IN
    /\ worker[w].pc = "running"
    /\ HoldsLease(w, j, 0)
    /\ run[j].state = "running"
    /\ \E verdict \in HandlerVerdicts : run' = [run EXCEPT ![j].state = verdict]
    /\ UNCHANGED <<job, leaseLeft, waitLeft, worker, crashes>>

\* The handler returned: MarkJobSucceeded or MarkJobFailedWithDisposition.
\* ErrLeaseLost ends the process like a failed heartbeat.
Finish(w) ==
    /\ worker[w].pc = "running"
    /\ \E lag \in 0..MaxLag, outcome \in Outcomes :
        LET j == worker[w].job
            row == IF outcome = "ok" THEN Succeeded(j) ELSE Failed(j, outcome)
        IN IF HoldsLease(w, j, lag)
           THEN /\ Write(j, row, 0, IF row.status = "retryable"
                                    THEN Backoff[job[j].attempt] - lag ELSE 0)
                /\ worker' = [worker EXCEPT ![w] = Idle]
           ELSE /\ worker' = [worker EXCEPT ![w] = Down]
                /\ UNCHANGED <<job, leaseLeft, waitLeft, run>>
    /\ UNCHANGED crashes

-----------------------------------------------------------------------------
(* The environment: time, crashes and restarts.                            *)

CountDown(n) == IF n > -MaxLag THEN n - 1 ELSE n

\* The bound MaxLag keeps time from passing a process that is between the
\* two transactions it times with one reading of the clock.
Tick ==
    /\ \A w \in Worker : worker[w].lag < MaxLag \/ worker[w].pc # "reaped"
    /\ leaseLeft' = [j \in Job |->
        IF job[j].status = "running" THEN CountDown(leaseLeft[j]) ELSE leaseLeft[j]]
    /\ waitLeft' = [j \in Job |->
        IF job[j].status \in Claimable THEN CountDown(waitLeft[j]) ELSE waitLeft[j]]
    /\ worker' = [w \in Worker |->
        IF worker[w].pc = "reaped" THEN [worker[w] EXCEPT !.lag = @ + 1] ELSE worker[w]]
    /\ UNCHANGED <<job, run, crashes>>

Crash(w) ==
    /\ worker[w].pc # "down"
    /\ crashes < MaxCrashes
    /\ crashes' = crashes + 1
    /\ worker' = [worker EXCEPT ![w] = Down]
    /\ UNCHANGED <<job, leaseLeft, waitLeft, run>>

Restart(w) ==
    /\ worker[w].pc = "down"
    /\ worker' = [worker EXCEPT ![w] = Idle]
    /\ UNCHANGED <<job, leaseLeft, waitLeft, run, crashes>>

-----------------------------------------------------------------------------

Next ==
    \/ \E j \in Job : Enqueue(j)
    \/ \E w \in Worker :
        \/ Reap(w)
        \/ Claim(w)
        \/ NothingToClaim(w)
        \/ Heartbeat(w)
        \/ HandlerSettlesRun(w)
        \/ Finish(w)
        \/ Crash(w)
        \/ Restart(w)
    \/ Tick

Spec == Init /\ [][Next]_vars

\* Some row is waiting for a moment that has not come.
AwaitsTime ==
    \E j \in Job : \/ job[j].status = "running" /\ leaseLeft[j] > -MaxLag
                   \/ job[j].status \in Claimable /\ waitLeft[j] > -MaxLag

\* Time passes whatever the workers do (strong fairness of Tick would not say
\* so: workers that always hold some timestamp at the bound disable Tick);
\* Run loops until its process ends; a handler ends, as its context is
\* cancelled with the lease; a supervisor restarts the process.
Fairness ==
    /\ []<>(~AwaitsTime) \/ []<><<Tick>>_vars
    /\ \A w \in Worker :
        /\ WF_vars(Reap(w))
        /\ WF_vars(Claim(w) \/ NothingToClaim(w))
        /\ WF_vars(Finish(w))
        /\ WF_vars(Restart(w))

FairSpec == Spec /\ Fairness

-----------------------------------------------------------------------------
(* Properties.                                                             *)

\* Types, and the CHECK constraints on the rows: a lease exactly while
\* running, and attempt <= max_attempts.
TypeOK ==
    /\ job \in [Job -> [status: Statuses, attempt: 0..MaxAttempts,
                        owner: Worker \union {NoWorker}, error: Errors]]
    /\ \A j \in Job : job[j].status = "running" <=> job[j].owner # NoWorker
    /\ leaseLeft \in [Job -> Int]
    /\ waitLeft \in [Job -> Int]
    /\ run \in [Job -> [state: RunStates, attempt: 0..MaxAttempts]]
    /\ worker \in [Worker -> [pc: {"idle", "reaped", "running", "down"},
                              job: Job \union {"none"},
                              attempt: 0..MaxAttempts, lag: 0..MaxLag]]
    /\ \A w \in Worker : worker[w].pc = "running" => worker[w].job \in Job
    /\ crashes \in 0..MaxCrashes

\* A row that can be claimed has an attempt left, so that the claim's
\* attempt + 1 stays within jobs_attempt_bound; a dead letter had none left
\* or failed for good (ReapExpiredJobs and MarkJobFailed decide both).
RetryBudget ==
    \A j \in Job :
        /\ job[j].status \in Claimable => job[j].attempt < MaxAttempts
        /\ job[j].status = "dead_letter" =>
             job[j].error = "permanent" \/ job[j].attempt = MaxAttempts

\* Only the process executing a job's latest attempt records its result; a
\* worker whose lease went to another cannot finish the job for it.
ResultOfLatestAttempt ==
    [][\A j \in Job :
        /\ job[j].status = "running"
        /\ job'[j].status # "running"
        /\ job'[j].error # "lease_expired"
        => \E w \in Worker : /\ worker[w].pc = "running"
                             /\ worker[w].job = j
                             /\ worker[w].attempt = job[j].attempt
                             /\ worker'[w].pc = "idle"]_vars

\* While a lease is unexpired nobody but its holder changes the row, however
\* old the timestamps that reapers and claimers compare with.
LiveLeaseIsUndisturbed ==
    [][\A j \in Job :
        job[j].status = "running" /\ leaseLeft[j] > 0 /\ job'[j] # job[j]
        => LET w == job[j].owner
           IN worker[w].pc = "running" /\ worker[w].job = j /\ worker'[w].pc = "idle"]_vars

\* The run operators watch agrees with the job row after every transition,
\* unless its handler settled it: no run is left running or queued once its
\* job has ended, and a dead letter shows on a run only when the job is one.
RunFollowsJob ==
    \A j \in Job : run[j].state \notin HandlerVerdicts \union {"none"} =>
        /\ run[j].attempt = job[j].attempt
        /\ job[j].status \in Claimable <=> run[j].state = "queued"
        /\ job[j].status \notin Claimable => run[j].state = job[j].status

\* A run its handler has settled, or that ended with its job, is never
\* reopened by a later expiry, retry or dead letter.
SettledRunIsFinal ==
    [][\A j \in Job : run[j].state \in SettledStates => run'[j].state = run[j].state]_vars

\* The queue implements the contract the job kinds are built on.
ContractPhase(status) ==
    CASE status \in Claimable -> "waiting"
      [] status = "running" -> "active"
      [] status = "dead_letter" -> "dead"
      [] OTHER -> status

Contract == INSTANCE JobContract WITH
    phase <- [j \in Job |-> ContractPhase(job[j].status)],
    tries <- [j \in Job |-> job[j].attempt]

ImplementsContract == Contract!ContractSpec

\* Every enqueued job ends, whatever crashes, lost leases and failed
\* attempts lie between (reaping, the attempt ceiling and the restarts).
EveryJobEnds ==
    \A j \in Job : job[j].status # "absent" ~> job[j].status \in Finished

=============================================================================
