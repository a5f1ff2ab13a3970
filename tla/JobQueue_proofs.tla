---------------------------- MODULE JobQueue_proofs ----------------------------
(***************************************************************************)
(* Proofs about JobQueue, for every number of jobs, workers, attempts,     *)
(* lease length and timestamp lag.                                         *)
(***************************************************************************)
EXTENDS JobQueue, TLAPS

\* The fence is the owner name alone, not the attempt number: whoever passes
\* it is still executing the attempt the row is in.
OwnerIsLatestAttempt ==
    \A w \in Worker, j \in Job :
        /\ worker[w].pc = "running"
        /\ worker[w].job = j
        /\ job[j].status = "running"
        /\ job[j].owner = w
        => worker[w].attempt = job[j].attempt

\* A running row has an attempt to its name; a job not yet enqueued has no run.
Started ==
    \A j \in Job :
        /\ job[j].status = "running" => job[j].attempt >= 1
        /\ job[j].status = "absent" =>
             job[j].attempt = 0 /\ run[j].attempt = 0 /\ run[j].state = "none"

\* The inductive invariant.
IInv == TypeOK /\ RetryBudget /\ RunFollowsJob /\ OwnerIsLatestAttempt /\ Started

Rows == [status: Statuses, attempt: 0..MaxAttempts,
         owner: Worker \union {NoWorker}, error: Errors]

-----------------------------------------------------------------------------
(* The rows the statements write.                                          *)

\* The row a failed or expired attempt leaves is again a row of the table,
\* claimable only with an attempt left.
LEMMA FailedRow ==
    ASSUME TypeOK, NEW j \in Job, job[j].status = "running",
           NEW error \in {"lease_expired", "transient", "permanent"}
    PROVE  LET row == Failed(j, error)
           IN /\ row \in Rows
              /\ row.status \in {"dead_letter", "retryable"}
              /\ row.owner = NoWorker
              /\ row.error = error
              /\ row.attempt = job[j].attempt
              /\ row.status = "retryable" => row.attempt < MaxAttempts
              /\ row.status = "dead_letter" =>
                    row.error = "permanent" \/ row.attempt = MaxAttempts
<1> DEFINE status == IF error = "permanent" \/ Exhausted(j) THEN "dead_letter" ELSE "retryable"
           row == [status |-> status, attempt |-> job[j].attempt,
                   owner |-> NoWorker, error |-> error]
<1>1. job[j] \in Rows
  BY DEF TypeOK, Rows
<1>2. Failed(j, error) = row
  BY DEF Failed
<1>3. status \in {"dead_letter", "retryable"}
  OBVIOUS
<1>4. row \in Rows
  BY <1>1, <1>3 DEF Rows, Statuses, Errors, Claimable, Finished
<1>5. status = "retryable" => job[j].attempt < MaxAttempts
  BY <1>1, QueueAssumption DEF Exhausted, Rows
<1>6. status = "dead_letter" => error = "permanent" \/ job[j].attempt = MaxAttempts
  BY <1>1, QueueAssumption DEF Exhausted, Rows
<1>7. QED
  BY <1>2, <1>3, <1>4, <1>5, <1>6

\* A run that follows its job still does after the row and its projection
\* are written together.
LEMMA ProjectionFollows ==
    ASSUME TypeOK, RunFollowsJob, NEW j \in Job, NEW row \in Rows,
           job[j].status \in {"running"} \union Claimable,
           row.status \in {"running", "queued", "retryable", "succeeded", "dead_letter"}
    PROVE  LET r == Projected(j, row)
           IN /\ r \in [state: RunStates, attempt: 0..MaxAttempts]
              /\ run[j].state \in SettledStates => r.state = run[j].state
              /\ r.state \notin HandlerVerdicts \union {"none"} =>
                    /\ r.attempt = row.attempt
                    /\ row.status \in Claimable <=> r.state = "queued"
                    /\ row.status \notin Claimable => r.state = row.status
  BY DEF TypeOK, RunFollowsJob, Projected, ProjectedState, Rows, RunStates, SettledStates,
         HandlerVerdicts, Statuses, Claimable, Finished

\* What a row written over row j and its run owe to the invariant.
Fits(row) ==
    /\ row \in Rows
    /\ row.status = "running" <=> row.owner # NoWorker
    /\ row.status \in {"running", "queued", "retryable", "succeeded", "dead_letter"}
    /\ row.status \in Claimable => row.attempt < MaxAttempts
    /\ row.status = "dead_letter" => row.error = "permanent" \/ row.attempt = MaxAttempts
    /\ row.status = "running" => row.attempt >= 1

\* Rewriting any set of running or claimable rows keeps the row part of the
\* invariant.
LEMMA RowsKeepInvariant ==
    ASSUME IInv, NEW S \in SUBSET Job, NEW row \in [Job -> Rows],
           \A j \in S : job[j].status \in {"running"} \union Claimable,
           \A j \in S : Fits(row[j]),
           job' = [j \in Job |-> IF j \in S THEN row[j] ELSE job[j]],
           run' = [j \in Job |-> IF j \in S THEN Projected(j, row[j]) ELSE run[j]]
    PROVE  /\ job' \in [Job -> Rows]
           /\ \A j \in Job : job'[j].status = "running" <=> job'[j].owner # NoWorker
           /\ run' \in [Job -> [state: RunStates, attempt: 0..MaxAttempts]]
           /\ RetryBudget'
           /\ RunFollowsJob'
           /\ Started'
<1>1. job' \in [Job -> Rows]
  BY DEF IInv, TypeOK, Rows
<1>2. \A j \in Job : job'[j].status = "running" <=> job'[j].owner # NoWorker
  BY DEF IInv, TypeOK, Fits
<1>3. ASSUME NEW j \in S
      PROVE  LET r == Projected(j, row[j])
             IN /\ r \in [state: RunStates, attempt: 0..MaxAttempts]
                /\ r.state \notin HandlerVerdicts \union {"none"} =>
                      /\ r.attempt = row[j].attempt
                      /\ row[j].status \in Claimable <=> r.state = "queued"
                      /\ row[j].status \notin Claimable => r.state = row[j].status
  <2>1. row[j] \in Rows /\ Fits(row[j]) /\ j \in Job
    BY <1>3
  <2>2. QED
    BY <2>1, ProjectionFollows DEF IInv, Fits
<1>4. run' \in [Job -> [state: RunStates, attempt: 0..MaxAttempts]]
  BY <1>3 DEF IInv, TypeOK
<1>5. RetryBudget'
  BY DEF IInv, RetryBudget, Fits
<1>6. RunFollowsJob'
  BY <1>3 DEF IInv, RunFollowsJob
<1>7. Started'
  BY DEF IInv, Started, Fits
<1>8. QED
  BY <1>1, <1>2, <1>4, <1>5, <1>6, <1>7

\* The same for the one row a claim or a finish writes.
LEMMA WriteKeepsInvariant ==
    ASSUME IInv, NEW j \in Job, NEW row, NEW lease, NEW wait,
           job[j].status \in {"running"} \union Claimable,
           Fits(row), Write(j, row, lease, wait)
    PROVE  /\ job' \in [Job -> Rows]
           /\ \A i \in Job : job'[i].status = "running" <=> job'[i].owner # NoWorker
           /\ run' \in [Job -> [state: RunStates, attempt: 0..MaxAttempts]]
           /\ RetryBudget'
           /\ RunFollowsJob'
           /\ Started'
<1> DEFINE rows == [i \in Job |-> row]
<1>1. rows \in [Job -> Rows]
  BY DEF Fits
<1>2. job' = [i \in Job |-> IF i \in {j} THEN rows[i] ELSE job[i]]
  BY DEF Write, IInv, TypeOK
<1>3. run' = [i \in Job |-> IF i \in {j} THEN Projected(i, rows[i]) ELSE run[i]]
  BY DEF Write, IInv, TypeOK
<1>4. \A i \in {j} : Fits(rows[i])
  OBVIOUS
<1>5. {j} \in SUBSET Job /\ \A i \in {j} : job[i].status \in {"running"} \union Claimable
  OBVIOUS
<1> HIDE DEF rows
<1>6. QED
  BY <1>1, <1>2, <1>3, <1>4, <1>5, RowsKeepInvariant

-----------------------------------------------------------------------------
(* The invariant.                                                          *)

LEMMA InitInvariant == Init => IInv
  BY QueueAssumption DEF Init, IInv, TypeOK, RetryBudget, RunFollowsJob, OwnerIsLatestAttempt,
     Started, Idle, Without, Statuses, Claimable, Finished, Errors, RunStates, SettledStates,
     HandlerVerdicts

LEMMA EnqueueInvariant ==
    ASSUME IInv, NEW j \in Job, Enqueue(j) PROVE IInv'
<1>1. CASE job[j].status # "absent"
  <2>1. UNCHANGED vars
    BY <1>1 DEF Enqueue, vars
  <2>2. QED
    BY <2>1 DEF vars, IInv, TypeOK, RetryBudget, RunFollowsJob, OwnerIsLatestAttempt, Started
<1>2. CASE job[j].status = "absent"
  <2> DEFINE row == [status |-> "queued", attempt |-> job[j].attempt,
                     owner |-> job[j].owner, error |-> job[j].error]
             linked == [state |-> "queued", attempt |-> run[j].attempt]
  <2>1. job[j] \in Rows /\ run[j] \in [state: RunStates, attempt: 0..MaxAttempts]
    BY DEF IInv, TypeOK, Rows
  <2>2. [job[j] EXCEPT !.status = "queued"] = row
    BY <2>1 DEF Rows
  <2>3. [run[j] EXCEPT !.state = "queued"] = linked
    BY <2>1
  <2>4. /\ job' = [job EXCEPT ![j] = row]
        /\ run' = IF j \in Linked THEN [run EXCEPT ![j] = linked] ELSE run
        /\ UNCHANGED <<leaseLeft, waitLeft, worker, crashes>>
    BY <1>2, <2>2, <2>3 DEF Enqueue
  <2>5. row \in Rows /\ row.owner = NoWorker /\ row.attempt = 0 /\ linked.attempt = 0
    BY <1>2, <2>1 DEF IInv, TypeOK, Started, Rows, Statuses, Claimable
  <2>6. linked \in [state: RunStates, attempt: 0..MaxAttempts]
    BY <2>1 DEF RunStates
  <2>7. TypeOK'
    BY <2>4, <2>5, <2>6 DEF IInv, TypeOK, Rows
  <2>8. RetryBudget'
    BY <2>4, <2>5, QueueAssumption DEF IInv, TypeOK, RetryBudget, Claimable
  <2>9. RunFollowsJob' /\ Started'
    BY <1>2, <2>4, <2>5, QueueAssumption DEF IInv, TypeOK, RunFollowsJob, Started, Claimable
  <2>10. OwnerIsLatestAttempt'
    BY <2>4, SMTT(30) DEF IInv, TypeOK, OwnerIsLatestAttempt
  <2>11. QED
    BY <2>7, <2>8, <2>9, <2>10 DEF IInv
<1>3. QED
  BY <1>1, <1>2

LEMMA ReapInvariant ==
    ASSUME IInv, NEW w \in Worker, Reap(w) PROVE IInv'
<1> PICK lag \in 0..MaxLag : Reap(w)!2!(lag)
  BY DEF Reap
<1> DEFINE expired == {j \in Job : Expired(j, lag)}
           row == [j \in Job |-> IF j \in expired THEN Failed(j, "lease_expired") ELSE job[j]]
<1>1. \A j \in expired : job[j].status = "running"
  BY DEF Expired
<1>2. ASSUME NEW j \in expired
      PROVE  row[j] \in Rows /\ Fits(row[j])
  <2>1. job[j].status = "running" /\ job[j].attempt >= 1
    BY <1>1 DEF IInv, Started
  <2>2. QED
    BY <2>1, FailedRow DEF IInv, Fits, Claimable
<1>3. row \in [Job -> Rows]
  BY <1>2 DEF IInv, TypeOK, Rows
<1>4. /\ job' = [j \in Job |-> IF j \in expired THEN row[j] ELSE job[j]]
      /\ run' = [j \in Job |-> IF j \in expired THEN Projected(j, row[j]) ELSE run[j]]
      /\ leaseLeft' = [j \in Job |-> IF j \in expired THEN 0 ELSE leaseLeft[j]]
      /\ waitLeft' = [j \in Job |->
            IF j \in expired /\ ~Exhausted(j) THEN -lag ELSE waitLeft[j]]
      /\ worker' = [worker EXCEPT ![w] = Without("reaped", lag)]
      /\ crashes' = crashes
  BY DEF Reap
<1>5. /\ job' \in [Job -> Rows]
      /\ \A j \in Job : job'[j].status = "running" <=> job'[j].owner # NoWorker
      /\ run' \in [Job -> [state: RunStates, attempt: 0..MaxAttempts]]
      /\ RetryBudget' /\ RunFollowsJob' /\ Started'
  <2>1. expired \in SUBSET Job /\ \A j \in expired : job[j].status \in {"running"} \union Claimable
    BY <1>1
  <2> HIDE DEF expired, row
  <2>2. QED
    BY <2>1, <1>2, <1>3, <1>4, RowsKeepInvariant
<1>6. TypeOK'
  <2>1. leaseLeft' \in [Job -> Int] /\ waitLeft' \in [Job -> Int]
    BY <1>4, QueueAssumption DEF IInv, TypeOK
  <2>2. /\ worker' \in [Worker -> [pc: {"idle", "reaped", "running", "down"},
                                  job: Job \union {"none"},
                                  attempt: 0..MaxAttempts, lag: 0..MaxLag]]
        /\ \A v \in Worker : worker'[v].pc = "running" => worker'[v].job \in Job
    BY <1>4, QueueAssumption DEF IInv, TypeOK, Without
  <2>3. QED
    BY <1>4, <1>5, <2>1, <2>2 DEF IInv, TypeOK, Rows
<1>7. OwnerIsLatestAttempt'
  <2> SUFFICES ASSUME NEW v \in Worker, NEW j \in Job,
                      worker'[v].pc = "running", worker'[v].job = j,
                      job'[j].status = "running", job'[j].owner = v
               PROVE  worker'[v].attempt = job'[j].attempt
    BY DEF OwnerIsLatestAttempt
  <2>1. worker'[v] = worker[v]
    BY <1>4 DEF IInv, TypeOK, Without
  <2>2. j \notin expired
    <3> SUFFICES ASSUME j \in expired PROVE FALSE
      OBVIOUS
    <3>1. job'[j] = row[j] /\ Fits(row[j]) /\ row[j] = Failed(j, "lease_expired")
      BY <1>2, <1>4
    <3>2. job'[j].owner = NoWorker
      BY <3>1 DEF Failed
    <3>3. QED
      BY <3>2, QueueAssumption
  <2>3. job'[j] = job[j]
    BY <1>4, <2>2
  <2>4. QED
    BY <2>1, <2>3 DEF IInv, OwnerIsLatestAttempt
<1>8. QED
  BY <1>5, <1>6, <1>7 DEF IInv

LEMMA ClaimInvariant ==
    ASSUME IInv, NEW w \in Worker, Claim(w) PROVE IInv'
<1> PICK j \in Job :
        /\ Due(j, worker[w].lag)
        /\ Write(j, [status |-> "running", attempt |-> job[j].attempt + 1,
                     owner |-> w, error |-> "none"],
                 LeaseDuration - worker[w].lag, 0)
        /\ worker' = [worker EXCEPT ![w] = [pc |-> "running", job |-> j,
                                            attempt |-> job[j].attempt + 1, lag |-> 0]]
  BY DEF Claim
<1> DEFINE row == [status |-> "running", attempt |-> job[j].attempt + 1,
                   owner |-> w, error |-> "none"]
<1>1. crashes' = crashes
  BY DEF Claim
<1>2. job[j].status \in Claimable /\ job[j].attempt + 1 \in 1..MaxAttempts
  BY QueueAssumption, SMTT(30) DEF Due, IInv, TypeOK, RetryBudget
<1>3. Fits(row)
  BY <1>2, QueueAssumption DEF Fits, Rows, Statuses, Errors, Claimable
<1>4. Write(j, row, LeaseDuration - worker[w].lag, 0)
  OBVIOUS
<1>5. /\ job' \in [Job -> Rows]
      /\ \A i \in Job : job'[i].status = "running" <=> job'[i].owner # NoWorker
      /\ run' \in [Job -> [state: RunStates, attempt: 0..MaxAttempts]]
      /\ RetryBudget' /\ RunFollowsJob' /\ Started'
  <2> HIDE DEF row
  <2>1. QED
    BY <1>2, <1>3, <1>4, WriteKeepsInvariant
<1>6. TypeOK'
  <2>1. leaseLeft' \in [Job -> Int] /\ waitLeft' \in [Job -> Int]
    BY <1>4, QueueAssumption, SMTT(30) DEF Write, IInv, TypeOK
  <2>2. /\ worker' \in [Worker -> [pc: {"idle", "reaped", "running", "down"},
                                  job: Job \union {"none"},
                                  attempt: 0..MaxAttempts, lag: 0..MaxLag]]
        /\ \A v \in Worker : worker'[v].pc = "running" => worker'[v].job \in Job
    BY <1>2, QueueAssumption, SMTT(30) DEF IInv, TypeOK
  <2>3. QED
    BY <1>1, <1>5, <2>1, <2>2 DEF IInv, TypeOK, Rows
<1>7. OwnerIsLatestAttempt'
  <2>1. job' = [job EXCEPT ![j] = row]
    BY DEF Write
  <2>2. QED
    BY <2>1, SMTT(30) DEF IInv, TypeOK, OwnerIsLatestAttempt
<1>8. QED
  BY <1>5, <1>6, <1>7 DEF IInv

\* A process that lets go of what it executes, or never held anything.
LEMMA WithoutInvariant ==
    ASSUME IInv, NEW w \in Worker, NEW pc \in {"idle", "reaped", "down"},
           worker' = [worker EXCEPT ![w] = Without(pc, 0)],
           crashes' \in 0..MaxCrashes,
           UNCHANGED <<job, leaseLeft, waitLeft, run>>
    PROVE  IInv'
<1>1. TypeOK'
  <2>1. Without(pc, 0) \in [pc: {"idle", "reaped", "running", "down"}, job: Job \union {"none"},
                            attempt: 0..MaxAttempts, lag: 0..MaxLag]
    BY QueueAssumption DEF Without
  <2>2. /\ worker' \in [Worker -> [pc: {"idle", "reaped", "running", "down"},
                                  job: Job \union {"none"},
                                  attempt: 0..MaxAttempts, lag: 0..MaxLag]]
        /\ \A v \in Worker \ {w} : worker'[v] = worker[v]
        /\ worker'[w].pc # "running"
    BY <2>1 DEF IInv, TypeOK, Without
  <2>3. QED
    BY <2>2 DEF IInv, TypeOK
<1>2. RetryBudget' /\ RunFollowsJob' /\ Started'
  BY DEF IInv, RetryBudget, RunFollowsJob, Started
<1>3. OwnerIsLatestAttempt'
  BY DEF IInv, TypeOK, OwnerIsLatestAttempt, Without
<1>4. QED
  BY <1>1, <1>2, <1>3 DEF IInv

LEMMA HeartbeatInvariant ==
    ASSUME IInv, NEW w \in Worker, Heartbeat(w) PROVE IInv'
<1>1. CASE worker' = [worker EXCEPT ![w] = Down] /\ UNCHANGED leaseLeft
  BY <1>1, WithoutInvariant DEF Heartbeat, Down, IInv, TypeOK
<1>2. CASE \E lag \in 0..MaxLag :
             /\ leaseLeft' = [leaseLeft EXCEPT ![worker[w].job] = LeaseDuration - lag]
             /\ UNCHANGED worker
  <2>1. UNCHANGED <<job, waitLeft, run, worker, crashes>>
    BY <1>2 DEF Heartbeat
  <2>2. leaseLeft' \in [Job -> Int]
    <3>1. PICK lag \in 0..MaxLag :
            leaseLeft' = [leaseLeft EXCEPT ![worker[w].job] = LeaseDuration - lag]
      BY <1>2
    <3>2. LeaseDuration - lag \in Int
      BY QueueAssumption
    <3>3. QED
      BY <3>1, <3>2 DEF IInv, TypeOK
  <2>3. QED
    BY <2>1, <2>2 DEF IInv, TypeOK, RetryBudget, RunFollowsJob, OwnerIsLatestAttempt, Started
<1>3. QED
  BY <1>1, <1>2 DEF Heartbeat

LEMMA HandlerSettlesRunInvariant ==
    ASSUME IInv, NEW w \in Worker, HandlerSettlesRun(w) PROVE IInv'
<1> DEFINE j == worker[w].job
<1>1. PICK verdict \in HandlerVerdicts : run' = [run EXCEPT ![j].state = verdict]
  BY DEF HandlerSettlesRun
<1>2. j \in Job /\ job[j].status = "running" /\ run[j].state = "running"
  BY DEF HandlerSettlesRun, HoldsLease, IInv, TypeOK
<1>3. UNCHANGED <<job, leaseLeft, waitLeft, worker, crashes>>
  BY DEF HandlerSettlesRun
<1> HIDE DEF j
<1>4. run' \in [Job -> [state: RunStates, attempt: 0..MaxAttempts]]
  BY <1>1, <1>2 DEF IInv, TypeOK, RunStates, SettledStates, HandlerVerdicts
<1>5. RunFollowsJob' /\ Started'
  BY <1>1, <1>2, <1>3 DEF IInv, TypeOK, RunFollowsJob, Started, HandlerVerdicts
<1>6. QED
  BY <1>3, <1>4, <1>5 DEF IInv, TypeOK, RetryBudget, OwnerIsLatestAttempt

LEMMA FinishInvariant ==
    ASSUME IInv, NEW w \in Worker, Finish(w) PROVE IInv'
<1> DEFINE j == worker[w].job
           Result(o) == IF o = "ok" THEN Succeeded(j) ELSE Failed(j, o)
<1>1. j \in Job /\ crashes' = crashes
  BY DEF Finish, IInv, TypeOK
<1>2. CASE worker' = [worker EXCEPT ![w] = Down] /\ UNCHANGED <<job, leaseLeft, waitLeft, run>>
  BY <1>1, <1>2, WithoutInvariant DEF Down, IInv, TypeOK
<1>3. ASSUME NEW lag \in 0..MaxLag, NEW outcome \in Outcomes, HoldsLease(w, j, lag),
             NEW row, row = Result(outcome),
             Write(j, row, 0, IF row.status = "retryable" THEN Backoff[job[j].attempt] - lag ELSE 0),
             worker' = [worker EXCEPT ![w] = Idle]
      PROVE  IInv'
  <2>1. job[j].status = "running" /\ job[j] \in Rows /\ job[j].attempt \in 1..MaxAttempts
    BY <1>1, <1>3, QueueAssumption DEF HoldsLease, IInv, TypeOK, Started, Rows
  <2>2. Fits(row) /\ row.owner = NoWorker
    <3>1. CASE outcome = "ok"
      <4>1. row = [status |-> "succeeded", attempt |-> job[j].attempt,
                   owner |-> NoWorker, error |-> "none"]
        BY <1>3, <3>1 DEF Succeeded
      <4>2. QED
        BY <2>1, <4>1 DEF Fits, Rows, Statuses, Claimable, Finished, Errors
    <3>2. CASE outcome # "ok"
      <4>1. outcome \in {"lease_expired", "transient", "permanent"}
        BY <1>3, <3>2 DEF Outcomes
      <4>2. row = Failed(j, outcome)
        BY <1>3, <3>2
      <4>3. QED
        BY <1>1, <2>1, <4>1, <4>2, FailedRow DEF Fits, IInv, Claimable
    <3>3. QED
      BY <3>1, <3>2
  <2>3. /\ job' \in [Job -> Rows]
        /\ \A i \in Job : job'[i].status = "running" <=> job'[i].owner # NoWorker
        /\ run' \in [Job -> [state: RunStates, attempt: 0..MaxAttempts]]
        /\ RetryBudget' /\ RunFollowsJob' /\ Started'
    BY <1>1, <1>3, <2>1, <2>2, WriteKeepsInvariant
  <2>4. leaseLeft' \in [Job -> Int] /\ waitLeft' \in [Job -> Int]
    <3> DEFINE none == 0
               wait == IF row.status = "retryable" THEN Backoff[job[j].attempt] - lag ELSE 0
    <3>1. Backoff[job[j].attempt] \in Nat
      BY <2>1, QueueAssumption
    <3>2. lag \in Int
      BY QueueAssumption
    <3>3. Backoff[job[j].attempt] - lag \in Int
      <4> HIDE DEF j
      <4>1. \A b \in Nat, n \in Int : b - n \in Int
        OBVIOUS
      <4>2. QED
        BY <3>1, <3>2, <4>1
    <3>4. /\ leaseLeft' = [leaseLeft EXCEPT ![j] = none]
          /\ waitLeft' = [waitLeft EXCEPT ![j] = wait]
      BY <1>3 DEF Write
    <3>5. none \in Int /\ wait \in Int
      BY <3>3
    <3> HIDE DEF none, wait, j
    <3>6. leaseLeft \in [Job -> Int] /\ waitLeft \in [Job -> Int]
      BY DEF IInv, TypeOK
    <3>7. leaseLeft' \in [Job -> Int]
      BY <3>4, <3>5, <3>6
    <3>8. waitLeft' \in [Job -> Int]
      BY <3>4, <3>5, <3>6
    <3>9. QED
      BY <3>7, <3>8
  <2>5. TypeOK'
    <3>1. /\ worker' \in [Worker -> [pc: {"idle", "reaped", "running", "down"},
                                    job: Job \union {"none"},
                                    attempt: 0..MaxAttempts, lag: 0..MaxLag]]
          /\ \A v \in Worker : worker'[v].pc = "running" => worker'[v].job \in Job
      BY <1>3, QueueAssumption DEF IInv, TypeOK, Idle, Without
    <3>2. crashes' \in 0..MaxCrashes
      BY <1>1 DEF IInv, TypeOK
    <3>3. QED
      BY <2>3, <2>4, <3>1, <3>2 DEF TypeOK, Rows
  <2>6. OwnerIsLatestAttempt'
    <3>1. job'[j] = row /\ \A i \in Job \ {j} : job'[i] = job[i]
      BY <1>1, <1>3 DEF Write, IInv, TypeOK
    <3>2. \A v \in Worker : worker'[v].pc = "running" => worker'[v] = worker[v]
      BY <1>3 DEF IInv, TypeOK, Idle, Without
    <3>3. QED
      BY <2>2, <3>1, <3>2, QueueAssumption DEF IInv, OwnerIsLatestAttempt
  <2>7. QED
    BY <2>3, <2>5, <2>6 DEF IInv
<1>4. QED
  <2>1. PICK lag \in 0..MaxLag, outcome \in Outcomes :
          IF HoldsLease(w, j, lag)
          THEN /\ Write(j, Result(outcome), 0,
                        IF Result(outcome).status = "retryable"
                        THEN Backoff[job[j].attempt] - lag ELSE 0)
               /\ worker' = [worker EXCEPT ![w] = Idle]
          ELSE /\ worker' = [worker EXCEPT ![w] = Down]
               /\ UNCHANGED <<job, leaseLeft, waitLeft, run>>
    BY DEF Finish
  <2> HIDE DEF j, Result
  <2>2. CASE HoldsLease(w, j, lag)
    BY <2>1, <2>2, <1>3
  <2>3. CASE ~HoldsLease(w, j, lag)
    BY <2>1, <2>3, <1>2
  <2>4. QED
    BY <2>2, <2>3

LEMMA TickInvariant ==
    ASSUME IInv, Tick PROVE IInv'
<1>1. UNCHANGED <<job, run, crashes>>
  BY DEF Tick
<1>2. \A n \in Int : CountDown(n) \in Int
  BY QueueAssumption DEF CountDown
<1>3. leaseLeft' \in [Job -> Int] /\ waitLeft' \in [Job -> Int]
  BY <1>2 DEF Tick, IInv, TypeOK
<1>4. \A w \in Worker :
        /\ worker'[w] \in [pc: {"idle", "reaped", "running", "down"},
                           job: Job \union {"none"},
                           attempt: 0..MaxAttempts, lag: 0..MaxLag]
        /\ worker'[w].pc = worker[w].pc
        /\ worker'[w].job = worker[w].job
        /\ worker'[w].attempt = worker[w].attempt
  <2> TAKE w \in Worker
  <2>1. CASE worker[w].pc = "reaped"
    <3>1. worker'[w] = [worker[w] EXCEPT !.lag = @ + 1]
      BY <2>1 DEF Tick
    <3>2. worker[w].lag + 1 \in 0..MaxLag
      BY <2>1, QueueAssumption DEF Tick, IInv, TypeOK
    <3>3. QED
      BY <3>1, <3>2 DEF IInv, TypeOK
  <2>2. CASE worker[w].pc # "reaped"
    BY <2>2 DEF Tick, IInv, TypeOK
  <2>3. QED
    BY <2>1, <2>2
<1>5. worker' = [w \in Worker |-> worker'[w]]
  BY DEF Tick
<1>6. worker' \in [Worker -> [pc: {"idle", "reaped", "running", "down"},
                             job: Job \union {"none"},
                             attempt: 0..MaxAttempts, lag: 0..MaxLag]]
  BY <1>4, <1>5
<1>7. TypeOK'
  BY <1>1, <1>3, <1>4, <1>6 DEF IInv, TypeOK
<1>8. RetryBudget' /\ RunFollowsJob' /\ Started'
  BY <1>1 DEF IInv, RetryBudget, RunFollowsJob, Started
<1>9. OwnerIsLatestAttempt'
  BY <1>1, <1>4 DEF IInv, OwnerIsLatestAttempt
<1>10. QED
  BY <1>7, <1>8, <1>9 DEF IInv

\* Every step keeps the invariant.
LEMMA NextInvariant == IInv /\ [Next]_vars => IInv'
<1> SUFFICES ASSUME IInv, [Next]_vars PROVE IInv'
  OBVIOUS
<1>1. ASSUME NEW j \in Job, Enqueue(j) PROVE IInv'
  BY <1>1, EnqueueInvariant
<1>2. ASSUME NEW w \in Worker, Reap(w) PROVE IInv'
  BY <1>2, ReapInvariant
<1>3. ASSUME NEW w \in Worker, Claim(w) PROVE IInv'
  BY <1>3, ClaimInvariant
<1>4. ASSUME NEW w \in Worker, NothingToClaim(w) PROVE IInv'
  BY <1>4, WithoutInvariant DEF NothingToClaim, Idle, IInv, TypeOK
<1>5. ASSUME NEW w \in Worker, Heartbeat(w) PROVE IInv'
  BY <1>5, HeartbeatInvariant
<1>6. ASSUME NEW w \in Worker, HandlerSettlesRun(w) PROVE IInv'
  BY <1>6, HandlerSettlesRunInvariant
<1>7. ASSUME NEW w \in Worker, Finish(w) PROVE IInv'
  BY <1>7, FinishInvariant
<1>8. ASSUME NEW w \in Worker, Crash(w) PROVE IInv'
  <2>1. crashes' \in 0..MaxCrashes
    BY <1>8, QueueAssumption DEF Crash, IInv, TypeOK
  <2>2. QED
    BY <1>8, <2>1, WithoutInvariant DEF Crash, Down
<1>9. ASSUME NEW w \in Worker, Restart(w) PROVE IInv'
  BY <1>9, WithoutInvariant DEF Restart, Idle, IInv, TypeOK
<1>10. CASE Tick
  BY <1>10, TickInvariant
<1>11. CASE UNCHANGED vars
  BY <1>11 DEF vars, IInv, TypeOK, RetryBudget, RunFollowsJob, OwnerIsLatestAttempt, Started
<1>12. QED
  BY <1>1, <1>2, <1>3, <1>4, <1>5, <1>6, <1>7, <1>8, <1>9, <1>10, <1>11 DEF Next

LEMMA Invariance == Spec => []IInv
<1>1. QED
  BY InitInvariant, NextInvariant, PTL DEF Spec

\* Every row satisfies its CHECK constraints in every reachable state: a
\* lease exactly while running, attempts within max_attempts.
THEOREM TypeCorrect == Spec => []TypeOK
<1>1. IInv => TypeOK
  BY DEF IInv
<1>2. QED
  BY <1>1, Invariance, PTL

\* Reaping and failing spend the retry budget exactly: a claimable row has
\* an attempt left, a dead letter has none or failed for good.
THEOREM BudgetKept == Spec => []RetryBudget
<1>1. IInv => RetryBudget
  BY DEF IInv
<1>2. QED
  BY <1>1, Invariance, PTL

\* The runtime run shown to operators agrees with its job row after every
\* reap, claim and finish, unless its handler settled it.
THEOREM RunAgrees == Spec => []RunFollowsJob
<1>1. IInv => RunFollowsJob
  BY DEF IInv
<1>2. QED
  BY <1>1, Invariance, PTL

-----------------------------------------------------------------------------
(* What a step may never do.                                               *)

\* A step leaves the rows alone, enqueues a fresh one, starts an attempt, or
\* ends the attempts of a set of running rows; and runs follow their rows.
QueuesRow(j) ==
    /\ job[j].status = "absent"
    /\ job' = [job EXCEPT ![j] = [status |-> "queued", attempt |-> job[j].attempt,
                                  owner |-> job[j].owner, error |-> job[j].error]]
    /\ \A i \in Job \ {j} : run'[i] = run[i]

StartsAttempt(j, w) ==
    /\ job[j].status \in Claimable
    /\ job' = [job EXCEPT ![j] = [status |-> "running", attempt |-> job[j].attempt + 1,
                                  owner |-> w, error |-> "none"]]
    /\ run' = [run EXCEPT ![j] = Projected(j, job'[j])]

EndsAttempt(j, w, row) ==
    /\ job[j].status = "running"
    /\ job[j].owner = w
    /\ worker[w].pc = "running" /\ worker[w].job = j /\ worker'[w].pc = "idle"
    /\ row = Succeeded(j) \/ \E error \in {"transient", "permanent"} : row = Failed(j, error)
    /\ job' = [job EXCEPT ![j] = row]
    /\ run' = [run EXCEPT ![j] = Projected(j, row)]

LosesAttempts(S) ==
    /\ \A j \in S : job[j].status = "running" /\ leaseLeft[j] <= 0
    /\ job' = [j \in Job |-> IF j \in S THEN Failed(j, "lease_expired") ELSE job[j]]
    /\ run' = [j \in Job |-> IF j \in S THEN Projected(j, Failed(j, "lease_expired"))
                                        ELSE run[j]]

KeepsRows ==
    /\ job' = job
    /\ \A j \in Job : run[j].state \in SettledStates => run'[j].state = run[j].state

LEMMA StepShape ==
    ASSUME IInv, [Next]_vars
    PROVE  \/ KeepsRows
           \/ \E j \in Job : QueuesRow(j)
           \/ \E j \in Job, w \in Worker : StartsAttempt(j, w)
           \/ \E j \in Job, w \in Worker, row \in Rows : EndsAttempt(j, w, row)
           \/ \E S \in SUBSET Job : LosesAttempts(S)
<1> DEFINE Goal == \/ KeepsRows
                   \/ \E j \in Job : QueuesRow(j)
                   \/ \E j \in Job, w \in Worker : StartsAttempt(j, w)
                   \/ \E j \in Job, w \in Worker, row \in Rows : EndsAttempt(j, w, row)
                   \/ \E S \in SUBSET Job : LosesAttempts(S)
<1>1. ASSUME UNCHANGED <<job, run>> PROVE Goal
  BY <1>1 DEF KeepsRows
<1>2. ASSUME NEW j \in Job, Enqueue(j) PROVE Goal
  <2>1. CASE job[j].status # "absent"
    BY <1>1, <1>2, <2>1 DEF Enqueue
  <2>2. CASE job[j].status = "absent"
    <3>1. job[j] \in Rows
      BY DEF IInv, TypeOK, Rows
    <3>2. [job[j] EXCEPT !.status = "queued"]
            = [status |-> "queued", attempt |-> job[j].attempt,
               owner |-> job[j].owner, error |-> job[j].error]
      BY <3>1 DEF Rows
    <3>3. QueuesRow(j)
      BY <1>2, <2>2, <3>2 DEF Enqueue, QueuesRow, IInv, TypeOK
    <3>4. QED
      BY <3>3
  <2>3. QED
    BY <2>1, <2>2
<1>3. ASSUME NEW w \in Worker, Reap(w) PROVE Goal
  <2>1. PICK lag \in 0..MaxLag : Reap(w)!2!(lag)
    BY <1>3 DEF Reap
  <2> DEFINE S == {j \in Job : Expired(j, lag)}
  <2>2. \A j \in S : job[j].status = "running" /\ leaseLeft[j] <= 0
    BY QueueAssumption DEF Expired, IInv, TypeOK
  <2>3. LosesAttempts(S)
    BY <2>1, <2>2 DEF LosesAttempts
  <2>4. QED
    BY <2>3
<1>4. ASSUME NEW w \in Worker, Claim(w) PROVE Goal
  <2>1. PICK j \in Job :
          /\ Due(j, worker[w].lag)
          /\ Write(j, [status |-> "running", attempt |-> job[j].attempt + 1,
                       owner |-> w, error |-> "none"],
                   LeaseDuration - worker[w].lag, 0)
    BY <1>4 DEF Claim
  <2>2. StartsAttempt(j, w)
    BY <2>1 DEF Due, Write, StartsAttempt, IInv, TypeOK
  <2>3. QED
    BY <2>2
<1>5. ASSUME NEW w \in Worker, HandlerSettlesRun(w) PROVE Goal
  <2>1. KeepsRows
    BY <1>5 DEF HandlerSettlesRun, KeepsRows, IInv, TypeOK, SettledStates, HandlerVerdicts,
       HoldsLease
  <2>2. QED
    BY <2>1
<1>6. ASSUME NEW w \in Worker, Finish(w) PROVE Goal
  <2> DEFINE j == worker[w].job
  <2>1. j \in Job /\ worker[w].pc = "running"
    BY <1>6 DEF Finish, IInv, TypeOK
  <2>2. ASSUME NEW row \in Rows, NEW lag \in 0..MaxLag, NEW wait, HoldsLease(w, j, lag),
               row = Succeeded(j) \/ \E error \in {"transient", "permanent"} :
                                         row = Failed(j, error),
               Write(j, row, 0, wait), worker' = [worker EXCEPT ![w] = Idle]
        PROVE  Goal
    <3>1. worker'[w].pc = "idle"
      BY <2>2 DEF IInv, TypeOK, Idle, Without
    <3>2. EndsAttempt(j, w, row)
      BY <2>1, <2>2, <3>1 DEF EndsAttempt, HoldsLease, Write
    <3>3. QED
      BY <2>1, <3>2
  <2>3. PICK lag \in 0..MaxLag, outcome \in Outcomes : Finish(w)!2!(lag, outcome)
    BY <1>6 DEF Finish
  <2>4. CASE ~HoldsLease(w, j, lag)
    BY <1>1, <2>3, <2>4
  <2>5. CASE HoldsLease(w, j, lag)
    <3> DEFINE row == IF outcome = "ok" THEN Succeeded(j) ELSE Failed(j, outcome)
               wait == IF row.status = "retryable" THEN Backoff[job[j].attempt] - lag ELSE 0
    <3>1. Write(j, row, 0, wait) /\ worker' = [worker EXCEPT ![w] = Idle]
      BY <2>3, <2>5
    <3>2. job[j].status = "running" /\ job[j] \in Rows
      BY <2>1, <2>5 DEF HoldsLease, IInv, TypeOK, Rows
    <3>3. outcome # "ok" => outcome \in {"transient", "permanent"}
      BY DEF Outcomes
    <3>4. Succeeded(j) \in Rows
      BY <3>2 DEF Succeeded, Rows, Statuses, Finished, Errors
    <3>5. outcome # "ok" => Failed(j, outcome) \in Rows
      BY <2>1, <3>2, <3>3, FailedRow DEF IInv
    <3>6. row \in Rows
      BY <3>4, <3>5
    <3>7. row = Succeeded(j) \/ \E error \in {"transient", "permanent"} : row = Failed(j, error)
      BY <3>3
    <3> HIDE DEF row, wait, j
    <3>8. QED
      BY <2>2, <2>5, <3>1, <3>6, <3>7
  <2>6. QED
    BY <2>4, <2>5
<1>7. ASSUME NEW w \in Worker, NothingToClaim(w) \/ Heartbeat(w) \/ Crash(w) \/ Restart(w)
      PROVE  Goal
  BY <1>1, <1>7 DEF NothingToClaim, Heartbeat, Crash, Restart
<1>8. ASSUME Tick PROVE Goal
  BY <1>1, <1>8 DEF Tick
<1>9. ASSUME UNCHANGED vars PROVE Goal
  BY <1>1, <1>9 DEF vars
<1> HIDE DEF Goal
<1>10. Goal
  <2>1. ASSUME NEW w \in Worker,
               \/ Reap(w) \/ Claim(w) \/ NothingToClaim(w) \/ Heartbeat(w)
               \/ HandlerSettlesRun(w) \/ Finish(w) \/ Crash(w) \/ Restart(w)
        PROVE  Goal
    BY <2>1, <1>3, <1>4, <1>5, <1>6, <1>7
  <2>2. CASE Next
    BY <2>1, <2>2, <1>2, <1>8 DEF Next
  <2>3. QED
    BY <2>2, <1>9
<1>11. QED
  BY <1>10 DEF Goal

\* Projection keeps the state of a settled run; the run of a row that ends
\* or starts an attempt is the projection.
LEMMA SettledStep ==
    ASSUME IInv, [Next]_vars, NEW j \in Job, run[j].state \in SettledStates
    PROVE  run'[j].state = run[j].state
<1>1. CASE KeepsRows
  BY <1>1 DEF KeepsRows
<1>2. ASSUME NEW i \in Job, QueuesRow(i) PROVE run'[j].state = run[j].state
  <2>1. i # j
    BY <1>2 DEF QueuesRow, IInv, Started, SettledStates, HandlerVerdicts
  <2>2. QED
    BY <1>2, <2>1 DEF QueuesRow
<1>3. ASSUME NEW row, row \in Rows, row.status \in {"running", "retryable", "succeeded", "dead_letter"},
             job[j].status \in {"running"} \union Claimable, run'[j] = Projected(j, row)
      PROVE  run'[j].state = run[j].state
  BY <1>3, ProjectionFollows DEF IInv
<1>4. ASSUME NEW i \in Job, NEW w \in Worker, StartsAttempt(i, w) PROVE run'[j].state = run[j].state
  <2>1. CASE i # j
    BY <1>4, <2>1 DEF StartsAttempt, IInv, TypeOK
  <2>2. CASE i = j
    <3> DEFINE row == [status |-> "running", attempt |-> job[j].attempt + 1,
                       owner |-> w, error |-> "none"]
    <3>1. job[j].attempt + 1 \in 1..MaxAttempts
      BY <1>4, <2>2, QueueAssumption DEF StartsAttempt, IInv, TypeOK, RetryBudget
    <3>2. row \in Rows
      BY <3>1, QueueAssumption DEF Rows, Statuses, Errors
    <3>3. job'[j] = row /\ run'[j] = Projected(j, job'[j])
      BY <1>4, <2>2 DEF StartsAttempt, IInv, TypeOK
    <3>4. job[j].status \in {"running"} \union Claimable
      BY <1>4, <2>2 DEF StartsAttempt
    <3>5. row.status = "running"
      OBVIOUS
    <3> HIDE DEF row
    <3>6. QED
      BY <1>3, <3>2, <3>3, <3>4, <3>5
  <2>3. QED
    BY <2>1, <2>2
<1>5. ASSUME NEW i \in Job, NEW w \in Worker, NEW row \in Rows, EndsAttempt(i, w, row)
      PROVE  run'[j].state = run[j].state
  <2>1. CASE i # j
    BY <1>5, <2>1 DEF EndsAttempt, IInv, TypeOK
  <2>2. CASE i = j
    <3>1. row.status \in {"retryable", "succeeded", "dead_letter"}
      BY <1>5 DEF EndsAttempt, Succeeded, Failed
    <3>2. run'[j] = Projected(j, row) /\ job[j].status = "running"
      BY <1>5, <2>2 DEF EndsAttempt, IInv, TypeOK
    <3>3. QED
      BY <1>3, <3>1, <3>2
  <2>3. QED
    BY <2>1, <2>2
<1>6. ASSUME NEW S \in SUBSET Job, LosesAttempts(S) PROVE run'[j].state = run[j].state
  <2>1. CASE j \notin S
    BY <1>6, <2>1 DEF LosesAttempts
  <2>2. CASE j \in S
    <3>1. job[j].status = "running" /\ run'[j] = Projected(j, Failed(j, "lease_expired"))
      BY <1>6, <2>2 DEF LosesAttempts
    <3>2. /\ Failed(j, "lease_expired") \in Rows
          /\ Failed(j, "lease_expired").status \in {"dead_letter", "retryable"}
      BY <3>1, FailedRow DEF IInv
    <3>3. QED
      BY <1>3, <3>1, <3>2
  <2>3. QED
    BY <2>1, <2>2
<1>7. QED
  BY <1>1, <1>2, <1>4, <1>5, <1>6, StepShape

\* A run that has ended is never reopened by a later expiry, retry or dead
\* letter, however many attempts its job still makes.
THEOREM SettledForGood == Spec => SettledRunIsFinal
<1>1. IInv /\ [Next]_vars =>
        [\A j \in Job : run[j].state \in SettledStates => run'[j].state = run[j].state]_vars
  BY SettledStep
<1>2. QED
  BY <1>1, Invariance, PTL DEF Spec, SettledRunIsFinal

\* While a lease is unexpired nobody but its holder changes the row.
THEOREM LeaseProtects == Spec => LiveLeaseIsUndisturbed
<1>1. ASSUME IInv, [Next]_vars, NEW j \in Job, job[j].status = "running",
             leaseLeft[j] > 0, job'[j] # job[j]
      PROVE  LET w == job[j].owner
             IN worker[w].pc = "running" /\ worker[w].job = j /\ worker'[w].pc = "idle"
  <2>1. leaseLeft[j] \in Int
    BY <1>1 DEF IInv, TypeOK
  <2>2. ~KeepsRows
    BY <1>1 DEF KeepsRows
  <2>3. \A i \in Job : ~QueuesRow(i)
    BY <1>1 DEF QueuesRow, IInv, TypeOK
  <2>4. \A i \in Job, w \in Worker : ~StartsAttempt(i, w)
    BY <1>1 DEF StartsAttempt, IInv, TypeOK, Claimable
  <2>5. \A S \in SUBSET Job : ~LosesAttempts(S)
    BY <1>1, <2>1 DEF LosesAttempts
  <2>6. PICK i \in Job, w \in Worker, row \in Rows : EndsAttempt(i, w, row)
    BY <1>1, <2>2, <2>3, <2>4, <2>5, StepShape
  <2>7. i = j
    BY <1>1, <2>6 DEF EndsAttempt, IInv, TypeOK
  <2>8. QED
    BY <2>6, <2>7 DEF EndsAttempt
<1>2. IInv /\ [Next]_vars =>
        [\A j \in Job :
            job[j].status = "running" /\ leaseLeft[j] > 0 /\ job'[j] # job[j]
            => LET w == job[j].owner
               IN worker[w].pc = "running" /\ worker[w].job = j /\ worker'[w].pc = "idle"]_vars
  BY <1>1
<1>3. QED
  BY <1>2, Invariance, PTL DEF Spec, LiveLeaseIsUndisturbed

\* A result is recorded only by the process executing the latest attempt: a
\* worker that was given up on cannot finish the job for its successor.
THEOREM LatestAttemptRecords == Spec => ResultOfLatestAttempt
<1>1. ASSUME IInv, [Next]_vars, NEW j \in Job, job[j].status = "running",
             job'[j].status # "running", job'[j].error # "lease_expired"
      PROVE  \E w \in Worker : /\ worker[w].pc = "running"
                               /\ worker[w].job = j
                               /\ worker[w].attempt = job[j].attempt
                               /\ worker'[w].pc = "idle"
  <2>1. ~KeepsRows
    BY <1>1 DEF KeepsRows
  <2>2. \A i \in Job : ~QueuesRow(i)
    BY <1>1 DEF QueuesRow, IInv, TypeOK
  <2>3. \A i \in Job, w \in Worker : ~StartsAttempt(i, w)
    BY <1>1 DEF StartsAttempt, IInv, TypeOK, Claimable
  <2>4. ASSUME NEW S \in SUBSET Job, LosesAttempts(S) PROVE FALSE
    <3>1. j \in S
      BY <1>1, <2>4 DEF LosesAttempts
    <3>2. job'[j] = Failed(j, "lease_expired")
      BY <2>4, <3>1 DEF LosesAttempts
    <3>3. QED
      BY <1>1, <3>2 DEF Failed
  <2>5. PICK i \in Job, w \in Worker, row \in Rows : EndsAttempt(i, w, row)
    BY <1>1, <2>1, <2>2, <2>3, <2>4, StepShape
  <2>6. i = j
    BY <1>1, <2>5 DEF EndsAttempt, IInv, TypeOK
  <2>7. worker[w].attempt = job[j].attempt
    BY <1>1, <2>5, <2>6 DEF EndsAttempt, IInv, OwnerIsLatestAttempt
  <2>8. QED
    BY <2>5, <2>6, <2>7 DEF EndsAttempt
<1>2. IInv /\ [Next]_vars =>
        [\A j \in Job :
            /\ job[j].status = "running"
            /\ job'[j].status # "running"
            /\ job'[j].error # "lease_expired"
            => \E w \in Worker : /\ worker[w].pc = "running"
                                 /\ worker[w].job = j
                                 /\ worker[w].attempt = job[j].attempt
                                 /\ worker'[w].pc = "idle"]_vars
  BY <1>1
<1>3. QED
  BY <1>2, Invariance, PTL DEF Spec, ResultOfLatestAttempt

-----------------------------------------------------------------------------
(* JobQueue implements JobContract.                                        *)

phaseOf == [j \in Job |-> ContractPhase(job[j].status)]
triesOf == [j \in Job |-> job[j].attempt]

LEMMA ContractInitial == Init => Contract!ContractInit
  BY DEF Init, Contract!ContractInit, ContractPhase, Claimable

\* One row changes, in status and attempt, as a contract action says.
LEMMA OneRow ==
    ASSUME IInv, NEW j \in Job, NEW row, job' = [job EXCEPT ![j] = row]
    PROVE  /\ phaseOf' = [phaseOf EXCEPT ![j] = ContractPhase(row.status)]
           /\ triesOf' = [triesOf EXCEPT ![j] = row.attempt]
<1>1. job'[j] = row /\ \A i \in Job \ {j} : job'[i] = job[i]
  BY DEF IInv, TypeOK
<1>2. triesOf' = [triesOf EXCEPT ![j] = row.attempt]
  <2>1. triesOf' = [i \in Job |-> job'[i].attempt]
    BY DEF triesOf
  <2>2. job'[j].attempt = row.attempt /\ \A i \in Job \ {j} : job'[i].attempt = triesOf[i]
    BY <1>1 DEF triesOf
  <2>3. triesOf = [i \in Job |-> triesOf[i]]
    BY DEF triesOf
  <2> HIDE DEF triesOf
  <2>4. QED
    BY <2>1, <2>2, <2>3, Zenon
<1>3. phaseOf' = [phaseOf EXCEPT ![j] = ContractPhase(row.status)]
  <2>1. phaseOf' = [i \in Job |-> ContractPhase(job'[i].status)]
    BY DEF phaseOf
  <2>2. /\ ContractPhase(job'[j].status) = ContractPhase(row.status)
        /\ \A i \in Job \ {j} : ContractPhase(job'[i].status) = phaseOf[i]
    BY <1>1 DEF phaseOf
  <2>3. phaseOf = [i \in Job |-> phaseOf[i]]
    BY DEF phaseOf
  <2> HIDE DEF phaseOf
  <2>4. QED
    BY <2>1, <2>2, <2>3, Zenon
<1>4. QED
  BY <1>2, <1>3

LEMMA ContractStep ==
    ASSUME IInv, [Next]_vars
    PROVE  [Contract!ContractNext]_(Contract!contractVars)
<1> DEFINE Goal == Contract!ContractNext \/ UNCHANGED <<phaseOf, triesOf>>
<1>0. ASSUME Goal PROVE [Contract!ContractNext]_(Contract!contractVars)
  BY <1>0 DEF Contract!contractVars, phaseOf, triesOf
<1>1. ASSUME KeepsRows PROVE Goal
  BY <1>1 DEF KeepsRows, phaseOf, triesOf
<1>2. ASSUME NEW j \in Job, QueuesRow(j) PROVE Goal
  <2> DEFINE row == [status |-> "queued", attempt |-> job[j].attempt,
                     owner |-> job[j].owner, error |-> job[j].error]
  <2>1. job' = [job EXCEPT ![j] = row]
    BY <1>2 DEF QueuesRow
  <2>2. phaseOf[j] = "absent" /\ ContractPhase(row.status) = "waiting"
    BY <1>2 DEF QueuesRow, phaseOf, ContractPhase, Claimable
  <2>3. row.attempt = triesOf[j]
    BY DEF triesOf
  <2> HIDE DEF row
  <2>4. /\ phaseOf' = [phaseOf EXCEPT ![j] = "waiting"]
        /\ triesOf' = [triesOf EXCEPT ![j] = triesOf[j]]
    BY <2>1, <2>2, <2>3, OneRow, ZenonT(60)
  <2>5. triesOf' = triesOf
    BY <2>4 DEF triesOf
  <2>6. Contract!Submit(j)
    BY <2>2, <2>4, <2>5 DEF Contract!Submit, phaseOf, triesOf
  <2>7. QED
    BY <2>6 DEF Contract!ContractNext
<1>3. ASSUME NEW j \in Job, NEW w \in Worker, StartsAttempt(j, w) PROVE Goal
  <2> DEFINE row == [status |-> "running", attempt |-> job[j].attempt + 1,
                     owner |-> w, error |-> "none"]
  <2>1. job' = [job EXCEPT ![j] = row]
    BY <1>3 DEF StartsAttempt
  <2>2. phaseOf[j] = "waiting" /\ ContractPhase(row.status) = "active"
    BY <1>3 DEF StartsAttempt, phaseOf, ContractPhase, Claimable
  <2>3. row.attempt = triesOf[j] + 1 /\ triesOf[j] < MaxAttempts
    BY <1>3 DEF StartsAttempt, triesOf, IInv, RetryBudget
  <2> HIDE DEF row
  <2>4. /\ phaseOf' = [phaseOf EXCEPT ![j] = "active"]
        /\ triesOf' = [triesOf EXCEPT ![j] = triesOf[j] + 1]
    BY <2>1, <2>2, <2>3, OneRow
  <2>5. Contract!Attempt(j)
    BY <2>2, <2>3, <2>4 DEF Contract!Attempt, phaseOf, triesOf
  <2>6. QED
    BY <2>5 DEF Contract!ContractNext
<1>4. ASSUME NEW S \in SUBSET Job, LosesAttempts(S) PROVE Goal
  <2>1. CASE S = {}
    BY <1>4, <2>1 DEF LosesAttempts, IInv, TypeOK, phaseOf, triesOf
  <2>2. CASE S # {}
    <3>1. \A j \in S : phaseOf[j] = "active"
      BY <1>4 DEF LosesAttempts, phaseOf, ContractPhase, Claimable
    <3>2. \A j \in S : /\ job'[j].attempt = job[j].attempt
                      /\ job'[j].status = IF Exhausted(j) THEN "dead_letter" ELSE "retryable"
      BY <1>4 DEF LosesAttempts, Failed
    <3>3. \A j \in Job \ S : job'[j] = job[j]
      BY <1>4 DEF LosesAttempts
    <3>4. \A j \in Job : Exhausted(j) <=> job[j].attempt = MaxAttempts
      BY QueueAssumption DEF Exhausted, IInv, TypeOK
    <3>5. \A j \in S : phaseOf'[j] = Contract!AfterLostAttempt(j)
      BY <3>2, <3>4 DEF phaseOf, ContractPhase, Claimable, Contract!AfterLostAttempt
    <3>6. phaseOf' = [j \in Job |-> IF j \in S THEN Contract!AfterLostAttempt(j) ELSE phaseOf[j]]
      BY <3>3, <3>5 DEF phaseOf
    <3>7. triesOf' = triesOf
      BY <3>2, <3>3 DEF triesOf
    <3>8. Contract!LoseAttempts(S)
      BY <2>2, <3>1, <3>6, <3>7 DEF Contract!LoseAttempts, phaseOf, triesOf
    <3>9. QED
      BY <3>8 DEF Contract!ContractNext
  <2>3. QED
    BY <2>1, <2>2
<1>5. ASSUME NEW j \in Job, NEW w \in Worker, NEW row \in Rows, EndsAttempt(j, w, row)
      PROVE  Goal
  <2>1. job' = [job EXCEPT ![j] = row] /\ row.attempt = triesOf[j]
    BY <1>5 DEF EndsAttempt, Succeeded, Failed, triesOf
  <2>2. phaseOf[j] = "active"
    BY <1>5 DEF EndsAttempt, phaseOf, ContractPhase, Claimable
  <2>3. /\ phaseOf' = [phaseOf EXCEPT ![j] = ContractPhase(row.status)]
        /\ triesOf' = triesOf
    <3>1. triesOf' = [triesOf EXCEPT ![j] = triesOf[j]]
      BY <2>1, OneRow
    <3>2. phaseOf' = [phaseOf EXCEPT ![j] = ContractPhase(row.status)]
      BY <2>1, OneRow
    <3>3. QED
      BY <3>1, <3>2 DEF triesOf
  <2>4. CASE row.status = "succeeded"
    <3>1. Contract!Succeed(j)
      BY <2>2, <2>3, <2>4 DEF Contract!Succeed, phaseOf, triesOf, ContractPhase, Claimable
    <3>2. QED
      BY <3>1 DEF Contract!ContractNext
  <2>5. CASE row.status = "dead_letter"
    <3>1. Contract!FailForGood(j)
      BY <2>2, <2>3, <2>5 DEF Contract!FailForGood, phaseOf, triesOf, ContractPhase, Claimable
    <3>2. QED
      BY <3>1 DEF Contract!ContractNext
  <2>6. CASE row.status = "retryable"
    <3>1. ~Exhausted(j)
      BY <1>5, <2>6 DEF EndsAttempt, Succeeded, Failed
    <3>2. triesOf[j] # MaxAttempts
      BY <3>1, QueueAssumption DEF Exhausted, triesOf, IInv, TypeOK
    <3>3. Contract!AfterLostAttempt(j) = "waiting" /\ ContractPhase(row.status) = "waiting"
      BY <2>6, <3>2 DEF Contract!AfterLostAttempt, triesOf, ContractPhase, Claimable
    <3>4. phaseOf' = [i \in Job |-> IF i \in {j} THEN Contract!AfterLostAttempt(i) ELSE phaseOf[i]]
      BY <2>3, <3>3 DEF phaseOf
    <3>5. Contract!LoseAttempts({j})
      BY <2>2, <2>3, <3>4 DEF Contract!LoseAttempts, phaseOf, triesOf
    <3>6. QED
      BY <3>5 DEF Contract!ContractNext
  <2>7. row.status \in {"succeeded", "dead_letter", "retryable"}
    BY <1>5 DEF EndsAttempt, Succeeded, Failed
  <2>8. QED
    BY <2>4, <2>5, <2>6, <2>7
<1> HIDE DEF Goal
<1>6. Goal
  BY <1>1, <1>2, <1>3, <1>4, <1>5, StepShape
<1>7. QED
  BY <1>0, <1>6

\* Claims, renewals, expiry, retries, crashes and restarts together keep the
\* contract: at most MaxAttempts attempts, one at a time, and one end.
THEOREM QueueImplementsContract == Spec => ImplementsContract
<1>1. QED
  BY ContractInitial, ContractStep, Invariance, PTL
  DEF Spec, ImplementsContract, Contract!ContractSpec

=============================================================================
