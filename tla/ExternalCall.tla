---------------------------- MODULE ExternalCall ----------------------------
(***************************************************************************)
(* Requests that call the outside world once under an idempotency key.     *)
(* There are three kinds, each with a table of its own:                    *)
(*   ask       a question that calls a model (governance/ask.go, ask.sql); *)
(*   execute   a query against a source (application/execution);           *)
(*   generate  a draft written by a model in a job                         *)
(*             (production_generation.go, production_generation_worker.go).*)
(*                                                                         *)
(* A handler is an HTTP request or, for `generate', an attempt of the job. *)
(* Database transactions are atomic; a handler may die or stall between    *)
(* them.  `version' counts the changes of what a request rests on: the     *)
(* authorized knowledge of an Ask, the workspace's authorization for an    *)
(* execution, the draft and its rights for a generation.                   *)
(***************************************************************************)
EXTENDS Naturals, FiniteSets

CONSTANTS
    Key,          \* idempotency keys
    Handler,      \* handlers that run at once
    None,
    Mixes,        \* the ways to give the keys their kinds
    Limit,        \* MaxConcurrent executions of a workspace, 2 in the code
    JobAttempts,  \* max_attempts of a generation job, 8
    MaxChanges    \* bound: changes of what requests rest on

\* A key of no kind is one nobody uses.
Kinds == {"ask", "execute", "generate", "unused"}

ASSUME CallAssumption ==
    /\ None \notin Handler \union Key
    /\ Mixes \subseteq [Key -> Kinds]
    /\ Limit \in Nat \ {0}
    /\ JobAttempts \in Nat \ {0}
    /\ MaxChanges \in Nat

VARIABLES
    kind,      \* which table each key belongs to
    row,       \* the request of each key: state, due and what it rests on
    job,       \* the job of each generation
    at,        \* where each handler is
    calls,     \* calls of the outside world made under each key
    ended,     \* the version at which the answer of the call arrived
    version

vars == <<kind, row, job, at, calls, ended, version>>

Results == {"succeeded", "clarified", "failed", "cancelled"}
Settled == Results \union {"unknown"}
Steps == {"idle", "asking", "leased", "refused", "claimed", "calling", "answered", "settling", "ending"}

Idle == [step |-> "idle", key |-> None, basis |-> 0, says |-> "failed"]
New == [state |-> "new", basis |-> 0, due |-> "fresh"]
NoJob == [state |-> "none", attempts |-> 0, holder |-> None]

\* The row every kind writes at its claim.
Running(basis) == [state |-> "running", basis |-> basis, due |-> "fresh"]

KindOf(h) == kind[at[h].key]
RowOf(h) == row[at[h].key]

Init ==
    /\ kind \in Mixes
    /\ row = [k \in Key |-> New]
    /\ job = [k \in Key |-> NoJob]
    /\ at = [h \in Handler |-> Idle]
    /\ calls = [k \in Key |-> 0]
    /\ ended = [k \in Key |-> 0]
    /\ version = 0

GoTo(h, step) == at' = [at EXCEPT ![h].step = step]
GoIdle(h) == at' = [at EXCEPT ![h] = Idle]
Settling(h, result) == at' = [at EXCEPT ![h].step = "settling", ![h].says = result]

-----------------------------------------------------------------------------
(* Time.  The call of an Ask or an execution has a deadline some seconds   *)
(* before that of its row (ask.go: 10 s, execution: 5 s), so that it is    *)
(* over when the row's deadline passes.                                    *)

InFlight(k) == \E h \in Handler : at[h].key = k /\ at[h].step = "calling"

CallDeadlinePasses(k) ==
    /\ row[k].state = "running" /\ row[k].due = "fresh"
    /\ row' = [row EXCEPT ![k].due = "overdue"]
    /\ UNCHANGED <<kind, job, at, calls, ended, version>>

RowDeadlinePasses(k) ==
    /\ row[k].state = "running" /\ row[k].due = "overdue"
    /\ kind[k] = "generate" \/ ~InFlight(k)
    /\ row' = [row EXCEPT ![k].due = "expired"]
    /\ UNCHANGED <<kind, job, at, calls, ended, version>>

\* Bug: the deadline of the call taken for that of the row.
BugIsExpired(k) == row[k].state = "running" /\ row[k].due # "fresh"
IsExpired(k) == row[k].state = "running" /\ row[k].due = "expired"

\* Bug: questions are left out.
BugSwept(a) == [k \in Key |-> IF kind[k] = a /\ a # "ask" /\ IsExpired(k) THEN [row[k] EXCEPT !.state = "unknown"] ELSE row[k]]
\* The rows of one kind once everything expired is closed, never retried.
Swept(a) == [k \in Key |-> IF kind[k] = a /\ IsExpired(k) THEN [row[k] EXCEPT !.state = "unknown"] ELSE row[k]]

\* The reconciler of main.go each minute, and any replay that finds one.
ExpireAskRequests ==
    /\ \E k \in Key : kind[k] = "ask" /\ IsExpired(k)
    /\ row' = Swept("ask")
    /\ UNCHANGED <<kind, job, at, calls, ended, version>>

\* Executions are swept by those who read or claim one, and by nobody else.
GetExecution ==
    /\ \E k \in Key : kind[k] = "execute"
    /\ row' = Swept("execute")
    /\ UNCHANGED <<kind, job, at, calls, ended, version>>

-----------------------------------------------------------------------------
(* The claim of an Ask and of an execution.                                *)

\* What the request rests on is read before it is claimed.
Begin(h, k) ==
    /\ at[h] = Idle
    /\ kind[k] = "execute" \/ (kind[k] = "ask" /\ row[k].state = "new")
    /\ at' = [at EXCEPT ![h] = [step |-> "asking", key |-> k, basis |-> version, says |-> "failed"]]
    /\ UNCHANGED <<kind, row, job, calls, ended, version>>

\* Bug: what failed may be tried again under its key.
BugIsTaken(k) == row[k].state \notin {"new", "failed", "unknown"}
IsTaken(k) == row[k].state # "new"

ClaimAsk(h) ==
    /\ at[h].step = "asking" /\ KindOf(h) = "ask"
    /\ \/ IsTaken(at[h].key) /\ GoIdle(h) /\ UNCHANGED row
       \/ ~IsTaken(at[h].key) /\ GoTo(h, "claimed") /\ row' = [row EXCEPT ![at[h].key] = Running(at[h].basis)]
    /\ UNCHANGED <<kind, job, calls, ended, version>>

RunningIn(rows) == {k \in Key : kind[k] = "execute" /\ rows[k].state = "running"}

\* Refused, with nothing written: the fence of the authorization, or too busy.
ClaimRefused(h) ==
    \/ at[h].basis # version
    \/ ~IsTaken(at[h].key) /\ Cardinality(RunningIn(Swept("execute"))) >= Limit

ClaimExecution(h) ==
    /\ at[h].step = "asking" /\ KindOf(h) = "execute"
    /\ \/ ClaimRefused(h) /\ GoIdle(h) /\ UNCHANGED row
       \/ ~ClaimRefused(h) /\ IsTaken(at[h].key) /\ GoIdle(h) /\ row' = Swept("execute")
       \/ /\ ~ClaimRefused(h) /\ ~IsTaken(at[h].key)
          /\ GoTo(h, "claimed")
          /\ row' = [Swept("execute") EXCEPT ![at[h].key] = Running(version)]
    /\ UNCHANGED <<kind, job, calls, ended, version>>

-----------------------------------------------------------------------------
(* A generation is queued by its client and claimed by attempts of a job.  *)

Queue(k) ==
    /\ kind[k] = "generate" /\ row[k].state = "new"
    /\ row' = [row EXCEPT ![k] = [New EXCEPT !.state = "queued", !.basis = version]]
    /\ job' = [job EXCEPT ![k].state = "ready"]
    /\ UNCHANGED <<kind, at, calls, ended, version>>

Lease(h, k) ==
    /\ at[h] = Idle /\ job[k].state = "ready"
    /\ job' = [job EXCEPT ![k] = [state |-> "leased", attempts |-> @.attempts + 1, holder |-> h]]
    /\ at' = [at EXCEPT ![h] = [Idle EXCEPT !.step = "leased", !.key = k]]
    /\ UNCHANGED <<kind, row, calls, ended, version>>

Holds(h) == job[at[h].key].holder = h

\* A claim cannot be taken back: an attempt that finds one gives it up.
GivesUp(state) == state = "running"

EndsWith(h, says) == at' = [at EXCEPT ![h].step = "ending", ![h].says = says]

ClaimGeneration(h) ==
    /\ at[h].step = "leased" /\ Holds(h)
    /\ \/ /\ GivesUp(RowOf(h).state)
          /\ row' = [row EXCEPT ![at[h].key].state = "unknown"]
          /\ EndsWith(h, "succeeded")
       \/ /\ RowOf(h).state \in Settled
          /\ EndsWith(h, "succeeded")
          /\ UNCHANGED row
       \/ /\ RowOf(h).state = "queued" /\ RowOf(h).basis = version
          /\ row' = [row EXCEPT ![at[h].key] = Running(@.basis)]
          /\ GoTo(h, "claimed")
       \/ RowOf(h).state = "queued" /\ GoTo(h, "refused") /\ UNCHANGED row
       \/ EndsWith(h, "failed") /\ UNCHANGED row
    /\ UNCHANGED <<kind, job, calls, ended, version>>

\* Without the lease, the claim and the report of the job are refused.
LeaseIsLost(h) ==
    /\ at[h].step \in {"leased", "ending"} /\ ~Holds(h)
    /\ GoIdle(h)
    /\ UNCHANGED <<kind, row, job, calls, ended, version>>

\* A transaction of its own closes what was refused, unless another claimed.
FinishRefused(h) ==
    /\ at[h].step = "refused"
    /\ \/ RowOf(h).state = "queued" /\ row' = [row EXCEPT ![at[h].key].state = "failed"] /\ EndsWith(h, "succeeded")
       \/ RowOf(h).state = "running" /\ UNCHANGED row /\ EndsWith(h, "failed")
       \/ RowOf(h).state \in Settled /\ UNCHANGED row /\ EndsWith(h, "succeeded")
    /\ UNCHANGED <<kind, job, calls, ended, version>>

\* A failed attempt is tried again while the job has any left.
Requeued(j) == [j EXCEPT !.holder = None, !.state = IF j.attempts < JobAttempts THEN "ready" ELSE "dead"]

EndJob(h) ==
    /\ at[h].step = "ending" /\ Holds(h)
    /\ job' = [job EXCEPT ![at[h].key] = IF at[h].says = "failed" THEN Requeued(@) ELSE [@ EXCEPT !.holder = None, !.state = "done"]]
    /\ GoIdle(h)
    /\ UNCHANGED <<kind, row, calls, ended, version>>

LoseLease(k) ==
    /\ job[k].state = "leased"
    /\ job' = [job EXCEPT ![k] = Requeued(@)]
    /\ UNCHANGED <<kind, row, at, calls, ended, version>>

-----------------------------------------------------------------------------
(* The call and its outcome.                                               *)

\* Outcomes reached without a call: the server answers itself, rights are
\* gone, there is no client for the provider, or no time is left.
WithoutCall(a) ==
    CASE a = "ask" -> {"clarified", "failed", "cancelled", "unknown"}
      [] a = "execute" -> {"failed", "cancelled"}
      [] a = "generate" -> {"failed"}

DoWithout(h) ==
    /\ at[h].step = "claimed"
    /\ \E result \in WithoutCall(KindOf(h)) : Settling(h, result)
    /\ UNCHANGED <<kind, row, job, calls, ended, version>>

\* The deadline of an Ask or an execution is absolute, that of a generation
\* begins with the call.
MayCall(h) == KindOf(h) = "generate" \/ RowOf(h).due = "fresh"

Call(h) ==
    /\ at[h].step = "claimed" /\ MayCall(h)
    /\ calls' = [calls EXCEPT ![at[h].key] = @ + 1]
    /\ GoTo(h, "calling")
    /\ UNCHANGED <<kind, row, job, ended, version>>

\* Errors, timeouts, clients that leave and cancelled executions.
Interrupted(a) ==
    CASE a = "ask" -> {"failed", "cancelled", "unknown"}
      [] a = "execute" -> {"failed", "cancelled"}
      [] a = "generate" -> {"unknown"}

Answer(h) ==
    /\ at[h].step = "calling"
    /\ GoTo(h, "answered") \/ \E result \in Interrupted(KindOf(h)) : Settling(h, result)
    /\ ended' = [ended EXCEPT ![at[h].key] = version]
    /\ UNCHANGED <<kind, row, job, calls, version>>

\* What may be said of an answer that came.
Verdicts(h) ==
    CASE KindOf(h) = "ask" ->
           IF at[h].basis = version THEN {"succeeded", "clarified", "failed", "cancelled", "unknown"}
                                    ELSE {"failed", "cancelled", "unknown"}
      [] KindOf(h) = "execute" -> {"succeeded"}
      [] KindOf(h) = "generate" -> {"succeeded", "failed"}

Judge(h) ==
    /\ at[h].step = "answered"
    /\ \E result \in Verdicts(h) : Settling(h, result)
    /\ UNCHANGED <<kind, row, job, calls, ended, version>>

IsLate(k) == kind[k] # "execute" /\ row[k].due = "expired"
\* Bug: the draft is not looked at again before its text is accepted.
BugIsStale(k) == FALSE
IsStale(k) == kind[k] = "generate" /\ row[k].basis # version

Recorded(k, says) ==
    CASE IsLate(k) -> "unknown"
      [] ~IsLate(k) /\ says = "succeeded" /\ IsStale(k) -> "failed"
      [] OTHER -> says

\* A row that another settled stays as it is.
Written(k, says) == IF row[k].state = "running" THEN Recorded(k, says) ELSE row[k].state

Leave(h, says) == IF KindOf(h) = "generate" THEN EndsWith(h, says) ELSE GoIdle(h)

Finish(h) ==
    /\ at[h].step = "settling"
    /\ row' = [row EXCEPT ![at[h].key].state = Written(at[h].key, at[h].says)]
    /\ Leave(h, "succeeded")
    /\ UNCHANGED <<kind, job, calls, ended, version>>

FinishFails(h) ==
    /\ at[h].step \in {"settling", "refused"}
    /\ Leave(h, "failed")
    /\ UNCHANGED <<kind, row, job, calls, ended, version>>

-----------------------------------------------------------------------------
(* Everything else.                                                        *)

Crash(h) ==
    /\ at[h] # Idle
    /\ GoIdle(h)
    /\ UNCHANGED <<kind, row, job, calls, ended, version>>

Change ==
    /\ version < MaxChanges
    /\ version' = version + 1
    /\ UNCHANGED <<kind, row, job, at, calls, ended>>

Time(k) == CallDeadlinePasses(k) \/ RowDeadlinePasses(k)

Proceed(h) ==
    \/ ClaimAsk(h) \/ ClaimExecution(h)
    \/ ClaimGeneration(h) \/ LeaseIsLost(h) \/ FinishRefused(h) \/ EndJob(h)
    \/ DoWithout(h) \/ Call(h) \/ Answer(h) \/ Judge(h) \/ Finish(h) \/ FinishFails(h)

Next ==
    \/ \E k \in Key : Time(k) \/ Queue(k) \/ LoseLease(k)
    \/ \E h \in Handler : Proceed(h) \/ Crash(h) \/ \E k \in Key : Begin(h, k) \/ Lease(h, k)
    \/ ExpireAskRequests
    \/ GetExecution
    \/ Change

Spec == Init /\ [][Next]_vars


\* Handlers run on: every step of theirs has a timeout.  Clocks and the
\* reconciler run on, job lanes do not wait for HTTP requests, and the lease
\* of an attempt that is gone runs out.  Nothing makes anybody ask again,
\* read an execution, queue a generation, crash or lose a lease.
IsAbandoned(k) == job[k].state = "leased" /\ at[job[k].holder].key # k
Fairness ==
    /\ \A k \in Key : WF_vars(Time(k)) /\ SF_vars(\E h \in Handler : Lease(h, k)) /\ WF_vars(IsAbandoned(k) /\ LoseLease(k))
    /\ \A h \in Handler : WF_vars(Proceed(h))
    /\ WF_vars(ExpireAskRequests)

FairSpec == Spec /\ Fairness

-----------------------------------------------------------------------------
(* Properties.                                                             *)

Rows == [state : {"new", "queued", "running"} \union Settled, basis : 0..MaxChanges, due : {"fresh", "overdue", "expired"}]
Jobs == [state : {"none", "ready", "leased", "done", "dead"}, attempts : 0..JobAttempts, holder : Handler \union {None}]
Positions == [step : Steps, key : Key \union {None}, basis : 0..MaxChanges, says : Settled]

\* Type invariant of the tables (migrations 21, 27 and 33) and the handlers.
TypeOK ==
    /\ kind \in Mixes
    /\ row \in [Key -> Rows]
    /\ job \in [Key -> Jobs]
    /\ at \in [Handler -> Positions]
    /\ calls \in [Key -> 0..2] /\ ended \in [Key -> 0..MaxChanges]
    /\ version \in 0..MaxChanges

\* No more queries of a workspace run at once than the limit says, though the
\* slots of owners that vanished are given away (docs/operations/distribution.md
\* l.149: cancellation does not release concurrency until the owner stops or
\* its absolute deadline becomes unknown).
WithinTheLimit == Cardinality({h \in Handler : at[h].step = "calling" /\ KindOf(h) = "execute"}) <= Limit

\* An answer counts only if what the request rested on when it was accepted,
\* the authorized knowledge or the draft, was still the same once the model
\* had answered.
SucceededOnItsBasis == \A k \in Key : row[k].state = "succeeded" /\ kind[k] # "execute" => ended[k] = row[k].basis

\* Claims, retries, sweeps and late handlers together keep the contract: one
\* call per key, one outcome, no success without the call, no call after an
\* outcome that is known.  A late or stale answer never becomes the outcome.
Contract == INSTANCE CallContract WITH
    outcome <- [k \in Key |-> IF row[k].state \in {"queued", "running"} THEN "open" ELSE row[k].state],
    called <- [k \in Key |-> calls[k] > 0]
CallsOnce == \A k \in Key : calls[k] <= 1
KeepsItsPromise == Contract!ContractSpec /\ [](CallsOnce /\ SucceededOnItsBasis)

\* An Ask that was claimed gets an outcome though its handler is gone, and so
\* does a generation unless its job ran out of attempts.  Executions end when
\* somebody looks.
NothingRunsForever ==
    \A k \in Key :
        /\ (kind[k] = "ask" /\ row[k].state = "running") ~> (row[k].state \in Settled)
        /\ (kind[k] = "generate" /\ row[k].state \in {"queued", "running"}) ~> (row[k].state \in Settled \/ job[k].state = "dead")

=============================================================================
