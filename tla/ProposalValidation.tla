------------------------- MODULE ProposalValidation -------------------------
(***************************************************************************)
(* From the submission of one proposal to its review: the submit request  *)
(* and its retries (authoring.go, orchestration.go), the validation job's  *)
(* handler (validatejob.go, validation.go, decision.go), and the part of   *)
(* review and release that reads what validation wrote.                    *)
(*                                                                         *)
(* The job is a job of JobContract: the idempotency key makes it the only  *)
(* one the proposal ever has.  Handlers write with no fence of their own,  *)
(* so that the handler of a lost attempt may still run beside the next.    *)
(* A step is one repository call; reads that only repeat the check of the  *)
(* transaction after them are part of that transaction's step.             *)
(***************************************************************************)
EXTENDS Integers, Sequences, Bags

CONSTANTS
    Client,         \* submit requests in flight at once
    NumValidators,  \* the registry, in its order: 1..NumValidators
    MaxAttempts,    \* ValidationJobMaxAttempts
    Worlds,         \* what the references of the frozen change-set may
                    \* resolve to: the validators that would find a blocker
    MaxChanges,     \* bound: changes of the world
    MaxErrors,      \* bound: infrastructure errors
    MaxLosses       \* bound: crashes and stalls

Validators == 1..NumValidators
Attempts == 1..MaxAttempts

ASSUME ValidationAssumption ==
    /\ NumValidators \in Nat \ {0}
    /\ MaxAttempts \in Nat \ {0}
    /\ Worlds \subseteq SUBSET Validators
    /\ MaxChanges \in Nat /\ MaxErrors \in Nat /\ MaxLosses \in Nat

VARIABLES
    stage,          \* proposals.state
    client,         \* where each submit request is
    phase, tries,   \* the validation job
    exec,           \* the handler of each attempt
    overlapped,     \* for the properties: an attempt started beside the
                    \* handler of a lost one
    run,            \* validation_runs.status, per validator
    results,        \* validation_results, per run
    orchestration,  \* status of the run that records a degradation
    decisions,      \* policy_decisions, by their inputs
    gatePassed,     \* a publish request has passed its checks
    world,          \* what references resolve to now
    changes, errors, losses

proposalVars == <<stage, client, gatePassed>>
jobVars == <<phase, tries, overlapped>>
runVars == <<run, results, orchestration>>
boundVars == <<world, changes, errors, losses>>
validationVars == <<stage, client, phase, tries, exec, overlapped, run, results, orchestration, decisions,
          gatePassed, world, changes, errors, losses>>

Queue == INSTANCE JobContract WITH Job <- {"validation"}

\* A finding carries the digest of its input and details.  Those a validator
\* gives, nothing or a count, do not come back from the jsonb column as they
\* were: nothing is stored as {}, and a count is spaced otherwise.
Kinds == {"blocker", "completed"}
Finding == [kind: Kinds, input: Worlds, details: {"given"}]
StoredFinding == [kind: Kinds, input: Worlds, details: {"stored"}]

Given(kind, input) == [kind |-> kind, input |-> input, details |-> "given"]
AsStored(finding) == [finding EXCEPT !.details = "stored"]

Settled == {"released", "rejected"}

NoSight == [blockers |-> FALSE, failed |-> FALSE]
Handler(pc, v, input) ==
    [pc |-> pc, v |-> v, input |-> input, todo |-> <<>>, sight |-> NoSight, degraded |-> FALSE]
NotStarted == Handler("none", 1, {})
Gone == Handler("gone", 1, {})

ValidationInit ==
    /\ stage = "draft"
    /\ client = [c \in Client |-> "idle"]
    /\ Queue!ContractInit
    /\ exec = [a \in Attempts |-> NotStarted]
    /\ overlapped = FALSE
    /\ run = [v \in Validators |-> "none"]
    /\ results = [v \in Validators |-> EmptyBag]
    /\ orchestration = "none"
    /\ decisions = {}
    /\ gatePassed = FALSE
    /\ world \in Worlds
    /\ changes = 0
    /\ errors = 0
    /\ losses = 0

-----------------------------------------------------------------------------
(* SubmitProposal and BeginValidation.                                     *)

ClientAt(c, pc) == client' = [client EXCEPT ![c] = pc]

ReadForSubmit(c) ==
    /\ client[c] = "idle"
    /\ \/ stage = "draft" /\ ClientAt(c, "submit")
       \/ stage \in {"proposed", "validating"} /\ ClientAt(c, "begin")
    /\ UNCHANGED <<stage, gatePassed, jobVars, exec, runVars, decisions, boundVars>>

\* Refused when a concurrent request submitted the draft first.
Submit(c) ==
    /\ client[c] = "submit"
    /\ IF stage = "draft"
       THEN stage' = "proposed" /\ ClientAt(c, "begin")
       ELSE ClientAt(c, "idle") /\ UNCHANGED stage
    /\ UNCHANGED <<gatePassed, jobVars, exec, runVars, decisions, boundVars>>

BeginValidation(c) ==
    /\ client[c] = "begin"
    /\ IF stage \in {"proposed", "validating"}
       THEN stage' = "validating" /\ ClientAt(c, "enqueue")
       ELSE ClientAt(c, "idle") /\ UNCHANGED stage
    /\ UNCHANGED <<gatePassed, jobVars, exec, runVars, decisions, boundVars>>

\* An existing job, dead or alive, is returned for its idempotency key.
EnqueueValidation(c) ==
    /\ client[c] = "enqueue"
    /\ IF phase.validation = "absent" THEN Queue!Submit("validation") ELSE UNCHANGED <<phase, tries>>
    /\ ClientAt(c, "idle")
    /\ UNCHANGED <<stage, gatePassed, exec, overlapped, runVars, decisions, boundVars>>

\* The request or the server behind it dies.
AbandonSubmit(c) ==
    /\ client[c] # "idle"
    /\ ClientAt(c, "idle")
    /\ UNCHANGED <<stage, gatePassed, jobVars, exec, runVars, decisions, boundVars>>

-----------------------------------------------------------------------------
(* The job's attempts.                                                     *)

Running(a) == exec[a].pc \notin {"none", "gone"}
Current(a) == phase.validation = "active" /\ tries.validation = a

StartAttempt ==
    /\ Queue!Attempt("validation")
    /\ overlapped' = (overlapped \/ \E a \in Attempts : Running(a))
    /\ exec' = [exec EXCEPT ![tries'.validation] = Handler("load", 1, {})]
    /\ UNCHANGED <<proposalVars, runVars, decisions, boundVars>>

\* The handler returned; a lost attempt has no say any more.
HandlerReturns(a) ==
    /\ exec[a].pc \in {"ok", "failed"}
    /\ IF Current(a)
       THEN IF exec[a].pc = "ok"
            THEN Queue!Succeed("validation")
            ELSE Queue!LoseAttempts({"validation"})
       ELSE UNCHANGED <<phase, tries>>
    /\ exec' = [exec EXCEPT ![a] = Gone]
    /\ UNCHANGED <<proposalVars, overlapped, runVars, decisions, boundVars>>

\* The worker crashes, or its handler panics.
CrashHandler(a) ==
    /\ Running(a)
    /\ Current(a)
    /\ losses < MaxLosses
    /\ losses' = losses + 1
    /\ exec' = [exec EXCEPT ![a] = Gone]
    /\ UNCHANGED <<proposalVars, jobVars, runVars, decisions, world, changes, errors>>

\* ReapExpiredJobs finds the lease of a dead worker.
ReapDead ==
    /\ \E a \in Attempts : Current(a) /\ ~Running(a)
    /\ Queue!LoseAttempts({"validation"})
    /\ UNCHANGED <<proposalVars, exec, overlapped, runVars, decisions, boundVars>>

\* ... or of one that stalled, and has not yet noticed.
ReapStalled ==
    /\ \E a \in Attempts : Current(a) /\ Running(a)
    /\ losses < MaxLosses
    /\ losses' = losses + 1
    /\ Queue!LoseAttempts({"validation"})
    /\ UNCHANGED <<proposalVars, exec, overlapped, runVars, decisions, world, changes, errors>>

\* Its next heartbeat cancels the handler.
CancelStalled(a) ==
    /\ Running(a)
    /\ ~Current(a)
    /\ exec' = [exec EXCEPT ![a] = Gone]
    /\ UNCHANGED <<proposalVars, jobVars, runVars, decisions, boundVars>>

-----------------------------------------------------------------------------
(* ValidationJobHandler.Handle and ValidationExecutor.Execute.             *)

To(a, pc) == exec' = [exec EXCEPT ![a].pc = pc]

\* Execute returned nil; after a degradation its error is returned still.
Done(a) == To(a, IF exec[a].degraded THEN "failed" ELSE "ok")

\* Execute returned an error: the final attempt degrades, once.
Degrading(a) == exec' = [exec EXCEPT ![a].pc = "degrade", ![a].degraded = TRUE]
BugNeverDegrades(a) == To(a, "failed")
BugDegradesEveryAttempt(a) == IF ~exec[a].degraded THEN Degrading(a) ELSE To(a, "failed")
Fail(a) == IF a = MaxAttempts /\ ~exec[a].degraded THEN Degrading(a) ELSE To(a, "failed")

\* Whatever call is next returns an infrastructure error.
InfraError(a) ==
    /\ exec[a].pc \notin {"none", "gone", "ok", "failed"}
    /\ errors < MaxErrors
    /\ errors' = errors + 1
    /\ Fail(a)
    /\ UNCHANGED <<proposalVars, jobVars, runVars, decisions, world, changes, losses>>

Load(a) ==
    /\ exec[a].pc = "load"
    /\ CASE stage = "in_review" -> To(a, "ensure_decision")
         [] stage = "validating" -> exec' = [exec EXCEPT ![a] = Handler("find", 1, world)]
         [] OTHER -> Done(a)
    /\ UNCHANGED <<proposalVars, jobVars, runVars, decisions, boundVars>>

\* What the validator finds in the input, and what of it is not on record: the
\* keys compare digest and details byte by byte, which finds no match, so that
\* an attempt records again what one before it recorded.
BugOverlooksDigest(v, finding) ==
    IF \E f \in DOMAIN results[v] : f.kind = finding.kind THEN <<>> ELSE <<finding>>
Unrecorded(v, finding) == IF BagIn(finding, results[v]) THEN <<>> ELSE <<finding>>
MissingFindings(v, input) ==
    (IF v \in input THEN Unrecorded(v, Given("blocker", input)) ELSE <<>>)
    \o Unrecorded(v, Given("completed", input))

HasBlocker(v) == \E f \in DOMAIN results[v] : f.kind = "blocker"
Outcome(v, input) == IF v \in input THEN "failed" ELSE "succeeded"

\* The next validator, or the transition after the last.
Advance(a) ==
    IF exec[a].v < NumValidators
    THEN exec' = [exec EXCEPT ![a].v = @ + 1, ![a].pc = "find", ![a].todo = <<>>]
    ELSE To(a, "leave_validating")

\* ensureRun, its lookup: a finished run is not run again.
FindRun(a) ==
    /\ exec[a].pc = "find"
    /\ CASE run[exec[a].v] = "none" -> To(a, "create")
         [] run[exec[a].v] = "running" -> To(a, "list")
         [] OTHER -> Advance(a)
    /\ UNCHANGED <<proposalVars, jobVars, runVars, decisions, boundVars>>

\* The unique index refuses a second run of the validator.
CreateRun(a) ==
    LET v == exec[a].v IN
    /\ exec[a].pc = "create"
    /\ IF run[v] = "none"
       THEN run' = [run EXCEPT ![v] = "running"] /\ To(a, "list")
       ELSE Fail(a) /\ UNCHANGED run
    /\ UNCHANGED <<proposalVars, jobVars, results, orchestration, decisions, boundVars>>

ListResults(a) ==
    LET todo == MissingFindings(exec[a].v, exec[a].input) IN
    /\ exec[a].pc = "list"
    /\ exec' = [exec EXCEPT ![a].todo = todo,
                            ![a].pc = IF todo = <<>> THEN "check" ELSE "record"]
    /\ UNCHANGED <<proposalVars, jobVars, runVars, decisions, boundVars>>

\* RecordResult reads the run's status ...
CheckRunning(a) ==
    /\ exec[a].pc = "record"
    /\ IF run[exec[a].v] = "running" THEN To(a, "insert") ELSE Fail(a)
    /\ UNCHANGED <<proposalVars, jobVars, runVars, decisions, boundVars>>

\* ... and then inserts the finding.
InsertResult(a) ==
    LET v == exec[a].v
        rest == Tail(exec[a].todo)
    IN
    /\ exec[a].pc = "insert"
    /\ results' = [results EXCEPT ![v] = @ (+) SetToBag({AsStored(Head(exec[a].todo))})]
    /\ exec' = [exec EXCEPT ![a].todo = rest,
                            ![a].pc = IF rest = <<>> THEN "check" ELSE "record"]
    /\ UNCHANGED <<proposalVars, jobVars, run, orchestration, decisions, boundVars>>

\* FinishRun reads the status and the findings: a run with a blocker is not
\* declared successful ...
BugFinishesAnyway(a) == run[exec[a].v] = "running"
MayFinish(a) ==
    LET v == exec[a].v IN
    /\ run[v] = "running"
    /\ Outcome(v, exec[a].input) = "succeeded" => ~HasBlocker(v)

CheckFinish(a) ==
    /\ exec[a].pc = "check"
    /\ IF MayFinish(a) THEN To(a, "finish") ELSE Fail(a)
    /\ UNCHANGED <<proposalVars, jobVars, runVars, decisions, boundVars>>

\* ... and then updates a run that is still running.
FinishRun(a) ==
    LET v == exec[a].v IN
    /\ exec[a].pc = "finish"
    /\ IF run[v] = "running"
       THEN run' = [run EXCEPT ![v] = Outcome(v, exec[a].input)] /\ Advance(a)
       ELSE Fail(a) /\ UNCHANGED run
    /\ UNCHANGED <<proposalVars, jobVars, results, orchestration, decisions, boundVars>>

\* transitionToReview, its read: a proposal that left is left alone.
LeaveValidating(a) ==
    /\ exec[a].pc = "leave_validating"
    /\ IF stage = "validating" THEN To(a, "transition") ELSE Done(a)
    /\ UNCHANGED <<proposalVars, jobVars, runVars, decisions, boundVars>>

\* Transition: in_review to in_review is a legal no-op.
ToReview(a) ==
    /\ exec[a].pc = "transition"
    /\ IF stage \in {"validating", "in_review"}
       THEN stage' = "in_review" /\ To(a, "ensure_decision")
       ELSE Done(a) /\ UNCHANGED stage
    /\ UNCHANGED <<client, gatePassed, jobVars, runVars, decisions, boundVars>>

\* EnsureDecisionForProposal collects the inputs of the risk rule ...
BugIgnoresFailedRuns ==
    [blockers |-> \E v \in Validators : run[v] # "failed" /\ HasBlocker(v),
     failed |-> orchestration = "failed" \/ \E v \in Validators : run[v] = "failed"]
SeenNow == [blockers |-> \E v \in Validators : HasBlocker(v),
            failed |-> orchestration = "failed" \/ \E v \in Validators : run[v] = "failed"]
CollectInputs(a) ==
    /\ exec[a].pc = "ensure_decision"
    /\ IF stage = "in_review"
       THEN exec' = [exec EXCEPT ![a].pc = "decide", ![a].sight = SeenNow]
       ELSE Done(a)
    /\ UNCHANGED <<proposalVars, jobVars, runVars, decisions, boundVars>>

\* ... and records a decision the proposal does not have yet.  Linking it
\* updates the proposal, which a trigger refuses once it is settled.
Frozen == stage \in Settled
Decide(a) ==
    /\ exec[a].pc = "decide"
    /\ IF Frozen /\ exec[a].sight \notin decisions
       THEN Fail(a) /\ UNCHANGED decisions
       ELSE decisions' = decisions \union {exec[a].sight} /\ Done(a)
    /\ UNCHANGED <<proposalVars, jobVars, runVars, boundVars>>

\* degrade: a failed orchestration run, and then the proposal moves on.
StartDegrading(a) ==
    /\ exec[a].pc = "degrade"
    /\ orchestration' = "running"
    /\ To(a, "record_degradation")
    /\ UNCHANGED <<proposalVars, jobVars, run, results, decisions, boundVars>>

RecordDegradation(a) ==
    /\ exec[a].pc = "record_degradation"
    /\ orchestration' = "failed"
    /\ To(a, "leave_validating")
    /\ UNCHANGED <<proposalVars, jobVars, run, results, decisions, boundVars>>

-----------------------------------------------------------------------------
(* Review and release, as far as they touch validation.                    *)

Reject ==
    /\ stage = "in_review"
    /\ stage' = "rejected"
    /\ UNCHANGED <<client, gatePassed, jobVars, exec, runVars, decisions, boundVars>>

\* CountBlockingResults: the blockers of running and succeeded runs.
BlockersCounted == \E v \in Validators : run[v] \in {"running", "succeeded"} /\ HasBlocker(v)

PassGate ==
    /\ stage = "in_review"
    /\ ~BlockersCounted
    /\ gatePassed' = TRUE
    /\ UNCHANGED <<stage, client, jobVars, exec, runVars, decisions, boundVars>>

\* The release transaction checks the state again, and nothing else of these.
ReleaseProposal ==
    /\ gatePassed
    /\ gatePassed' = FALSE
    /\ stage' = IF stage = "in_review" THEN "released" ELSE stage
    /\ UNCHANGED <<client, jobVars, exec, runVars, decisions, boundVars>>

\* An object the change-set refers to is created or removed.
ChangeWorld ==
    /\ changes < MaxChanges
    /\ changes' = changes + 1
    /\ world' \in Worlds \ {world}
    /\ UNCHANGED <<proposalVars, jobVars, exec, runVars, decisions, errors, losses>>

-----------------------------------------------------------------------------

HandlerStep(a) ==
    \/ Load(a) \/ FindRun(a) \/ CreateRun(a) \/ ListResults(a)
    \/ CheckRunning(a) \/ InsertResult(a) \/ CheckFinish(a) \/ FinishRun(a)
    \/ LeaveValidating(a) \/ ToReview(a) \/ CollectInputs(a) \/ Decide(a)
    \/ StartDegrading(a) \/ RecordDegradation(a)

ValidationNext ==
    \/ \E c \in Client :
        ReadForSubmit(c) \/ Submit(c) \/ BeginValidation(c) \/ EnqueueValidation(c)
        \/ AbandonSubmit(c)
    \/ StartAttempt \/ ReapDead \/ ReapStalled
    \/ \E a \in Attempts :
        HandlerStep(a) \/ HandlerReturns(a) \/ InfraError(a) \/ CrashHandler(a) \/ CancelStalled(a)
    \/ Reject \/ PassGate \/ ReleaseProposal \/ ChangeWorld

ValidationSpec == ValidationInit /\ [][ValidationNext]_validationVars

-----------------------------------------------------------------------------
(* Properties.                                                             *)

HandlerSteps ==
    {"none", "gone", "ok", "failed", "load", "find", "create", "list", "record", "insert",
     "check", "finish", "leave_validating", "transition", "ensure_decision", "decide",
     "degrade", "record_degradation"}

\* Types of the rows and of the handlers' places.
ValidationTypeOK ==
    /\ stage \in {"draft", "proposed", "validating", "in_review", "released", "rejected"}
    /\ client \in [Client -> {"idle", "submit", "begin", "enqueue"}]
    /\ phase.validation \in Queue!Phases
    /\ tries.validation \in 0..MaxAttempts
    /\ \A a \in Attempts :
        /\ exec[a].pc \in HandlerSteps
        /\ exec[a].v \in Validators
        /\ exec[a].todo \in Seq(Finding)
        /\ exec[a].degraded => a = MaxAttempts
    /\ run \in [Validators -> {"none", "running", "succeeded", "failed"}]
    /\ \A v \in Validators : IsABag(results[v]) /\ DOMAIN results[v] \subseteq StoredFinding
    /\ orchestration \in {"none", "running", "failed"}
    /\ decisions \subseteq [blockers: BOOLEAN, failed: BOOLEAN]
    /\ world \in Worlds

\* Nobody reviews a proposal that was not validated: every validator has
\* finished, or a degradation says that validation did not complete.  And as
\* long as no attempt ran beside the handler of a lost one, a blocker that
\* validation found has been seen by the decision that routes the proposal,
\* were it found by an attempt that then failed (EnsureDecisionForProposal
\* over every run of the proposal).
ReviewFollowsValidation ==
    /\ stage \in {"in_review", "released", "rejected"} =>
        \/ orchestration = "failed"
        \/ \A v \in Validators : run[v] \in {"succeeded", "failed"}
    /\ ~overlapped /\ decisions # {} /\ (\E v \in Validators : HasBlocker(v))
        => \E d \in decisions : d.blockers

\* A run that ended is reproducible: all findings of one input are on record,
\* with its digest, and that input yields the outcome, whatever other attempts
\* found in other inputs before or beside ("every recorded run is
\* reproducible", completedFinding).
WholeReport(v, input) ==
    \A kind \in Kinds : kind = "completed" \/ v \in input
        => AsStored(Given(kind, input)) \in DOMAIN results[v]

OutcomeIsReproducible ==
    \A v \in Validators : run[v] \in {"succeeded", "failed"} =>
        \E input \in Worlds : run[v] = Outcome(v, input) /\ WholeReport(v, input)

\* As long as no attempt ran beside the handler of a lost one, a run ends by all
\* of its findings: it has failed if and only if a blocker is on record, were
\* that found by an attempt before, from references that resolve to something
\* else by now (runValidator, FinishRun).
RunTellsItsFindings ==
    ~overlapped => \A v \in Validators :
        /\ run[v] = "failed" => HasBlocker(v)
        /\ run[v] = "succeeded" => ~HasBlocker(v)

\* No single fault, be it an infrastructure error, a crash or a stalled worker,
\* lets the job die before the proposal has reached human handling (the retries
\* of the job and the degradation of its last attempt together).
OneFaultIsSurvived ==
    phase.validation = "dead" /\ losses + errors <= 1
        => stage \in {"in_review", "released", "rejected"}

\* Only a blocker prevents a release, and it does (validation.go).
BlockerNeverReleased ==
    [][stage # "released" /\ stage' = "released" => \A v \in Validators : ~HasBlocker(v)]_validationVars

=============================================================================
