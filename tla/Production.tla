----------------------------- MODULE Production -----------------------------
(***************************************************************************)
(* Semantic production: operations propose one set of changes to several   *)
(* identities at once, which is validated, reviewed, published and rolled  *)
(* back as a whole (production*.go, semantic_production.go and the guards  *)
(* of migrations 25 and 26).                                               *)
(*                                                                         *)
(* Every command is one transaction under the lock on the workspace, and   *)
(* repeats inside it whatever was read before.  Rights, freshness of the   *)
(* sources and business rules may refuse any command; a refused command,   *)
(* and a repeated one, changes nothing.  The validation worker is the one  *)
(* that works outside the lock between two of its steps.                   *)
(*                                                                         *)
(* What an operation writes for a target has the name of the operation:    *)
(* only the last version of an operation is ever published.                *)
(***************************************************************************)
EXTENDS Integers, FiniteSets, FiniteSetsExt, Sequences

CONSTANTS
    Operation,   \* the production operations that may be created
    Principal,   \* users and agents
    Author,      \* those with the right to create and edit operations
    Reviewer,    \* those with the right to review
    Publisher,   \* those with the right to publish and to roll back
    Asset,       \* identities of semantic assets
    Object,      \* identities of governed objects, e.g. bindings and joins
    Worker,      \* the lanes that validate
    None,        \* no content, no operation, no work
    Proposed,    \* bound: the sets of identities that a draft changes
    MaxVersions, \* bound: versions of all operations
    MaxAttempts, \* bound: validation attempts of all operations, 256 each in the code
    JobAttempts, \* attempts of a validation job, 8 in the code
    MaxRetries,  \* bound: executions of jobs after the first
    MaxReleases  \* bound: releases

Target == Asset \union Object

ASSUME ProductionAssumption ==
    /\ None \notin Operation
    /\ Author \union Reviewer \union Publisher \subseteq Principal
    /\ Asset \intersect Object = {}
    /\ Proposed \subseteq (SUBSET Target) \ {{}}
    /\ MaxVersions \in Nat
    /\ MaxAttempts \in Nat
    /\ JobAttempts \in Nat \ {0}
    /\ MaxRetries \in Nat
    /\ MaxReleases \in Nat

VARIABLES
    operation,    \* production_operations with its current production_versions row
    contributors, \* production_contributors
    approvals,    \* production_review_bindings of approving reviews
    reservation,  \* production_identity_reservations
    registry,     \* semantic_assets.current_revision_id, contents of objects
    releases,     \* releases with production_release_manifests
    job,          \* attempts left to the job of the active validation attempt
    retries,      \* executions after the first, to bound them
    working       \* what each worker has evaluated

vars == <<operation, contributors, approvals, reservation, registry, releases, job, retries, working>>

MemberStates == {"none", "draft", "validating", "in_review", "released", "rejected"}
Terminal == {"none", "released", "rejected"}
Ended == {"succeeded", "failed"}

NoOperation == [version |-> 0, base |-> 0, frozen |-> FALSE, supersedes |-> None,
                members |-> [t \in Target |-> "none"], attempt |-> 0, status |-> "none"]

Init ==
    /\ operation = [o \in Operation |-> NoOperation]
    /\ contributors = [o \in Operation |-> {}]
    /\ approvals = [o \in Operation |-> {}]
    /\ reservation = [t \in Target |-> [creation |-> None, owner |-> None]]
    /\ registry = [t \in Target |-> None]
    /\ releases = <<>>
    /\ job = [o \in Operation |-> 0]
    /\ retries = 0
    /\ working = [w \in Worker |-> None]

-----------------------------------------------------------------------------
(* The published manifests.                                                *)

Latest == Len(releases)
Pins(n) == IF n = 0 THEN [t \in Target |-> None] ELSE releases[n].pins

Targets(o) == {t \in Target : operation[o].members[t] # "none"}
IsActive(o) == \E t \in Target : operation[o].members[t] \notin Terminal
Versions == MapThenSumSet(LAMBDA o : operation[o].version, Operation)
Attempts == MapThenSumSet(LAMBDA o : operation[o].attempt, Operation)
Superseded(o) == \E q \in Operation : operation[q].supersedes = o

\* checkProductionBaselineTx: the whole head is part of the baseline.
BaselineHolds(o) == operation[o].base = Latest

\* The release that created what t is now absent of, by a rollback of it.
AbsenceProof(t) ==
    {c \in DOMAIN releases :
        /\ releases[c].kind = "applied" /\ Pins(c - 1)[t] = None /\ Pins(c)[t] # None
        /\ \E a \in c + 1 .. Latest :
            /\ releases[a].kind = "rollback" /\ releases[a].root = c
            /\ Pins(a - 1)[t] # None
            /\ \A n \in a..Latest : Pins(n)[t] = None}

NeverPublished(t) == \A n \in DOMAIN releases : Pins(n)[t] = None

-----------------------------------------------------------------------------
(* Authoring.                                                              *)

\* guard_production_reserved_proposal: an update of a published identity.
MayUpdate(o, q, t) ==
    /\ Pins(Latest)[t] # None
    /\ reservation[t].owner \in {o, q} \/ ~IsActive(reservation[t].owner)

\* createOperation, replaceDraft: a new identity, or one that the last draft
\* or the predecessor was about to create.
MayCreate(o, q, t) ==
    /\ Pins(Latest)[t] = None /\ NeverPublished(t)
    /\ LET owner == reservation[t].owner IN
        owner # None => owner \in {o, q} /\ operation[owner].members[t] # "none"

\* productionReintroductionBaselineTx: an identity that a rollback took away.
MayReintroduce(o, t) ==
    /\ Pins(Latest)[t] = None /\ AbsenceProof(t) # {}
    /\ t \in Asset => registry[t] = None
    /\ reservation[t].owner = o \/ ~IsActive(reservation[t].owner)

MayPropose(o, q, t) == MayUpdate(o, q, t) \/ MayCreate(o, q, t) \/ MayReintroduce(o, t)

Reintroduced(T) == {t \in T : Pins(Latest)[t] = None /\ AbsenceProof(t) # {}}

\* inheritProductionCreationContributorsTx.
Inherited(T) ==
    LET again == Reintroduced(T)
        by == {reservation[t].creation : t \in again}
            \union {releases[c].op : c \in UNION {AbsenceProof(t) : t \in again}}
    IN  UNION {contributors[o] : o \in by}

Draft(T) == [t \in Target |-> IF t \in T THEN "draft" ELSE "none"]

\* A new identity is reserved; a reintroduced one, and one of the operation
\* that is superseded, changes hands.
Reserved(o, q, T) ==
    [t \in Target |->
        IF t \notin T THEN reservation[t]
        ELSE IF reservation[t].owner = None THEN [creation |-> o, owner |-> o]
        ELSE IF reservation[t].owner = q \/ t \in Reintroduced(T) THEN [reservation[t] EXCEPT !.owner = o]
        ELSE reservation[t]]

\* transferProductionSupersedeTx: the members of the predecessor are rejected.
Rejected(members) == [t \in Target |-> IF members[t] \in Terminal THEN members[t] ELSE "rejected"]

MaySupersede(q) == operation[q].version > 0 /\ ~Superseded(q)

\* CreateProductionOperationTx, with or without a predecessor q.
Create(p, o, q, T) ==
    /\ operation[o].version = 0 /\ Versions < MaxVersions
    /\ q # None => q # o /\ MaySupersede(q)
    /\ \A t \in T : MayPropose(o, q, t)
    /\ operation' = [r \in Operation |->
            IF r = o THEN [NoOperation EXCEPT !.version = 1, !.base = Latest, !.supersedes = q, !.members = Draft(T)]
            ELSE IF r = q THEN [operation[r] EXCEPT !.members = Rejected(@)]
            ELSE operation[r]]
    /\ contributors' = [contributors EXCEPT ![o] = {p} \union Inherited(T)]
    /\ reservation' = Reserved(o, q, T)
    /\ UNCHANGED <<approvals, registry, releases, job, retries, working>>

\* lockProductionDraft and guard_production_operation_version.
IsDraft(o) ==
    /\ operation[o].version > 0 /\ ~operation[o].frozen /\ ~Superseded(o)
    /\ \A t \in Targets(o) : operation[o].members[t] = "draft"

\* ReplaceDraftTx.
ReplaceDraft(p, o, T) ==
    /\ IsDraft(o)
    /\ Versions < MaxVersions
    /\ \A t \in T : MayPropose(o, None, t)
    /\ operation' = [operation EXCEPT ![o].version = @ + 1, ![o].base = Latest, ![o].members = Draft(T),
                                      ![o].frozen = FALSE, ![o].attempt = 0, ![o].status = "none"]
    /\ contributors' = [contributors EXCEPT ![o] = @ \union {p}]
    /\ reservation' = Reserved(o, None, T)
    /\ UNCHANGED <<approvals, registry, releases, job, retries, working>>

-----------------------------------------------------------------------------
(* Validation.                                                             *)

QueueAttempt(o, members) ==
    /\ Attempts < MaxAttempts
    /\ operation' = [operation EXCEPT ![o].frozen = TRUE, ![o].members = members,
                                      ![o].attempt = @ + 1, ![o].status = "queued"]
    /\ job' = [job EXCEPT ![o] = JobAttempts]
    /\ UNCHANGED <<contributors, approvals, reservation, registry, releases, retries, working>>

\* SubmitOperation.
Submit(o) ==
    /\ operation[o].version > 0 /\ ~operation[o].frozen
    /\ \A t \in Targets(o) : operation[o].members[t] = "draft"
    /\ BaselineHolds(o)
    /\ QueueAttempt(o, [t \in Target |-> IF t \in Targets(o) THEN "validating" ELSE "none"])

\* ValidateOperation: another attempt on the frozen version.
Validate(o) ==
    /\ operation[o].frozen /\ operation[o].status \in Ended
    /\ \A t \in Targets(o) : operation[o].members[t] = "in_review"
    /\ BaselineHolds(o)
    /\ QueueAttempt(o, operation[o].members)

\* A worker claims the job of the active attempt, perhaps after the lease of
\* another ran out, and evaluates the checks (LoadProductionValidationWork).
Evaluate(w, o, passes) ==
    /\ working[w] = None
    /\ operation[o].status = "queued" /\ job[o] > 0
    /\ retries' = IF job[o] < JobAttempts THEN retries + 1 ELSE retries
    /\ retries' <= MaxRetries
    /\ job' = [job EXCEPT ![o] = @ - 1]
    /\ working' = [working EXCEPT ![w] = [op |-> o, version |-> operation[o].version, attempt |-> operation[o].attempt,
                                          passes |-> passes /\ BaselineHolds(o), last |-> job[o] = 1]]
    /\ UNCHANGED <<operation, contributors, approvals, reservation, registry, releases>>

\* What CompleteProductionValidation requires under the lock; otherwise it
\* changes nothing.
BugEndsTwice(work) == operation[work.op].version = work.version /\ operation[work.op].attempt = work.attempt
IsOpen(work) ==
    /\ operation[work.op].version = work.version
    /\ operation[work.op].attempt = work.attempt
    /\ operation[work.op].status = "queued"

Passes(work) == work.passes /\ BaselineHolds(work.op)

InReview(members) == [t \in Target |-> IF members[t] = "validating" THEN "in_review" ELSE members[t]]

Seal(work, verdict) ==
    operation' = IF IsOpen(work)
                 THEN [operation EXCEPT ![work.op].status = verdict, ![work.op].members = InReview(@)]
                 ELSE operation

Complete(w) ==
    /\ working[w] # None
    /\ Seal(working[w], IF Passes(working[w]) THEN "succeeded" ELSE "failed")
    /\ working' = [working EXCEPT ![w] = None]
    /\ UNCHANGED <<contributors, approvals, reservation, registry, releases, job, retries>>

\* FailProductionValidation: the last execution of the job ends in an error.
FailLast(w) ==
    /\ working[w] # None /\ working[w].last
    /\ Seal(working[w], "failed")
    /\ working' = [working EXCEPT ![w] = None]
    /\ UNCHANGED <<contributors, approvals, reservation, registry, releases, job, retries>>

\* An execution that is retried, or a worker that stops.
Lose(w) ==
    /\ working[w] # None
    /\ working' = [working EXCEPT ![w] = None]
    /\ UNCHANGED <<operation, contributors, approvals, reservation, registry, releases, job, retries>>

-----------------------------------------------------------------------------
(* Review.                                                                 *)

\* productionAttemptGate.
Gate(o) == operation[o].frozen /\ operation[o].status = "succeeded" /\ BaselineHolds(o)
GateToReject(o) == operation[o].frozen /\ operation[o].status \in Ended

MayReview(p, o, T) ==
    /\ p \notin contributors[o]
    /\ \A t \in T : operation[o].members[t] = "in_review" /\ <<p, t, operation[o].attempt>> \notin approvals[o]

Approve(p, o, T) ==
    /\ Gate(o) /\ MayReview(p, o, T)
    /\ approvals' = [approvals EXCEPT ![o] = @ \union {<<p, t, operation[o].attempt>> : t \in T}]
    /\ UNCHANGED <<operation, contributors, reservation, registry, releases, job, retries, working>>

Reject(p, o, T) ==
    /\ GateToReject(o) /\ MayReview(p, o, T)
    /\ operation' = [operation EXCEPT ![o].members = [t \in Target |-> IF t \in T THEN "rejected" ELSE @[t]]]
    /\ UNCHANGED <<contributors, approvals, reservation, registry, releases, job, retries, working>>

-----------------------------------------------------------------------------
(* Releases.                                                               *)

\* productionApprovalsTx: only the reviews of the active attempt count.
BugOfAnyAttempt(o) == approvals[o]
Adopted(o) == {r \in approvals[o] : r[3] = operation[o].attempt}
Reviewers(o) == {r[1] : r \in Adopted(o)}

\* productionAssetRevisionTx.
RegistryAtBase(o) == \A t \in Targets(o) \intersect Asset : registry[t] = Pins(operation[o].base)[t]

IsIndependent(p, o) ==
    /\ p \notin contributors[o] \union Reviewers(o)
    /\ Reviewers(o) \intersect contributors[o] = {}
    /\ \A t \in Targets(o) : \E r \in Adopted(o) : r[2] = t

\* PublishProductionCommand.
Publish(p, o) ==
    /\ Gate(o) /\ IsIndependent(p, o)
    /\ \A t \in Targets(o) : operation[o].members[t] = "in_review"
    /\ RegistryAtBase(o)
    /\ Latest < MaxReleases
    /\ releases' = Append(releases,
            [kind |-> "applied", op |-> o, attempt |-> operation[o].attempt, by |-> p, reviewers |-> Reviewers(o),
             root |-> Latest + 1, pins |-> [t \in Target |-> IF t \in Targets(o) THEN o ELSE Pins(Latest)[t]]])
    /\ registry' = [t \in Target |-> IF t \in Targets(o) THEN o ELSE registry[t]]
    /\ operation' = [operation EXCEPT ![o].members = [t \in Target |-> IF @[t] = "none" THEN "none" ELSE "released"]]
    /\ UNCHANGED <<contributors, approvals, reservation, job, retries, working>>

\* productionRestoreManifestTx: an object that goes absent keeps its content.
BugKeepsRegistry(T, restored) == registry
Restored(T, restored) ==
    [t \in Target |-> IF t \in T /\ (t \in Asset \/ restored[t] # None) THEN restored[t] ELSE registry[t]]

\* The manifest before the release that is undone.
BugBeforeTheOperation(n) == Pins(releases[n].root - 1)
Before(n) == Pins(n - 1)

\* RollbackProductionCommand, of the latest release only.
Rollback(p) ==
    /\ Latest > 0 /\ Latest < MaxReleases
    /\ LET undone == releases[Latest] IN
        /\ undone.kind # "ordinary"
        /\ p \notin contributors[undone.op] \union undone.reviewers
        /\ \A t \in Targets(undone.op) \intersect Asset : registry[t] = undone.pins[t]
        /\ releases' = Append(releases, [undone EXCEPT !.kind = "rollback", !.by = p, !.pins = Before(Latest)])
        /\ registry' = Restored(Targets(undone.op), Before(Latest))
    /\ UNCHANGED <<operation, contributors, approvals, reservation, job, retries, working>>

\* carryPublishedPins: for each identity what the newest release says that
\* pins it.
Carried(t) ==
    LET pinned == {n \in DOMAIN releases : Pins(n)[t] # None}
    IN  IF pinned = {} THEN None ELSE Pins(CHOOSE n \in pinned : \A m \in pinned : m <= n)[t]

\* PublishRelease of something that no operation reserved.  RollbackRelease of
\* such a release keeps the pins of everything else, which is the same step.
PublishOrdinary ==
    /\ Latest < MaxReleases
    /\ releases' = Append(releases,
            [kind |-> "ordinary", op |-> None, attempt |-> 0, by |-> None, reviewers |-> {}, root |-> 0,
             pins |-> [t \in Target |-> Carried(t)]])
    /\ UNCHANGED <<operation, contributors, approvals, reservation, registry, job, retries, working>>

-----------------------------------------------------------------------------
Draw(p, o) ==
    \E T \in Proposed :
        \/ \E q \in Operation \union {None} : Create(p, o, q, T)
        \/ ReplaceDraft(p, o, T)

Review(p, o) == \E T \in (SUBSET Targets(o)) \ {{}} : Approve(p, o, T) \/ Reject(p, o, T)

Work(w) ==
    \/ \E o \in Operation, passes \in BOOLEAN : Evaluate(w, o, passes)
    \/ Complete(w) \/ FailLast(w) \/ Lose(w)

Next ==
    \/ \E p \in Author, o \in Operation : Draw(p, o)
    \/ \E o \in Operation : Submit(o) \/ Validate(o)
    \/ \E w \in Worker : Work(w)
    \/ \E p \in Reviewer, o \in Operation : Review(p, o)
    \/ \E p \in Publisher : Rollback(p) \/ \E o \in Operation : Publish(p, o)
    \/ PublishOrdinary

Spec == Init /\ [][Next]_vars

-----------------------------------------------------------------------------
(* Properties.                                                             *)

Holders == Operation \union {None}
OperationRows == [version: Nat, base: 0..MaxReleases, frozen: BOOLEAN, supersedes: Holders,
                  members: [Target -> MemberStates], attempt: Nat, status: {"none", "queued"} \union Ended]
ReleaseRows == [kind: {"applied", "rollback", "ordinary"}, op: Holders, attempt: Nat, by: Principal \union {None},
                reviewers: SUBSET Principal, root: 0..MaxReleases, pins: [Target -> Holders]]
Works == [op: Operation, version: Nat \ {0}, attempt: Nat \ {0}, passes: BOOLEAN, last: BOOLEAN]

\* Every variable has the values its table allows; a release pins what some
\* operation wrote.
TypeOK ==
    /\ operation \in [Operation -> OperationRows]
    /\ contributors \in [Operation -> SUBSET Principal]
    /\ approvals \in [Operation -> SUBSET (Principal \X Target \X (Nat \ {0}))]
    /\ reservation \in [Target -> [creation: Holders, owner: Holders]]
    /\ registry \in [Target -> Holders]
    /\ releases \in Seq(ReleaseRows)
    /\ Latest <= MaxReleases
    /\ job \in [Operation -> 0..JobAttempts]
    /\ retries \in 0..MaxRetries
    /\ working \in [Worker -> Works \union {None}]

\* A released operation was drafted against the manifest it replaces, passed
\* its active attempt, was approved for that attempt in every part by
\* somebody who wrote none of it, and was published by a third person: no
\* author, reviewer and publisher of it coincide, whatever was submitted,
\* validated again or released in between (production_publish.go).
ReleaseIsEntitled ==
    \A n \in DOMAIN releases : releases[n].kind = "applied" =>
        LET release == releases[n]
            op == operation[release.op]
        IN  /\ op.base = n - 1
            /\ op.attempt = release.attempt /\ op.status = "succeeded"
            /\ \A t \in Target : op.members[t] \in {"none", "released"}
            /\ \A t \in Targets(release.op) :
                \E p \in release.reviewers : <<p, t, release.attempt>> \in approvals[release.op]
            /\ release.reviewers \intersect contributors[release.op] = {}
            /\ release.by \notin contributors[release.op] \union release.reviewers
            /\ \A t \in Target : release.pins[t] = IF t \in Targets(release.op) THEN release.op ELSE Pins(n - 1)[t]

\* Rollbacks of one release alternate between the manifest before it and its
\* own, with everything else that was pinned (production_rollback.go).
RollbackIsExact ==
    \A n \in DOMAIN releases : releases[n].kind = "rollback" =>
        LET root == releases[n].root
        IN  releases[n].pins = IF (n - root) % 2 = 1 THEN Pins(root - 1) ELSE Pins(root)

\* The registry follows the manifest: it holds the asset revision and the
\* object contents that the latest release pins.  An asset that a rollback
\* took away is the exception, once an ordinary release has carried its old
\* pin back (production_rollback_restore.go, release_publishing.go).
CarriedBack(t) ==
    \E n \in DOMAIN releases : releases[n].kind = "ordinary" /\ Pins(n)[t] # None /\ Pins(n - 1)[t] = None
RegistryFollowsManifest ==
    /\ \A t \in Asset : registry[t] = Pins(Latest)[t] \/ (registry[t] = None /\ CarriedBack(t))
    /\ \A t \in Object : Pins(Latest)[t] # None => registry[t] = Pins(Latest)[t]

\* An attempt ends once, by a worker that evaluated that attempt, and
\* succeeds only if its checks passed and the head is still the one they saw;
\* a late, repeated or failing execution changes no verdict, and only a new
\* attempt replaces it (production_validation_worker.go).
VerdictIsFinal ==
    [][\A o \in Operation :
        LET old == operation[o]
            new == operation'[o]
        IN  /\ old.status \in Ended /\ <<new.status, new.members>> # <<old.status, old.members>> =>
                \/ new.status = "queued" /\ new.attempt = old.attempt + 1
                \/ new.status = old.status /\ \A t \in Target : new.members[t] \in {old.members[t], "released", "rejected"}
            /\ old.status = "queued" /\ new.status # "queued" =>
                \E w \in Worker :
                    /\ working[w] # None /\ working[w].op = o /\ working[w].attempt = old.attempt
                    /\ new.status = "succeeded" => working[w].passes /\ old.base = Latest]_vars

=============================================================================
