# Verification of Semlia's control plane

Semlia is a control plane for governed semantics: a Go server and a Go worker
over one PostgreSQL database. This directory holds TLA+ models of the parts of
it where order, concurrency and failure decide whether it is right, the TLC
configurations that check them, and TLAPS proofs about every model: each safety
property that a run checks is also a theorem, for all values of the constants.
Every definition is translated from the code under `src/`; `PROJECT.json` maps
each to the lines it stands for.

## The system

Two kinds of process share the database and nothing else.

* `server` answers HTTP requests. A request is a few transactions in a row with
  reads between them; any number run at once and any may be cut off.
* `worker` runs lanes (background jobs, schedules, artifact cleanup, webhooks,
  the outbox). Each claims rows under a lease of 30 s. The first lane to return
  ends the process (`runWorker`), which a supervisor restarts under a new owner
  name.

| component | state it keeps | operations | hard because of |
|---|---|---|---|
| background jobs (`application/jobs`, `store.go`) | `jobs`, `runtime_runs` | enqueue, reap, claim, renew, succeed, fail | leases, stale timestamps, crashes, retries |
| authoring and validation (`authoring.go`, `orchestration.go`, `validatejob.go`, `validation.go`, `decision.go`) | `proposals`, `validation_runs`, `validation_results`, `policy_decisions` | submit, begin, execute, degrade, decide | retries of half-done work, attempts that overlap, no fence on writes |
| review (`review.go`, `reviewbatch.go`) | `reviews`, `review_batches` | review, assemble, confirm or reject a batch | checks outside transactions, escalations between assembly and confirmation |
| publishing (`publishing.go`, `release_publishing.go`) | `releases` and their pins, `asset_revisions`, governed objects | publish, plan and carry out a rollback | stale bases and plans, edits beside releases |
| semantic production (`production*.go`) | production operations and their versions | draft, generate, validate, publish, roll back, supersede | long protocols over many tables |
| outbox and webhooks (`dispatcher.go`, `router.go`, `webhooks.go`) | `outbox_events`, `webhook_deliveries` | dispatch, fan out, deliver, replay | at-least-once delivery, leases |
| discovery and ingestion (`discovery`, `ingestion`) | sources, runs, candidates, schedules, artifacts | collect, snapshot, decide, schedule, clean up | runs tied to jobs, one active run per source, quotas |
| embedding (`embedding.go`) | embedding indexes | build, checkpoint, activate, cancel | one building and one active index |
| Ask and query execution (`ask*.go`, `execution`) | `ask_requests`, `query_execution_runs` | claim, finish, expire | idempotency keys, expiring claims |
| identity and authorization | sessions, memberships, role bindings, a version | log in, revoke, grant | decisions made under an old version |
| distribution (`distribution`) | none of its own | resolve, search | a pure function of released manifests |
| catalog, usage, workbench, model configuration | rows | edit, count, list | little concurrency of their own |

What makes each right, in a sentence: a job ends exactly once and nobody works
on another's lease; no proposal is reviewed unvalidated, and what is found
reaches the decision; a decision is independent and final; a manifest is what
the workspace runs on, and a rollback undoes the last release and nothing else;
an event is done before it counts as published; what is scheduled happens once;
a call that costs money is made once; a file that a source or a run needs is
there; an index, its run and its job tell the same story, and a search answers
from one release and one model. `PROJECT.json` lists every component with its
status and, under `hazards`, the places in the code where one of these could go
wrong.

## The modules

| module | models | composed with |
|---|---|---|
| `JobContract` | what the queue promises: at most `MaxAttempts` attempts, one at a time, each job succeeded or dead in the end | |
| `JobQueue` | the queue itself: rows, leases, processes, the clock, the runtime run of a job | implements `JobContract` |
| `JobQueue_proofs` | the theorems about `JobQueue` | |
| `ProposalValidation` | submit requests, the validation job's handler step by step, decision, release gate | runs on a job of `JobContract` |
| `Proposals` | the set of proposals, which review and releases share | |
| `ProposalReview` | expert reviews, batches, publish gates | the proposal's states only |
| `ReleaseManifest` | revisions, objects, releases, rollbacks | the proposal's states only |
| `Governance_proofs` | the theorems about `ReleaseManifest`, `ProposalReview` and `ProposalValidation` | |
| `DiscoveryRun` | the discovery runs of one source: requests, handler, projection, coverage head, effective snapshots | each run on a job of `JobContract` |
| `DiscoveryRun_proofs` | the theorems about `DiscoveryRun` | |
| `DeliveryContract` | what subscribers are promised: who is owed an event is decided once, a kept promise was sent, and the number of sends is bounded | |
| `Delivery` | outbox, dispatcher, webhook fan-out and deliveries, Git projection | implements `DeliveryContract` |
| `Delivery_proofs` | the theorems about `Delivery` | |
| `Production` | operations of semantic production from draft to rollback, the validation worker, reservations, the manifest they share with ordinary releases | |
| `Production_proofs` | the theorems about `Production` | |
| `CallContract` | what an idempotency key promises: one call at most, one outcome | |
| `ExternalCall` | questions, generated drafts and query executions from claim to outcome, with the sweeps that give claims up | implements `CallContract` |
| `ExternalCall_proofs` | the theorems about `ExternalCall` | |
| `Embedding` | rebuilds of an embedding index on a job of their own, and the search that uses the index | |
| `Embedding_proofs` | the theorems about `Embedding` | |
| `Artifacts` | the uploaded files of a workspace: uploads, quota, sets, retention, cleanup | the sources and discovery runs that pin a file, as far as they do |
| `Schedule` | one schedule of a source: commands, polling lanes, occurrences, the local clock | |
| `Ingestion_proofs` | the theorems about `Schedule` and `Artifacts` | |
| `MC...` | values for the constants of the module named | |

A module of proofs extends the modules it is about, so that what several of them
have in common carries the component in its name (`ReviewSpec`,
`ValidationTypeOK`, `FilesInit`, `stage` for the state of the one proposal in
`ProposalValidation`). The models do not interact through it: each theorem is
about one specification.

`Bug...` operators are the definitions before which they stand with a plausible
bug in them. No specification uses them. Each names the mistake whose absence a
property depends on: with the operator in place of the definition, TLC finds
that property violated.

### JobQueue

A transaction is an atomic step. `Reap`, `Claim`, `Heartbeat` and `Finish` are
the statements of `jobs.sql` in the order of `Worker.RunOne`; `Projected` is
`projectJobTerminalState`, which every one of them calls in its transaction.
Time is a countdown per row rather than a clock, which keeps the state finite:
`leaseLeft` is `leased_until` minus the present. The code compares rows with a
timestamp that the worker read earlier, so that each statement has a lag of up
to `MaxLag` ticks, and a claim uses the same reading as the reap before it. A
process that loses a lease ends, as all lanes end with the first.

### ProposalValidation

A step is one call on the repository, because the handler holds no transaction
across two. `exec[a]` is the handler of attempt `a`: it keeps its place, its
input and what is left to record. A stalled worker's handler goes on until its
next heartbeat, beside the handler of the next attempt (`ReapStalled`,
`CancelStalled`); `overlapped` remembers that this happened. `world` is what
references resolve to; a validator finds a blocker or not. The release is here
only with the gate that counts blockers.

`missingFindings` compares findings byte by byte, details included, and what is
stored does not read as it was given: no details are stored as `{}`
(`objectJSON`), and the count of a summary comes back from its `jsonb` column
spaced. `Finding` is what a validator gives and `StoredFinding` what is on
record (`AsStored`); `Unrecorded` compares one with the other, as the code does,
so that it never finds a match.

### ProposalReview

`request[r]` is a request between two of its transactions, with what it has
read. `Escalate` stands for anything that makes the next policy decision route
a proposal to an expert. The gates of a publish are one step, as the rows they
read only grow.

### ReleaseManifest

An asset is its sequence of contents, with the one that is current; an object
its content and version. A change-set is the value it replaces and the value it
sets, the latter being what `ApplyChangeSet` and its inverse write.
`NoProposalID` is the origin of the release a rollback makes, and the
assumption says that no proposal has that name.
`contentBefore` is kept for the properties.

### DiscoveryRun

A run is a row of `discovery_runs` with a job of its own. A request is two
steps, since `StartRun` reads the clock that becomes `created_at` before its
transaction; the handler of `JobHandler` is a step per transaction, and each
write of it looks for its job's lease (`lockDiscoveryJobLease`). `contents` is
the revision of each dataset and field the source has now, or `Absent`, and
`source` its configuration; a collector sees all of it, a part or nothing, with
a quality. A snapshot is identified by what it shows, because a run that sees
what an earlier one saw reuses its revision. `published`, `head` and `effective`
are what the source shows: the current revision of each dataset and field, the
coverage head, and the verified snapshot of each configuration. A snapshot is
laid over `published` (`Shown`): `persistDataset` and `persistField` write the
objects it holds and clear no other. A fault (crash,
stall, failed call, lost answer of a commit) is charged to the attempt it hits:
`hit` says which, so that a property can tell an attempt that was spared.

Which of two runs is newer is decided by `created_at`, so that a request which
is delayed while another run starts and ends counts as the older one, and its
observation, though fresher, is not published. A dataset or field that vanished
from the source, or that a partial run did not reach, keeps the current revision
an older run gave it, beside those of the newest; only the snapshot has the
exact members (`source_snapshot.go`). The model has both behaviours; no doc
promises otherwise.

### Delivery

A worker is a process with both lanes and a Git repository of its own. Each
statement or transaction of `outbox.sql` and `webhooks.go` is a step, and so is
a call of `transport.Send`; the projection to Git is two steps, the write of the
files and the commit (`gitcontent/adapter.go`). A lease or a backoff is the flag
`live` and whether time has passed, as no property depends on how long they
last. A restarted process has a new owner name, so that rows of the old one
belong to `Nobody` until they lapse. `sends` counts what went out, for the
contract.

### Production

Every command of semantic production (create, supersede, replace, submit,
validate, review, publish, roll back) is one transaction under the lock on the
workspace and repeats inside it whatever was read before, hence one action.
What the commands refuse for rights other than the separation of duties, for
freshness of sources or for business rules is nondeterministic: an action may
always not happen. Rights are the constants `Author`, `Reviewer` and
`Publisher`. Validation is the part that leaves the lock: `Evaluate` reads,
`Complete` seals, and between the two another lane may seal, a new attempt be
queued or a release published. What an operation writes is named after the
operation. `reservation` is the table that keeps two operations from creating
one identity; it changes hands when an operation is superseded or a rolled back
identity is introduced again (`AbsenceProof`). `PublishOrdinary` is the release
of a single proposal (`release_publishing.go`), which carries pins over.
Automatic drafting and finalization, members that do not change, repeated
commands and what a check looks at are left out.

### ExternalCall

The three tables of keyed requests (`ask_requests`, `query_execution_runs`,
`production_generation_requests`) follow one protocol: claim the key, call,
record the outcome, and give up claims whose owner is gone. The model has one
row per key and says where the kinds differ: questions are swept by the
reconciler, executions only by the next claim or read (`Swept`), and a sweep
that precedes a refused claim is rolled back with it; a generation is given up
by the next attempt of its job; only the outcome of an execution has no
deadline. A call of the outside world ends before the deadline of its row,
because its own timeout is shorter (10 s for a question, a margin of 5 s for an
execution); a live owner is assumed, since a query whose owner died may run at
the source until the statement times out. The cancellation flag and conflicting
inputs under one key are left out, and a clarification is an outcome of its own,
`clarified`.

### Embedding

`Start` and `Cancel` are one transaction each, under the lock on the workspace
row; what they read before is compared again inside (configuration digest,
authorization version), so that a request is one action that may be refused.
A job lane reads what is missing, calls the provider and writes, in separate
steps; each write checks the lease and that the index is being built.
`Project` is what `projectJobTerminalState` does in the transaction of each job
transition, including `FailExpiredEmbedding`, by which a dead job ends its
build. A search is five kinds of read, and anything may happen between two of
them. The provider is deterministic; a vector is the pair of model and text.
The two statements of a search that falls back from vectors to words are one
step. The limits on what is returned and the right to search at all are left
out.

### Artifacts

A content is a digest, so that uploads and sources share the object that holds
it. Every transaction takes the lock on the workspace and is one step, except
the two that delete an object: they hold the lock while they call the store,
which no rollback undoes (`erasing`). The store is written outside any
transaction between the reservation and the row of an upload (`put`). A deadline
counts down and `NoDeadline` is NULL; a request carries the time it began with, so
that the deadline it writes may be any time up to the full one, or past already.
`first` marks a file uploaded before its source exists. `active` stands for an
active or a paused source, `validated` for validated or consumed uploads.
`Mixes` are the ways to give the keys their files; what a run or the history of
a source pins is a set of contents. `doubtful` collects the contents that met
one of three cases, which `ContentIsThere` excepts: an upload outlived its
reservation, a deletion reached the store and not the database, or a deleted
source was brought back.

### Schedule

Time is counted in minutes and the local clock is a function from instants to
minutes, which may jump (spring) or go back (autumn). `schedule` is the row and
`log` the scheduled occurrences. A command is two steps: what it reckons from
the clock and the row it read (`Ask`), and the transaction, which looks for the
version that was read (`Mutate`; that of a create is the first). A lane leases
what is due (`Claim`), works out whether it is late and what comes next, and
records the occurrence and the next minute together (`Complete`) if it still
holds the lease and the row is as it was (`Fenced`). A lease of 30 s ends in its
own minute or the next (`Lapse`, `Tick`). `from`, `since` and `start` are kept
for the properties: the instant from which the minutes are reckoned, and the
minute and the length of `log` at the last command. Whether an occurrence leads
to a run depends on the misfire policy, an active run and the source and changes
nothing here; `DiscoveryRun` has the runs. A change of the time zone and clocks
that disagree are left out.

## The runs

| run | properties | bounds, and why they are enough |
|---|---|---|
| `JobQueue` | the run follows the job; only the latest attempt records; a live lease is undisturbed; implements `JobContract`; every job ends | two jobs (a sweep reaps several, one job has a run and one has not), two workers (holder and rival), two attempts (a retry and the ceiling), lease 3 and lag 1 (a stale reading on both sides of the deadline), one crash |
| `ProposalValidation` | types; review follows validation and decisions see what it found; a run's outcome can be reproduced from what is on record; a run tells what it found; one fault is survived | two clients (racing submits), two validators (the first and the last), two attempts, one error, one loss, one change of the world |
| `ProposalValidationBlockerReleased` | violation: no blocker is released | one attempt, no fault |
| `ProposalReview` | types; batches speak for their members; decisions are final | two proposals (a batch with a split), two reviewers, one of them the author, two requests at once, one of which may be cut off |
| `ReleaseManifest` | types; the manifest is current; a rollback undoes the latest and restores content; unreleased edits stay | two proposals for one asset and two for one object, one edit beside them, two operators, four releases: publish, overwrite, rollback, rollback of the rollback |
| `DiscoveryRun` | the newest run is current; a run ends with its job | two runs (a newer and an older), two attempts (a stalled handler beside the next), two configurations, two objects of which one is altered while the other vanishes, or both come back, one attempt hit by faults |
| `Delivery` | types; what is published is done; Git keeps the order; implements `DeliveryContract`; everything ends | two revisions of an asset, one beside a release, or an event without subscribers; two workers (holder and rival); one webhook that changes once; two attempts for an event; one attempt for a delivery and one more after its replay; one fault anywhere |
| `Production` | releases are entitled; rollbacks are exact; the registry follows the manifest; verdicts are final | two operations over an asset and an object, three versions and two validation attempts in all, two lanes and one repeated execution (a late one beside its successor), three releases (apply, roll back, roll back the rollback, or an ordinary one between) |
| `ExternalCall` | within the limit; implements `CallContract`, calls once, and succeeds on the basis it was claimed on; nothing runs forever | two handlers on one question, on one generation, or on two executions with a limit of one; two attempts of a job; one change of what they rest on |
| `Embedding` | the run tells the outcome; the search is honest; every build ends | two rebuilds over two assets, one of whose text never changes, in batches of one; either two lanes, two attempts and two faults; or a search while one lane builds and there are two releases and two models, or one change of grants |
| `Artifacts` | types; the content is there; the quota is honest | two contents, two uploads of them (of one content or of two, with or without a source, under a quota of one object where it must bite), two requests at once, one source, a retention twice the reservation |
| `Schedule` | a minute runs once; none is lost; every minute ends | one schedule and two expressions that share a minute, a clock with a gap and one that shows three minutes twice, two lanes (holder and rival), two commands (create, and one that changes, pauses or deletes), one stall or loss, three occurrences (one, and two that the repeated hour takes up again) |

Where a property is proved and no run checks it any more, the theorem stands for
it: the types of `JobQueue`, `DiscoveryRun`, `Embedding`, `Schedule`,
`ExternalCall` and `Production`, and `RetryBudget`, `SettledRunIsFinal`,
`OneActiveRun`, `FailureKeepsCurrent` and `OccurrenceIsCurrent`.

Deadlock is checked in `JobQueue`, where workers never stop; elsewhere the
bounds let a behaviour end. Symmetry is used only in runs without liveness.

### Fairness

`JobQueue!FairSpec`: time passes (`Tick` infinitely often, or nothing left that
waits for it), `Run` loops and is weakly fair in its reaps and claims, a
handler returns because its context ends with its lease, a supervisor restarts
a process that ended. Heartbeats and enqueues need none.
`Delivery!FairSpec`: both lanes of a worker loop and their calls return, leases
of processes that ended and backoffs run out, a supervisor restarts.
`ExternalCall!FairSpec`: a handler goes on, as each of its steps has a timeout;
deadlines pass and the reconciler runs; a job lane that is free leases, which is
strong fairness, because lanes do not wait for the HTTP handlers with which
they share the model's set of handlers; the lease of an attempt that is gone
runs out. `Embedding!FairSpec`: lanes go on, a ready job is leased, the lease of
an attempt that is gone runs out. `Schedule!FairSpec`: lanes poll
(`runScheduleLoop`), their transactions end, and the lease of a lane that is
gone lapses; time need not pass. Requests, replays, cancellations, failures and
crashes have no fairness, so that no property rests on a client's retry.

### What the violating run shows

* `ProposalValidationBlockerReleased`: the gate counts blockers of runs that
  run or succeeded, and a run with a blocker can only fail.

Further disagreements met while modelling, which no run repeats:

* two persons do not always control a release: the gate refuses a publisher only
  if there is exactly one approving review (`publishing.go:303`), and an approval
  in a batch and one as an expert by the same reviewer count as two;
* a command on a schedule, or an occurrence more than a minute late, reckons the
  next minute from the local clock. In the repeated hour of autumn this takes
  minutes up again that ran before: the uniqueness of an occurrence includes the
  version of the schedule (`source_schedule_occurrences_scheduled_wall_idx`),
  where `docs/specs/full-menu-beta/data-model.md:183` has one "on (schedule_id,
  wall_clock_key)" which "makes fall-back wall minutes run once".
  `MinuteRunsOnce` says that this is the only way in which a minute runs twice;
* a last validation attempt lost to a crash degrades nothing: the job is dead,
  the proposal stays in validating, and the idempotency key makes every later
  submit return the dead job; lost a step later, it stays in review without a
  decision. `validatejob.go:339` and `authoring.go:293` say it never does.
  `OneFaultIsSurvived` says how much is survived;
* only the handler ends a discovery run, and nobody looks at the error of the
  call that does; after a crash or a database error in the attempt the job dies
  with, the run stays active and the source refuses every further run.
  `RunEndsWithItsJob` says that this is the only way;
* likewise a production validation whose last job attempt is lost stays queued,
  and a generation request whose job is dead stays open (`NothingRunsForever`
  excludes it). An embedding build does not: a dead job fails it;
* an asset event delivered again after a later revision was projected is a
  conflict until it is a dead letter (`gitcontent/adapter.go:81-91`), though
  projection is to be idempotent;
* a crash between the write and the commit of a projection leaves the working
  tree dirty, and every later projection to it fails;
* an identity dropped from a production draft stays reserved and can never be
  created; `replaceProductionDraftTx` does not take over the contributors of a
  creation as the other ways to a draft do;
* a rollback of a production takes an identity out of the published view that
  did not exist before, and `docs/specs/semantic-production/contracts/production.md:111`
  has it absent from then on; the next ordinary release of anything else looks
  for the newest pin of every identity (`release_publishing.go:410`), finds the
  old one and carries it back in, while the registry still has it withdrawn;
* a deleted source that is edited is active again (`UpdateDiscoverySource`), though
  the files of its set may have expired; a cleanup that deleted the object and
  could not commit leaves the row as it was, and a set finalized on what it read
  just before has no content; an upload that outlives its reservation of an hour
  leaves an object nobody counts, or a row without an object (`doubtful`);
* when `SEMLIA_ARTIFACT_RETENTION` is lowered, or an upload is overdue whose
  content a source still uses, a protected row can be selected by one cleanup
  after another, with nothing to do;
* a validation attempt that is lost after it recorded a finding and before it
  finished the run is enough for the next to record the same finding, of the same
  input, again, although no two ran side by side: nothing on record reads like a
  finding as it is given (above, `StoredFinding`). `validatejob.go:310-312` says
  that "a retried job never duplicates results". The model has the duplicates
  (`results` are bags), and what a run is judged by does not suffer from them:
  `RunTellsItsFindings` and `OutcomeIsReproducible` hold all the same;
* a handler that overlaps its successor can succeed over a blocker.
  `RunTellsItsFindings` says that without an overlap (`overlapped`) no retry does;
* a request cut off between a rejecting review and its transition loses the
  rejection; two requests of one reviewer that overlap both record a review; two
  concurrent assemblies put a proposal in two open batches;
* a rollback of an object proposal drafted on older content restores that older
  content (`stale` in `RollbackRestoresContent`).

The hazards of `PROJECT.json` give the lines.

## The proofs

`JobQueue_proofs` proves, for every set of jobs and workers, every attempt
limit, lease and backoff, and every lag with `2 * MaxLag < LeaseDuration`
(`QueueAssumption`): `TypeCorrect`, `BudgetKept`, `RunAgrees`, `SettledForGood`,
`LeaseProtects`, `LatestAttemptRecords` and `QueueImplementsContract`.

The inductive invariant is

    IInv == TypeOK /\ RetryBudget /\ RunFollowsJob /\ OwnerIsLatestAttempt /\ Started

`OwnerIsLatestAttempt` says that a process that executes a job which is running
under its name holds the latest attempt: without it, "the holder finished" does
not say which attempt it executed. `Started` says that a running row has at
least one attempt. Each action changes one row or, for a reap, a set of rows in
the same way, so the lemma `StepShape` first reduces every step to one of a few
shapes; the invariant, the action properties and the refinement are then proved
over those shapes rather than over ten actions.

`DiscoveryRun_proofs` proves, for every set of runs, every attempt limit and
every bound (`DiscoveryAssumption`): `Types`, `AtMostOneActiveRun`,
`NewestIsCurrent`, `FailureLeavesCurrent` and `RunsEndWithTheirJobs`. One active
run is inductive beside the types, by the lemma `StatusStep`: a run becomes
active when none is, and never again once it ended. That the newest run is
current, object by object, needs

    IInv == TypeOK /\ Ordered /\ Origins /\ NewestRunIsCurrent

where `Ordered` says that `created_at` tells runs apart, that no run has pinned
a configuration later than the present one, and that the head belongs to a run
that exists; and `Origins` says that whatever is shown of an object was seen by
a run that succeeded, so that what the newest run did not see is what an older
one saw. It rests on `Blind`, an invariant by itself: who is about to persist a
failed snapshot holds an empty one. The argument is `OlderRun`: a run older than a successful newest
one finds it both in the table and at the head, so that whatever its handler
does it neither publishes nor moves the head (`HeadStep`, `PersistStep`); and a
new configuration has no run yet. `FailureLeavesCurrent` follows from the types
and `Blind`: of all steps only `PersistSnapshot` under its lease writes what is
current, and it keeps it when the snapshot failed. `RunsEndWithTheirJobs` needs
`EndInv`, which says of each handler (`Finishes`) that it reports success only
of a run that has ended, and that one which holds the lease and is about to fail
for good has ended its run or was hit by a fault. A step that takes a lease away
leaves the job waiting, or ends it when the run has ended or the attempt was hit
(`Loses`).

`Embedding_proofs` proves, for every number of rebuilds, lanes and assets and
every bound (`EmbeddingAssumption`), `Types`, `OutcomeTold` and
`SearchesAreHonest`. The invariant of the first two is

    IInv == Rows /\ Lanes /\ (\A i \in Index : Agree(i)) /\ (\A h \in Handler : Honest(h))

`Rows` and `Lanes` are the types. `Agree` is
`RunTellsTheOutcome` with the job of a rebuild nobody asked for. `Honest` says
why the end of a job never reports the success of an index still being built: a
lane that is about to report success works on an index that was settled, and an
index is built only once. A job transition keeps all that whatever the handler
wrote before it (`JobStep`), because a run that is terminal is never projected
upon again; what remains is one short lemma per action. The search has an
invariant of its own, `SInv == Vectors /\ Looking`: an index holds for each
asset nothing or what its own model makes of its own release, and everything
once it was activated (`Vectors`); and as long as no grant has changed since the
search began, what it keeps can be read (`Looking`). Its last step compares the
grants with those it began with, which makes the second half of the promise.

`Ingestion_proofs` proves of `Schedule`, for every number of lanes and clients,
every clock, every set of expressions and every bound (`ScheduleAssumption`):
`Types`, `TakenUpOnce`, `NoneIsLost` and `RecordedWhenDue`. The invariant is

    IInv == TypeOK /\ Versions /\ Reached(now + 1) /\ Ahead(schedule) /\ schedule.start <= Len(log)
            /\ (\A w : Sound(w)) /\ (\A c : Reckons(request[c])) /\ MinuteRunsOnce /\ NoMinuteIsLost

`Reached` says that the clock has shown what was taken up, `Ahead` that the next
minute comes after it, unless the clock had shown it before the instant from
which the minutes are reckoned. A claim or a request keeps its promise (`Sound`,
`Reckons`) only as long as the version it read is that of the schedule, which
every write of the row raises (`MoveOn`): that is why the two fences suffice.
`FollowingIsNext`, `DueWasShown` and `Reckoned` are the facts about the calendar;
they rest on the least element of a set of numbers (`FirstOne`).

Of `Artifacts` it proves, for every set of contents, keys, sources and handlers,
every use of the keys, every quota and every retention longer than a reservation
(`ArtifactAssumption`; the configuration refuses less than a day), `FilesTypes`,
`ContentsAreThere` and `QuotasAreHonest`, from

    FilesInv == FilesTypeOK /\ FilesShapes /\ Pinned /\ UploadsAreRetained
                /\ (\A h : Working(h)) /\ Doomed /\ There /\ Accounts

`Pinned` says that a source, a run or a snapshot needs only contents of
validated uploads, and `UploadsAreRetained` that the object of an upload still
to be validated is retained. `Working` says where an upload stands between its
reservation and its row, when the store is written outside any transaction.
`Doomed` is the heart: what is being erased is charged, nobody holds it, and
whoever erases it keeps everyone else from the tables until he commits. `There`
then says that whatever is needed is in the store, except for the object whose
deletion has reached the store and not yet the database, and `Accounts` that the
counter is the number of objects charged, that each object in the store is
charged, and that one without a deadline is in the set of an active source. The
counter moves by one because a content is charged or freed by one step at a time
(`Charged`).

`Governance_proofs` proves of `ReleaseManifest`, for every set of proposals,
assets, objects and operators and every bound (`ReleaseAssumption`), `Types`,
`EditsAreSafe`, `NewestManifestIsCurrent` and `RollbacksRestore`. The queries
ask for the newest release that pins an identity, the properties for what the
newest release says. The two are the same because a manifest never loses a pin,
which is the heart of

    Inv == Tables /\ (\A a : HasRevisions(a)) /\ (\A p : Drafted(p))
           /\ (\A k : Manifest(k) /\ Keeps(k)) /\ (\A op : rolling[op] # 0 => PriorStateKnown(rolling[op]))

`Manifest` says further that a release was made by a released proposal or is the
rollback of the one right before it, `Keeps` that a release changes nothing but
what its rollback would restore, and the last part that a rollback under way has
passed the check on its plan. `IsPublished` and `IsRestored` describe the two
ways to a manifest, `Evolves` and `Remains` what no step changes; a rollback of
the newest release then puts back the content before it, one object at a time.
`EditsAreSafe` adds that a rollback moves an asset only from what it released.

Of `ProposalReview` it proves, for every set of proposals, principals, batches
and requests, every author and every cluster (`ReviewAssumption`),
`ReviewTypes`, `BatchesSpeak` and `DecisionsAreFinal`. The invariant is the
types, that no request on its way to record a review comes from the author
(`NotByAuthor`), and `BatchSpeaksForItsMembers` itself, which is inductive
because what a batch decided stays: reviews are only added, and a proposal that
left review does not come back (`SettledStays`), whatever the requests read
before. That a publish, a batch and a review compete for one proposal changes
nothing, as each looks at its state again in the transaction that moves it.

Of `ProposalValidation` it proves, for every number of requests, validators and
attempts, all worlds and all bounds (`ValidationAssumption`), `ValidationTypes`
and `ReviewsFollowValidation`; and `OneFault` for more than one attempt, of which
`ValidationJobMaxAttempts` allows three. With a single attempt its loss is the
one fault that is not survived. `OutcomesAreReproducible` and
`RunsTellTheirFindings` say what retries leave on record. The invariant is

    ValidationInv == OnRecord /\ Survives
    OnRecord      == ValidationShapes /\ Submitted /\ Decided
                     /\ (\A a : Placed(a, exec[a]) /\ Alone(a, exec[a]))
                     /\ (Reviewed => Complete)

`Placed` says what holds wherever the handler of an attempt is, a lost one
included: the validators before its own have finished, so that all have when it
leaves the loop, and only the last attempt degrades. None of this is undone by
other handlers, since a run that finished stays finished and a degradation
stays on record; that is why validation needs no fence to be complete before
review. `Alone` is what only a handler without a rival may rely on: its attempt
is the current one, and the blockers it has seen are those on record when it
decides (`Decided`). `Survives` counts faults. As long as there was none, the
first attempt is the only one and cannot fail (`Faultless`, `Unfailing`: what is
on record is its own work, so that no check of it is in its way); an attempt
after the first that is lost, a last attempt that failed and a dead job each
took two faults. `StepKeeps` puts together what a step of a handler has to keep,
and each step is then a lemma about the handler it leaves. On top of it,
`FindingsInv` adds to the two properties about findings what makes them last.
`Whole` holds of every handler, with rivals or without: each finding of its
input is on record or yet to be recorded, and all are on record once it is about
to end the run. It stays because findings are only added (`ReportsGrow`), and it
begins because nothing on record reads like a finding as it is given
(`MissingAre`). `Reports` holds without a rival: the run is still running, and
who is about to declare it successful has seen no blocker on record.

`Production_proofs` proves, for every set of operations, people and identities
and every bound (`ProductionAssumption`), `Types`, `ReleasesAreEntitled`,
`RollbacksAreExact`, `RegistryFollowsReleases` and `VerdictsAreFinal`, from

    Inv == TypeOK /\ Authored /\ History /\ ReleaseIsEntitled /\ RollbackIsExact /\ Registered

`Authored` says that what was submitted exists and what is drawn is reserved.
`History` says of each release (`Line`) what it takes over from the one before,
that its operation is one that nothing changes any more, and that a rollback
follows a release of the same operation; hence a chain of rollbacks alternates
between the manifest with the operation and the one without it, which is what
the parity in `RollbackIsExact` says. `Registered` adds to
`RegistryFollowsManifest` that an object keeps what its newest pin says, because
the next release carries that over. Entitlement, once gained, stays
(`PublishedStays`): the row, its authors and its reviews are kept.
`MaxVersions` and `MaxAttempts` bound the sums over all operations, by a fold;
no proof needs those bounds, and the types have the numbers in `Nat`.

`Delivery_proofs` proves, for every set of workers and subscribers and every
bound (`DeliveryAssumption`), `Types`, `PublishedEventsAreDone`,
`RevisionsInOrder` and `WebhooksKeepTheirPromise`, the last of which is the
refinement of `DeliveryContract`. `OutboxInv` says what the dispatcher has done
for its event at each of its steps (`Dispatches`) and that a repository holds
the revisions up to its head and no others (`Repository`), no two events being
of one revision. `WebhookInv` says that the run of a delivery agrees with its
row and that what was sent, with what is about to be, is within the attempts the
row counts (`Row`): the sum with `Sending` is what bounds the sends of senders
that overlap. Success has a send behind it (`Sends`).

`ExternalCall_proofs` proves, for every set of keys and handlers, every limit
and every bound (`CallAssumption`), `Types`, `LimitIsKept` and
`CallsKeepTheirPromise`, the refinement of `CallContract` with its two additions.
The invariant says where a handler can be (`Claims`), what it has done once it
has claimed (`Works`), that no two work on one key (`Alone`), what row and job
say (`RowIsSound`, `JobIsSound`), and that the executions which hold a slot are
within the limit (`SlotsAreKept`). A step is reduced to a frame: the handlers it
moves, the keys it writes, the rest kept or swept (`Frame`). The limit on calls
under way follows from the one on slots, as handlers that call have claims of
their own: the map from handlers to keys is one-to-one.

Only model-checked: liveness (`EveryJobEnds`, `EverythingEnds`,
`NothingRunsForever`, `EveryBuildEnds`, `EveryMinuteEnds`), which needs ENABLED
and is out of the prover's reach. Every other property of a passing run has a
theorem.

## Not modelled

Transport (HTTP, MCP, the web client), rendering and generated code; calls of
external models; the insides of validators, collectors and compilers, which are
pure; usage counters and listings. `ReleaseService` (`release.go`) has no caller
outside tests. What is planned but not yet modelled is below.

## Plan

Done: 1. `JobContract`, `JobQueue`; 2. `ProposalValidation`; 3. `ProposalReview`
and `ReleaseManifest`; 4. `DiscoveryRun` on `JobContract`; 5. `Delivery` and its
contract; 6. `Production`; 7. `ExternalCall` and its contract, for Ask, query
execution and generation; 8. `Embedding`; 9. `Artifacts`; 10. `Schedule`; and
the proofs about all of them.

Next, most important first:

11. The authorization fence; `Session`.
12. Decisions on the candidates of discovery.
13. The resolver and the policy rules as operators against reference
    definitions.
14. Proofs, where the models grow: the chain of hand-overs between them (the
    release that `ProposalReview` publishes is a step of `ReleaseManifest`, the
    proposal it reviews one that `ProposalValidation` let through).
