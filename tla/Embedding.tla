------------------------------ MODULE Embedding ------------------------------
(***************************************************************************)
(* Indexes of embedding vectors over the published release, and the search *)
(* that uses them (application/embedding/service.go, embedding.go,         *)
(* migration 19, operations.go).                                           *)
(*                                                                         *)
(* A rebuild pins the newest release and the current model, takes over the *)
(* vectors that an earlier index has for the same text and model, and      *)
(* queues a job.  Attempts of the job compute what is missing batch by     *)
(* batch and activate the index.  One index of a workspace is being built  *)
(* at most, and one is active.                                             *)
(*                                                                         *)
(* Database transactions are atomic.  A handler may die, stall until its   *)
(* lease is reaped, or have any of its calls fail.  A search is a sequence *)
(* of reads between which anything may happen.                             *)
(***************************************************************************)
EXTENDS Naturals, FiniteSets

CONSTANTS
    Indexes,      \* bound: rebuilds
    Handler,      \* job lanes
    None,         \* no lane
    Assets,       \* how many assets there are
    Stable,       \* assets whose text is the same in every release
    Batch,        \* assets embedded by one call, 16 in the code
    Mixes         \* bounds: the handlers there are, max_attempts of a job (3 in the
                  \* code), the releases, models, changes of grants, searches, and
                  \* the faults: crashes, and leases reaped from those who live

Index == 1..Indexes   \* in the order of their requests
Asset == 1..Assets

Limits == [handlers : SUBSET Handler, attempts : Nat \ {0}, releases : Nat, models : Nat, grants : Nat,
           searches : Nat, faults : Nat]

ASSUME EmbeddingAssumption ==
    /\ None \notin Handler /\ Indexes \in Nat
    /\ Assets \in Nat \ {0} /\ Stable \subseteq Asset
    /\ Batch \in Nat \ {0}
    /\ Mixes \subseteq Limits

VARIABLES
    mix,       \* what may happen: the bounds of the instance, and the searches left
    newest,    \* the newest published release, 0 before the first
    model,     \* the default embedding model of the workspace
    readable,  \* assets the reader may see
    grants,    \* the workspace's authorization_version
    index,     \* embedding_index_versions
    vectors,   \* embedding_items
    run,       \* the runtime run of each index
    job,       \* the job of each index
    at,        \* where each job lane is
    search     \* where the search is

outside == <<newest, model, readable, grants>>
vars == <<mix, outside, index, vectors, run, job, at, search>>

IndexStates == {"none", "building", "active", "retired", "failed", "cancelled"}
Terminal == {"succeeded", "failed", "cancelled", "dead_letter"}
RunStates == {"none", "queued", "running"} \union Terminal
Steps == {"idle", "leased", "saving", "failing", "ending"}

\* What a release says of an asset, and what a model makes of it.
Text(release, a) == IF a \in Stable THEN 1 ELSE release
Vector(space, text) == [space |-> space, text |-> text]
NoVector == Vector(0, 0)

Idle == [step |-> "idle", index |-> 0, batch |-> {}, isLast |-> FALSE, says |-> "failed"]
NoSearch == [step |-> "idle", grants |-> 0, index |-> 0, left |-> {}, asset |-> 0, allowed |-> FALSE, items |-> {}]

Init ==
    /\ mix \in Mixes
    /\ newest = 0 /\ model = 1 /\ readable = Asset /\ grants = 0
    /\ index = [i \in Index |-> [state |-> "none", release |-> 0, space |-> 0]]
    /\ vectors = [i \in Index |-> [a \in Asset |-> NoVector]]
    /\ run = [i \in Index |-> "none"]
    /\ job = [i \in Index |-> [state |-> "none", attempts |-> 0, holder |-> None]]
    /\ at = [h \in Handler |-> Idle]
    /\ search = NoSearch

-----------------------------------------------------------------------------
(* What others change.                                                     *)

Publish ==
    /\ newest < mix.releases
    /\ newest' = newest + 1
    /\ UNCHANGED <<mix, model, readable, grants, index, vectors, run, job, at, search>>

ChangeModel ==
    /\ model < mix.models
    /\ model' = model + 1
    /\ UNCHANGED <<mix, newest, readable, grants, index, vectors, run, job, at, search>>

\* Every change of a grant bumps the version in its own transaction.
ChangeGrants ==
    /\ grants < mix.grants
    /\ grants' = grants + 1
    /\ readable' \in (SUBSET Asset) \ {readable}
    /\ UNCHANGED <<mix, newest, model, index, vectors, run, job, at, search>>

-----------------------------------------------------------------------------
(* Requests.                                                               *)

IsBuilding(i) == index[i].state = "building"

\* Bug: the vectors of another model are taken over.
BugReusable(a) == {i \in Index : index[i].state \in {"active", "retired"} /\ Text(index[i].release, a) = Text(newest, a)}
\* Indexes that have the vector of this text by this model.
Reusable(a) == {i \in Index : /\ index[i].state \in {"active", "retired"}
                              /\ index[i].space = model
                              /\ Text(index[i].release, a) = Text(newest, a)}

\* Refused without a release, and while another index is being built.
Start(i) ==
    /\ newest > 0 /\ index[i].state = "none" /\ \A j \in 1..(i - 1) : index[j].state # "none"
    /\ \A j \in Index : ~IsBuilding(j)
    /\ index' = [index EXCEPT ![i] = [state |-> "building", release |-> newest, space |-> model]]
    /\ vectors' = [vectors EXCEPT ![i] = [a \in Asset |->
                      IF Reusable(a) = {} THEN NoVector ELSE vectors[CHOOSE j \in Reusable(a) : TRUE][a]]]
    /\ run' = [run EXCEPT ![i] = "queued"]
    /\ job' = [job EXCEPT ![i].state = "ready"]
    /\ UNCHANGED <<mix, outside, at, search>>

Cancel(i) ==
    /\ IsBuilding(i)
    /\ index' = [index EXCEPT ![i].state = "cancelled"]
    /\ run' = [run EXCEPT ![i] = "cancelled"]
    /\ UNCHANGED <<mix, outside, vectors, job, at, search>>

-----------------------------------------------------------------------------
(* The job, and what its transitions do to the run and to the index.       *)

\* Bug: what the handler settled is written over.
BugIsSettledAs(i, state) == FALSE
IsSettledAs(i, state) == run[i] \in Terminal /\ run[i] # state

ProjectedRun(i, state) == IF IsSettledAs(i, state) THEN run[i] ELSE state
\* Bug: a dead job leaves its index behind.
BugProjectedIndex(i, state) == index[i].state
ProjectedIndex(i, state) ==
    IF ~IsSettledAs(i, state) /\ state = "dead_letter" /\ IsBuilding(i) THEN "failed" ELSE index[i].state

Project(i, state) ==
    /\ run' = [run EXCEPT ![i] = ProjectedRun(i, state)]
    /\ index' = [index EXCEPT ![i].state = ProjectedIndex(i, state)]

MayRetry(i) == job[i].attempts < mix.attempts

EndsAttempt(i, again) ==
    /\ job' = [job EXCEPT ![i].state = IF again THEN "ready" ELSE "dead", ![i].holder = None]
    /\ Project(i, IF again THEN "queued" ELSE "dead_letter")

Lease(h, i) ==
    /\ h \in mix.handlers /\ at[h] = Idle /\ job[i].state = "ready"
    /\ job' = [job EXCEPT ![i] = [state |-> "leased", attempts |-> @.attempts + 1, holder |-> h]]
    /\ at' = [at EXCEPT ![h] = [Idle EXCEPT !.step = "leased", !.index = i, !.isLast = job[i].attempts + 1 = mix.attempts]]
    /\ Project(i, "running")
    /\ UNCHANGED <<mix, outside, vectors, search>>

Fault == mix.faults > 0 /\ mix' = [mix EXCEPT !.faults = @ - 1]

IsAbandoned(i) == job[i].state = "leased" /\ at[job[i].holder].index # i
LoseLease(i) ==
    /\ job[i].state = "leased"
    /\ \/ IsAbandoned(i) /\ UNCHANGED mix
       \/ ~IsAbandoned(i) /\ Fault
    /\ EndsAttempt(i, MayRetry(i))
    /\ UNCHANGED <<outside, vectors, at, search>>

Holds(h) == job[at[h].index].holder = h
GoTo(h, step) == at' = [at EXCEPT ![h].step = step]
GoIdle(h) == at' = [at EXCEPT ![h] = Idle]
Ends(h, says) == at' = [at EXCEPT ![h].step = "ending", ![h].says = says]

EndJob(h) ==
    LET i == at[h].index IN
    /\ at[h].step = "ending" /\ Holds(h)
    /\ \/ /\ at[h].says = "succeeded"
          /\ job' = [job EXCEPT ![i].state = "done", ![i].holder = None]
          /\ Project(i, "succeeded")
       \/ /\ at[h].says # "succeeded"
          /\ EndsAttempt(i, at[h].says = "failed" /\ MayRetry(i))
    /\ GoIdle(h)
    /\ UNCHANGED <<mix, outside, vectors, search>>

LeaseIsLost(h) ==
    /\ at[h].step = "ending" /\ ~Holds(h)
    /\ GoIdle(h)
    /\ UNCHANGED <<mix, outside, index, vectors, run, job, search>>

-----------------------------------------------------------------------------
(* The handler.                                                            *)

Missing(i) == {a \in Asset : vectors[i][a] = NoVector}
\* The next ones, in the order of their numbers.
BatchOf(i) == {a \in Missing(i) : Cardinality({b \in Missing(i) : b < a}) < Batch}

\* What is left is read without the lease; when nothing is, the index is ready
\* to be activated.  An error of the provider that no retry cures, or on the
\* last attempt, fails the index.
NextBatch(h) ==
    LET i == at[h].index IN
    /\ at[h].step = "leased"
    /\ \/ index[i].state \in {"cancelled", "active", "retired"} /\ Ends(h, "succeeded")
       \/ index[i].state = "failed" /\ Ends(h, "permanent")
       \/ IsBuilding(i) /\ at' = [at EXCEPT ![h].step = "saving", ![h].batch = BatchOf(i)]
       \/ IsBuilding(i) /\ Missing(i) # {} /\ GoTo(h, "failing")
       \/ IsBuilding(i) /\ Missing(i) # {} /\ ~at[h].isLast /\ Ends(h, "failed")
    /\ UNCHANGED <<mix, outside, index, vectors, run, job, search>>

MayWrite(h) == Holds(h) /\ IsBuilding(at[h].index)

\* Vectors that are there stay as they are.
Checkpoint(h) ==
    LET i == at[h].index IN
    /\ at[h].step = "saving" /\ at[h].batch # {} /\ MayWrite(h)
    /\ vectors' = [vectors EXCEPT ![i] = [a \in Asset |->
                      IF a \in at[h].batch \intersect Missing(i) THEN Vector(index[i].space, Text(index[i].release, a)) ELSE @[a]]]
    /\ GoTo(h, "leased")
    /\ UNCHANGED <<mix, outside, index, run, job, search>>

\* The active index retires in the same transaction.
Activate(h) ==
    LET i == at[h].index IN
    /\ at[h].step = "saving" /\ at[h].batch = {} /\ MayWrite(h) /\ Missing(i) = {}
    /\ index' = [j \in Index |-> CASE j = i -> [index[j] EXCEPT !.state = "active"]
                                   [] index[j].state = "active" -> [index[j] EXCEPT !.state = "retired"]
                                   [] OTHER -> index[j]]
    /\ run' = [run EXCEPT ![i] = "succeeded"]
    /\ Ends(h, "succeeded")
    /\ UNCHANGED <<mix, outside, vectors, job, search>>

FailEmbedding(h) ==
    LET i == at[h].index IN
    /\ at[h].step = "failing" /\ Holds(h)
    /\ IF IsBuilding(i) THEN /\ index' = [index EXCEPT ![i].state = "failed"]
                             /\ run' = [run EXCEPT ![i] = "failed"]
                        ELSE UNCHANGED <<index, run>>
    /\ Ends(h, "permanent")
    /\ UNCHANGED <<mix, outside, vectors, job, search>>

\* Refused for want of the lease or of a building index, or the database fails.
StepFails(h) ==
    /\ at[h].step \in {"leased", "saving", "failing"}
    /\ Ends(h, "failed")
    /\ UNCHANGED <<mix, outside, index, vectors, run, job, search>>

Crash(h) ==
    /\ at[h] # Idle /\ Fault
    /\ GoIdle(h)
    /\ UNCHANGED <<outside, index, vectors, run, job, search>>

-----------------------------------------------------------------------------
(* The search.                                                             *)

BeginSearch ==
    /\ search.step = "idle" /\ mix.searches > 0
    /\ mix' = [mix EXCEPT !.searches = @ - 1]
    /\ search' = [NoSearch EXCEPT !.step = "asked", !.grants = grants]
    /\ UNCHANGED <<outside, index, vectors, run, job, at>>

Active == {i \in Index : index[i].state = "active"}

\* The question is embedded by the model of the index, if it can be.
ReadStatus ==
    /\ search.step = "asked"
    /\ \E i \in Active \union {0} : search' = [search EXCEPT !.step = "embedded", !.index = i]
    /\ UNCHANGED <<mix, outside, index, vectors, run, job, at>>

\* An index that was replaced, or whose release was, answers no more.
Answers(i) == i \in Active /\ index[i].release = newest

\* By vectors, or by the words of the newest release, any of which may match.
Query ==
    /\ search.step = "embedded"
    /\ \/ Answers(search.index) /\ search' = [search EXCEPT !.step = "vector", !.left = Asset \ Missing(search.index)]
       \/ /\ ~Answers(search.index)
          /\ \E found \in SUBSET Asset :
                /\ newest > 0 \/ found = {}
                /\ search' = [search EXCEPT !.step = "lexical", !.index = 0, !.left = found]
    /\ UNCHANGED <<mix, outside, index, vectors, run, job, at>>

\* The grants of an asset are read first, the version after.
CheckAsset ==
    /\ search.step \in {"vector", "lexical"} /\ search.asset = 0
    /\ \E a \in search.left :
          /\ \A b \in search.left : a <= b
          /\ search' = [search EXCEPT !.asset = a, !.allowed = a \in readable, !.left = @ \ {a}]
    /\ UNCHANGED <<mix, outside, index, vectors, run, job, at>>

KeepAsset ==
    /\ search.asset # 0
    /\ \/ ~search.allowed /\ search' = [search EXCEPT !.asset = 0]
       \/ /\ search.allowed /\ search.grants = grants
          /\ search' = [search EXCEPT !.asset = 0, !.allowed = FALSE, !.items = @ \union {search.asset}]
       \/ /\ search.allowed /\ search.grants # grants
          /\ search' = NoSearch
    /\ UNCHANGED <<mix, outside, index, vectors, run, job, at>>

IsFiltered == search.step \in {"vector", "lexical"} /\ search.asset = 0 /\ search.left = {}

\* The version once more: the answer goes out, or the request is refused.
Serve ==
    /\ IsFiltered
    /\ search' = IF search.grants = grants THEN [search EXCEPT !.step = "served"] ELSE NoSearch
    /\ UNCHANGED <<mix, outside, index, vectors, run, job, at>>

Leave ==
    /\ search.step = "served"
    /\ search' = NoSearch
    /\ UNCHANGED <<mix, outside, index, vectors, run, job, at>>

-----------------------------------------------------------------------------
Proceed(h) ==
    \/ NextBatch(h) \/ Checkpoint(h) \/ Activate(h) \/ FailEmbedding(h)
    \/ StepFails(h) \/ EndJob(h) \/ LeaseIsLost(h)

Search == BeginSearch \/ ReadStatus \/ Query \/ CheckAsset \/ KeepAsset \/ Serve \/ Leave

Next ==
    \/ Publish \/ ChangeModel \/ ChangeGrants
    \/ \E i \in Index : Start(i) \/ Cancel(i) \/ LoseLease(i)
    \/ \E h \in Handler : Proceed(h) \/ Crash(h) \/ \E i \in Index : Lease(h, i)
    \/ Search

Spec == Init /\ [][Next]_vars

\* Lanes go on: each call of a handler has a timeout.  The lease of an attempt
\* that is gone runs out.
Fairness ==
    /\ \A h \in Handler : WF_vars(Proceed(h))
    /\ \A i \in Index : WF_vars(\E h \in Handler : Lease(h, i)) /\ WF_vars(IsAbandoned(i) /\ LoseLease(i))

FairSpec == Spec /\ Fairness

-----------------------------------------------------------------------------
(* Properties.                                                             *)

\* TypeOK: the types of rows and lanes.
JobRows == [state : {"none", "ready", "leased", "done", "dead"}, attempts : Nat, holder : Handler \union {None}]

Rows ==
    /\ index \in [Index -> [state : IndexStates, release : Nat, space : Nat]]
    /\ run \in [Index -> RunStates]
    /\ job \in [Index -> JobRows]
    /\ newest \in Nat /\ model \in Nat

Lanes ==
    at \in [Handler -> [step : Steps, index : Index \union {0}, batch : SUBSET Asset,
                        isLast : BOOLEAN, says : {"succeeded", "failed", "permanent"}]]

TypeOK == Rows /\ Lanes

\* The run that operators see tells what became of the index, whichever of a
\* cancellation, the handler, the end of the job or the reaper came first.
RunTellsTheOutcome ==
    \A i \in Index :
        CASE index[i].state = "none" -> run[i] = "none"
          [] index[i].state = "building" -> run[i] \in {"queued", "running"} /\ job[i].state \in {"ready", "leased"}
          [] index[i].state \in {"active", "retired"} -> run[i] = "succeeded"
          [] index[i].state = "failed" -> run[i] \in {"failed", "dead_letter"}
          [] index[i].state = "cancelled" -> run[i] = "cancelled"

\* A vector search compares the question with what its own model made of the
\* newest release, all of it, though models, releases and indexes change while
\* it runs; and the reader may see what is served at the moment it is served
\* (docs/operations/embedding.md: "uses only currently published revisions
\* that the caller can read").
SearchIsHonest ==
    [][ /\ search.step = "embedded" /\ search'.step = "vector" =>
              \A a \in Asset : /\ a \in search'.left
                               /\ vectors[search.index][a] = Vector(index[search.index].space, Text(newest, a))
        /\ search'.step = "served" /\ search.step # "served" => search.items \subseteq readable ]_vars

\* A build ends, whatever happens to its handlers, so that the next one is not
\* refused for ever.
EveryBuildEnds == \A i \in Index : index[i].state = "building" ~> index[i].state # "building"

=============================================================================
