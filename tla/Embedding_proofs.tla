--------------------------- MODULE Embedding_proofs --------------------------
(***************************************************************************)
(* Theorems about Embedding, for any rebuilds, lanes, assets and bounds:   *)
(* the run that operators see tells what became of the index, and a search *)
(* answers from one release and one model what its reader may see.         *)
(***************************************************************************)
EXTENDS Embedding, TLAPS

\* What index, run and job of one rebuild say together.
Agree(i) ==
    \/ index[i].state = "none" /\ run[i] = "none" /\ job[i].state = "none"
    \/ index[i].state = "building" /\ run[i] \in {"queued", "running"} /\ job[i].state \in {"ready", "leased"}
    \/ index[i].state \in {"active", "retired"} /\ run[i] = "succeeded"
    \/ index[i].state = "failed" /\ run[i] \in {"failed", "dead_letter"}
    \/ index[i].state = "cancelled" /\ run[i] = "cancelled"

\* A lane works on a rebuild that was requested, and reports success only of
\* one that is no longer being built.
Honest(h) ==
    /\ at[h].step # "idle" => at[h].index \in Index /\ index[at[h].index].state # "none"
    /\ at[h].step = "ending" /\ at[h].says = "succeeded" => index[at[h].index].state # "building"

IInv == Rows /\ Lanes /\ (\A i \in Index : Agree(i)) /\ (\A h \in Handler : Honest(h))

-----------------------------------------------------------------------------
(* What a step does to one rebuild.                                        *)

\* A job transition keeps rows and agreement, unless it reports the success of
\* a rebuild that is being built; it never opens a build again.
LEMMA JobStep ==
    ASSUME Rows, NEW i \in Index, Agree(i), index[i].state # "none",
           NEW state \in {"queued", "running", "succeeded", "dead_letter"},
           state = "succeeded" => index[i].state # "building",
           job' \in [Index -> JobRows], \A j \in Index \ {i} : job'[j] = job[j],
           state \in {"queued", "running"} => job'[i].state \in {"ready", "leased"},
           Project(i, state), UNCHANGED <<newest, model>>
    PROVE  /\ Rows'
           /\ Agree(i)'
           /\ \A j \in Index \ {i} : index'[j] = index[j] /\ run'[j] = run[j] /\ job'[j] = job[j]
           /\ index'[i].state \in {index[i].state, "failed"}
<1> USE DEF Rows
<1>1. ProjectedRun(i, state) \in RunStates
  BY DEF ProjectedRun, RunStates, Terminal
<1>2. ProjectedIndex(i, state) \in {index[i].state, "failed"}
  BY DEF ProjectedIndex
<1>3. /\ run' = [run EXCEPT ![i] = ProjectedRun(i, state)]
      /\ index' = [index EXCEPT ![i].state = ProjectedIndex(i, state)]
  BY DEF Project
<1>4. Rows'
  BY <1>1, <1>2, <1>3 DEF IndexStates
<1>5. run'[i] = ProjectedRun(i, state) /\ index'[i].state = ProjectedIndex(i, state)
  BY <1>3
<1>6. Agree(i)'
  BY <1>5 DEF Agree, ProjectedRun, ProjectedIndex, IsSettledAs, IsBuilding, Terminal
<1>7. \A j \in Index \ {i} : index'[j] = index[j] /\ run'[j] = run[j] /\ job'[j] = job[j]
  BY <1>3
<1> QED BY <1>2, <1>4, <1>5, <1>6, <1>7

\* Lanes that stay where they are remain honest as long as no rebuild is
\* forgotten or built again.
LEMMA StaysHonest ==
    ASSUME NEW h \in Handler, Honest(h), at'[h] = at[h],
           \A i \in Index : /\ index[i].state # "none" => index'[i].state # "none"
                            /\ index'[i].state = "building" => index[i].state \in {"none", "building"}
    PROVE  Honest(h)'
  BY DEF Honest

\* Whatever the outside and the search do.
LEMMA Elsewhere ==
    ASSUME IInv, newest' \in Nat, model' \in Nat, UNCHANGED <<index, run, job, at>>
    PROVE  IInv'
  BY DEF IInv, Rows, Lanes, Agree, Honest

-----------------------------------------------------------------------------
LEMMA InitHolds == Init => IInv
<1> SUFFICES ASSUME Init PROVE IInv
  OBVIOUS
<1>1. Rows
  BY DEF Init, Rows, JobRows, IndexStates, RunStates, Terminal
<1>2. Lanes
  BY DEF Init, Lanes, Idle, Steps
<1>3. \A i \in Index : Agree(i)
  BY DEF Init, Agree
<1>4. \A h \in Handler : Honest(h)
  BY DEF Init, Honest, Idle
<1> QED BY <1>1, <1>2, <1>3, <1>4 DEF IInv

\* The end of an attempt is a job transition.
LEMMA AttemptStep ==
    ASSUME Rows, NEW i \in Index, Agree(i), index[i].state # "none", NEW again \in BOOLEAN,
           EndsAttempt(i, again), UNCHANGED <<newest, model>>
    PROVE  /\ Rows'
           /\ Agree(i)'
           /\ \A j \in Index \ {i} : index'[j] = index[j] /\ run'[j] = run[j] /\ job'[j] = job[j]
           /\ index'[i].state \in {index[i].state, "failed"}
<1> USE DEF Rows, JobRows
<1>1. /\ job' \in [Index -> JobRows] /\ job'[i].state = (IF again THEN "ready" ELSE "dead")
      /\ \A j \in Index \ {i} : job'[j] = job[j]
  BY ZenonT(60) DEF EndsAttempt
<1>2. CASE again
  <2>1. Project(i, "queued")
    BY <1>2 DEF EndsAttempt
  <2> HIDE DEF Rows, JobRows
  <2> QED BY <1>1, <1>2, <2>1, JobStep
<1>3. CASE ~again
  <2>1. Project(i, "dead_letter")
    BY <1>3 DEF EndsAttempt
  <2> HIDE DEF Rows, JobRows
  <2> QED BY <1>1, <1>3, <2>1, JobStep
<1> QED BY <1>2, <1>3

\* A step of one rebuild keeps the invariant, if what it does to the rebuild
\* and to the lane does.
LEMMA OneRebuild ==
    ASSUME IInv, NEW i \in Index, Rows', Lanes', Agree(i)',
           \A j \in Index \ {i} : index'[j] = index[j] /\ run'[j] = run[j] /\ job'[j] = job[j],
           index[i].state # "none" => index'[i].state # "none",
           index'[i].state = "building" => index[i].state \in {"none", "building"},
           NEW h \in Handler, Honest(h)', \A g \in Handler \ {h} : at'[g] = at[g]
    PROVE  IInv'
<1>1. \A j \in Index : Agree(j)'
  BY DEF IInv, Agree
<1>2. \A g \in Handler : Honest(g)'
  BY StaysHonest DEF IInv
<1> QED BY <1>1, <1>2 DEF IInv

\* Likewise for a step of a lane that leaves the rebuilds alone.
LEMMA OnlyLane ==
    ASSUME IInv, UNCHANGED <<newest, model, index, run, job>>, Lanes',
           NEW h \in Handler, Honest(h)', \A g \in Handler \ {h} : at'[g] = at[g]
    PROVE  IInv'
<1>1. Rows' /\ \A j \in Index : Agree(j)'
  BY DEF IInv, Rows, Agree
<1>2. \A g \in Handler : Honest(g)'
  BY StaysHonest DEF IInv
<1> QED BY <1>1, <1>2 DEF IInv

\* Where a lane may go.
LEMMA LaneMoves ==
    ASSUME Lanes, NEW h \in Handler
    PROVE  /\ \A step \in Steps : GoTo(h, step) => /\ Lanes' /\ at'[h].step = step /\ at'[h].index = at[h].index
                                                   /\ \A g \in Handler \ {h} : at'[g] = at[g]
           /\ GoIdle(h) => Lanes' /\ at'[h].step = "idle" /\ \A g \in Handler \ {h} : at'[g] = at[g]
           /\ \A says \in {"succeeded", "failed", "permanent"} :
                Ends(h, says) => /\ Lanes' /\ at'[h].step = "ending" /\ at'[h].says = says /\ at'[h].index = at[h].index
                                 /\ \A g \in Handler \ {h} : at'[g] = at[g]
<1>1. ASSUME NEW step \in Steps, GoTo(h, step)
      PROVE  /\ Lanes' /\ at'[h].step = step /\ at'[h].index = at[h].index
             /\ \A g \in Handler \ {h} : at'[g] = at[g]
  BY <1>1 DEF GoTo, Lanes
<1>2. ASSUME GoIdle(h)
      PROVE  Lanes' /\ at'[h].step = "idle" /\ \A g \in Handler \ {h} : at'[g] = at[g]
  BY <1>2 DEF GoIdle, Lanes, Idle, Steps
<1>3. ASSUME NEW says \in {"succeeded", "failed", "permanent"}, Ends(h, says)
      PROVE  /\ Lanes' /\ at'[h].step = "ending" /\ at'[h].says = says /\ at'[h].index = at[h].index
             /\ \A g \in Handler \ {h} : at'[g] = at[g]
  BY <1>3, ZenonT(60) DEF Ends, Lanes, Steps
<1> QED BY <1>1, <1>2, <1>3

-----------------------------------------------------------------------------
(* The steps.                                                              *)

LEMMA StartKeeps == ASSUME IInv, NEW i \in Index, Start(i) PROVE IInv'
<1> USE DEF IInv
<1>1. /\ index' = [index EXCEPT ![i] = [state |-> "building", release |-> newest, space |-> model]]
      /\ run' = [run EXCEPT ![i] = "queued"] /\ job' = [job EXCEPT ![i].state = "ready"]
      /\ index[i].state = "none" /\ UNCHANGED <<newest, model, at>>
  BY DEF Start, outside
<1>2. Rows'
  BY <1>1 DEF Rows, JobRows, IndexStates, RunStates
<1>3. \A j \in Index \ {i} : index'[j] = index[j] /\ run'[j] = run[j] /\ job'[j] = job[j]
  BY <1>1 DEF Rows
<1>4. index'[i].state = "building" /\ run'[i] = "queued" /\ job'[i].state = "ready"
  BY <1>1 DEF Rows, JobRows
<1>5. \A j \in Index : Agree(j)'
  BY <1>3, <1>4 DEF Agree
<1>6. Lanes'
  BY <1>1 DEF Lanes
<1>7. \A h \in Handler : at'[h] = at[h] /\ Honest(h)
  BY <1>1
<1>8. \A h \in Handler : Honest(h)'
  <2> SUFFICES ASSUME NEW h \in Handler PROVE Honest(h)'
    OBVIOUS
  <2>1. \A j \in Index : /\ index[j].state # "none" => index'[j].state # "none"
                         /\ index'[j].state = "building" => index[j].state \in {"none", "building"}
    BY <1>1, <1>3, <1>4
  <2>2. at[h].step # "idle" => at[h].index \in Index /\ at[h].index # i
    BY <1>1, <1>7 DEF Honest
  <2> QED BY <1>3, <1>7, <2>2 DEF Honest
<1> QED BY <1>2, <1>5, <1>6, <1>8

LEMMA CancelKeeps == ASSUME IInv, NEW i \in Index, Cancel(i) PROVE IInv'
<1>1. /\ index' = [index EXCEPT ![i].state = "cancelled"] /\ run' = [run EXCEPT ![i] = "cancelled"]
      /\ index[i].state = "building" /\ UNCHANGED <<newest, model, job, at>>
  BY DEF Cancel, outside, IsBuilding
<1>2. Rows'
  BY <1>1 DEF IInv, Rows, IndexStates, RunStates, Terminal
<1>3. \A j \in Index \ {i} : index'[j] = index[j] /\ run'[j] = run[j]
  BY <1>1 DEF IInv, Rows
<1>4. index'[i].state = "cancelled" /\ run'[i] = "cancelled"
  BY <1>1 DEF IInv, Rows
<1>5. \A j \in Index : Agree(j)'
  BY <1>1, <1>3, <1>4 DEF IInv, Agree
<1>6. \A h \in Handler : Honest(h)'
  BY <1>1, <1>3, <1>4, StaysHonest DEF IInv
<1> QED BY <1>1, <1>2, <1>5, <1>6 DEF IInv, Lanes

\* A job is only leased, lost or ended of a rebuild that was requested.
LEMMA Requested == ASSUME IInv, NEW i \in Index, job[i].state # "none" PROVE index[i].state # "none"
  BY DEF IInv, Agree

LEMMA LeaseKeeps == ASSUME IInv, NEW h \in Handler, NEW i \in Index, Lease(h, i) PROVE IInv'
<1>1. /\ job' = [job EXCEPT ![i] = [state |-> "leased", attempts |-> @.attempts + 1, holder |-> h]]
      /\ at' = [at EXCEPT ![h] = [Idle EXCEPT !.step = "leased", !.index = i, !.isLast = job[i].attempts + 1 = mix.attempts]]
      /\ Project(i, "running") /\ job[i].state = "ready" /\ UNCHANGED <<newest, model>>
  BY DEF Lease, outside
<1>2. index[i].state # "none"
  BY <1>1, Requested
<1>3. job' \in [Index -> JobRows] /\ job'[i].state = "leased" /\ \A j \in Index \ {i} : job'[j] = job[j]
  BY <1>1 DEF IInv, Rows, JobRows
<1>4. /\ Rows' /\ Agree(i)' /\ index'[i].state \in {index[i].state, "failed"}
      /\ \A j \in Index \ {i} : index'[j] = index[j] /\ run'[j] = run[j] /\ job'[j] = job[j]
  BY <1>1, <1>2, <1>3, JobStep DEF IInv
<1>5. /\ Lanes' /\ at'[h].step = "leased" /\ at'[h].index = i /\ \A g \in Handler \ {h} : at'[g] = at[g]
  BY <1>1 DEF IInv, Lanes, Idle, Steps
<1>6. Honest(h)'
  BY <1>2, <1>4, <1>5 DEF Honest
<1> QED BY <1>2, <1>4, <1>5, <1>6, OneRebuild

LEMMA LoseLeaseKeeps == ASSUME IInv, NEW i \in Index, LoseLease(i) PROVE IInv'
<1>1. /\ EndsAttempt(i, MayRetry(i)) /\ MayRetry(i) \in BOOLEAN
      /\ index[i].state # "none" /\ UNCHANGED <<newest, model, at>>
  BY Requested DEF LoseLease, outside, MayRetry
<1>2. /\ Rows' /\ Agree(i)' /\ index'[i].state \in {index[i].state, "failed"}
      /\ \A j \in Index \ {i} : index'[j] = index[j] /\ run'[j] = run[j] /\ job'[j] = job[j]
  BY <1>1, AttemptStep DEF IInv
<1>3. \A j \in Index : Agree(j)'
  BY <1>2 DEF IInv, Agree
<1>4. \A h \in Handler : Honest(h)'
  BY <1>1, <1>2, StaysHonest DEF IInv
<1> QED BY <1>1, <1>2, <1>3, <1>4 DEF IInv, Lanes

LEMMA EndJobKeeps == ASSUME IInv, NEW h \in Handler, EndJob(h) PROVE IInv'
<1>0. PICK i \in Index : i = at[h].index
  BY DEF EndJob, IInv, Honest
<1>1. /\ index[i].state # "none" /\ at[h].step = "ending"
      /\ at[h].says = "succeeded" => index[i].state # "building"
  BY <1>0 DEF EndJob, IInv, Honest
<1>2. GoIdle(h) /\ UNCHANGED <<newest, model>>
  BY DEF EndJob, outside
<1>3. /\ Rows' /\ Agree(i)' /\ index'[i].state \in {index[i].state, "failed"}
      /\ \A j \in Index \ {i} : index'[j] = index[j] /\ run'[j] = run[j] /\ job'[j] = job[j]
  <2>1. CASE at[h].says = "succeeded"
    <3>1. job' = [job EXCEPT ![i].state = "done", ![i].holder = None] /\ Project(i, "succeeded")
      BY <1>0, <2>1 DEF EndJob
    <3>2. job' \in [Index -> JobRows] /\ \A j \in Index \ {i} : job'[j] = job[j]
      BY <1>1, <3>1 DEF IInv, Rows, JobRows
    <3> QED BY <1>1, <1>2, <2>1, <3>1, <3>2, JobStep DEF IInv
  <2>2. CASE at[h].says # "succeeded"
    <3>1. EndsAttempt(i, at[h].says = "failed" /\ MayRetry(i))
      BY <1>0, <2>2 DEF EndJob
    <3>2. (at[h].says = "failed" /\ MayRetry(i)) \in BOOLEAN
      BY DEF MayRetry
    <3> QED BY <1>1, <1>2, <3>1, <3>2, AttemptStep DEF IInv
  <2> QED BY <2>1, <2>2
<1>4. Lanes' /\ at'[h].step = "idle" /\ \A g \in Handler \ {h} : at'[g] = at[g]
  BY <1>2, LaneMoves DEF IInv
<1>5. Honest(h)'
  BY <1>4 DEF Honest
<1> QED BY <1>1, <1>3, <1>4, <1>5, OneRebuild

LEMMA CheckpointKeeps == ASSUME IInv, NEW h \in Handler, Checkpoint(h) PROVE IInv'
<1>1. GoTo(h, "leased") /\ UNCHANGED <<newest, model, index, run, job>> /\ at[h].step = "saving"
  BY DEF Checkpoint, outside
<1>2. /\ Lanes' /\ at'[h].step = "leased" /\ at'[h].index = at[h].index /\ \A g \in Handler \ {h} : at'[g] = at[g]
  BY <1>1, LaneMoves DEF IInv, Steps
<1>3. Honest(h)'
  BY <1>1, <1>2 DEF Honest, IInv
<1> QED BY <1>1, <1>2, <1>3, OnlyLane

LEMMA NextBatchKeeps == ASSUME IInv, NEW h \in Handler, NextBatch(h) PROVE IInv'
<1> DEFINE i == at[h].index
<1>1. /\ UNCHANGED <<newest, model, index, run, job>> /\ at[h].step = "leased"
      /\ i \in Index /\ index[i].state # "none"
  BY DEF NextBatch, outside, IInv, Honest
<1>2. ASSUME Lanes', at'[h].index = i, at'[h].says = "succeeded" /\ at'[h].step = "ending" => index[i].state # "building",
             \A g \in Handler \ {h} : at'[g] = at[g]
      PROVE  IInv'
  <2>1. Honest(h)'
    BY <1>1, <1>2 DEF Honest
  <2> QED BY <1>1, <1>2, <2>1, OnlyLane
<1>3. CASE index[i].state \in {"cancelled", "active", "retired"} /\ Ends(h, "succeeded")
  BY <1>2, <1>3, LaneMoves DEF IInv
<1>4. CASE Ends(h, "permanent")
  BY <1>2, <1>4, LaneMoves DEF IInv
<1>5. CASE at' = [at EXCEPT ![h].step = "saving", ![h].batch = BatchOf(i)]
  <2>1. BatchOf(i) \in SUBSET Asset
    BY DEF BatchOf, Missing
  <2>2. /\ Lanes' /\ at'[h].index = i /\ at'[h].step = "saving" /\ \A g \in Handler \ {h} : at'[g] = at[g]
    BY <1>5, <2>1 DEF IInv, Lanes, Steps
  <2> QED BY <1>2, <2>2
<1>6. CASE GoTo(h, "failing")
  BY <1>2, <1>6, LaneMoves DEF IInv, Steps
<1>7. CASE Ends(h, "failed")
  BY <1>2, <1>7, LaneMoves DEF IInv
<1> QED BY <1>3, <1>4, <1>5, <1>6, <1>7 DEF NextBatch

LEMMA ActivateKeeps == ASSUME IInv, NEW h \in Handler, Activate(h) PROVE IInv'
<1> DEFINE i == at[h].index
<1>1. /\ i \in Index /\ index[i].state = "building" /\ Ends(h, "succeeded")
      /\ index' = [j \in Index |-> CASE j = i -> [index[j] EXCEPT !.state = "active"]
                                     [] index[j].state = "active" -> [index[j] EXCEPT !.state = "retired"]
                                     [] OTHER -> index[j]]
      /\ run' = [run EXCEPT ![i] = "succeeded"] /\ UNCHANGED <<newest, model, job>>
  BY DEF Activate, MayWrite, IsBuilding, outside, IInv, Honest
<1>2. Rows'
  BY <1>1 DEF IInv, Rows, IndexStates, RunStates, Terminal
<1>3. /\ index'[i].state = "active" /\ run'[i] = "succeeded"
      /\ \A j \in Index \ {i} : /\ run'[j] = run[j]
                                /\ index'[j].state = (IF index[j].state = "active" THEN "retired" ELSE index[j].state)
  BY <1>1 DEF IInv, Rows
<1>4. \A j \in Index : Agree(j)'
  BY <1>1, <1>3 DEF IInv, Agree
<1>5. /\ Lanes' /\ at'[h].index = i /\ \A g \in Handler \ {h} : at'[g] = at[g]
  BY <1>1, LaneMoves DEF IInv
<1>6. Honest(h)'
  BY <1>1, <1>3, <1>5 DEF Honest
<1>7. \A g \in Handler : Honest(g)'
  BY <1>1, <1>3, <1>5, <1>6, StaysHonest DEF IInv
<1> QED BY <1>2, <1>4, <1>5, <1>7 DEF IInv

LEMMA FailEmbeddingKeeps == ASSUME IInv, NEW h \in Handler, FailEmbedding(h) PROVE IInv'
<1> DEFINE i == at[h].index
<1>1. i \in Index /\ Ends(h, "permanent") /\ index[i].state # "none" /\ UNCHANGED <<newest, model, job>>
  BY DEF FailEmbedding, outside, IInv, Honest
<1>2. /\ Lanes' /\ at'[h].index = i /\ at'[h].says = "permanent" /\ \A g \in Handler \ {h} : at'[g] = at[g]
  BY <1>1, LaneMoves DEF IInv
<1>3. CASE index[i].state = "building"
  <2>1. index' = [index EXCEPT ![i].state = "failed"] /\ run' = [run EXCEPT ![i] = "failed"]
    BY <1>3 DEF FailEmbedding, IsBuilding
  <2>2. Rows'
    BY <1>1, <2>1 DEF IInv, Rows, IndexStates, RunStates, Terminal
  <2>3. /\ index'[i].state = "failed" /\ run'[i] = "failed"
        /\ \A j \in Index \ {i} : index'[j] = index[j] /\ run'[j] = run[j] /\ job'[j] = job[j]
    BY <1>1, <2>1 DEF IInv, Rows
  <2>4. Agree(i)' /\ Honest(h)'
    BY <1>1, <1>2, <2>3 DEF Agree, Honest
  <2> QED BY <1>1, <1>2, <2>2, <2>3, <2>4, OneRebuild
<1>4. CASE index[i].state # "building"
  <2>1. UNCHANGED <<newest, model, index, run, job>>
    BY <1>1, <1>4 DEF FailEmbedding, IsBuilding
  <2>2. Honest(h)'
    BY <1>1, <1>2, <2>1 DEF Honest
  <2> QED BY <1>2, <2>1, <2>2, OnlyLane
<1> QED BY <1>3, <1>4

LEMMA StepFailsKeeps == ASSUME IInv, NEW h \in Handler, StepFails(h) PROVE IInv'
<1>1. Ends(h, "failed") /\ UNCHANGED <<newest, model, index, run, job>> /\ at[h].step # "idle"
  BY DEF StepFails, outside
<1>2. /\ Lanes' /\ at'[h].says = "failed" /\ at'[h].index = at[h].index /\ \A g \in Handler \ {h} : at'[g] = at[g]
  BY <1>1, LaneMoves DEF IInv
<1>3. Honest(h)'
  BY <1>1, <1>2 DEF Honest, IInv
<1> QED BY <1>1, <1>2, <1>3, OnlyLane

\* A lane that stops, by a crash or because its lease is gone.
LEMMA StopKeeps ==
    ASSUME IInv, NEW h \in Handler, GoIdle(h), UNCHANGED <<newest, model, index, run, job>>
    PROVE  IInv'
<1>1. Lanes' /\ at'[h].step = "idle" /\ \A g \in Handler \ {h} : at'[g] = at[g]
  BY LaneMoves DEF IInv
<1>2. Honest(h)'
  BY <1>1 DEF Honest
<1> QED BY <1>1, <1>2, OnlyLane

-----------------------------------------------------------------------------
LEMMA StepKeeps == IInv /\ [Next]_vars => IInv'
<1> SUFFICES ASSUME IInv, [Next]_vars PROVE IInv'
  OBVIOUS
<1>1. IInv => newest \in Nat /\ model \in Nat
  BY DEF IInv, Rows
<1>2. CASE Publish \/ ChangeModel \/ ChangeGrants
  BY <1>1, <1>2, Elsewhere DEF Publish, ChangeModel, ChangeGrants
<1>3. CASE \E i \in Index : Start(i) \/ Cancel(i) \/ LoseLease(i)
  BY <1>3, StartKeeps, CancelKeeps, LoseLeaseKeeps
<1>4. CASE \E h \in Handler : Proceed(h)
  <2>1. \A h \in Handler : LeaseIsLost(h) => GoIdle(h) /\ UNCHANGED <<newest, model, index, run, job>>
    BY DEF LeaseIsLost, outside
  <2> QED BY <1>4, <2>1, NextBatchKeeps, CheckpointKeeps, ActivateKeeps, FailEmbeddingKeeps, StepFailsKeeps,
             EndJobKeeps, StopKeeps DEF Proceed
<1>5. CASE \E h \in Handler : Crash(h)
  <2>1. \A h \in Handler : Crash(h) => GoIdle(h) /\ UNCHANGED <<newest, model, index, run, job>>
    BY DEF Crash, outside
  <2> QED BY <1>5, <2>1, StopKeeps
<1>6. CASE \E h \in Handler : \E i \in Index : Lease(h, i)
  BY <1>6, LeaseKeeps
<1>7. CASE Search
  BY <1>1, <1>7, Elsewhere DEF Search, BeginSearch, ReadStatus, Query, CheckAsset, KeepAsset, Serve, Leave, outside
<1>8. CASE UNCHANGED vars
  BY <1>1, <1>8, Elsewhere DEF vars, outside
<1> QED BY <1>2, <1>3, <1>4, <1>5, <1>6, <1>7, <1>8 DEF Next

\* Rows and lanes keep their types.
THEOREM Types == Spec => []TypeOK
<1>1. IInv => TypeOK
  BY DEF IInv, TypeOK
<1> QED BY <1>1, InitHolds, StepKeeps, PTL DEF Spec

\* The run that operators see tells what became of the index, whatever the
\* order in which a cancellation, the handler, the end of the job and the
\* reaper of leases come (embedding.go, operations.go, queue.go).
THEOREM OutcomeTold == Spec => []RunTellsTheOutcome
<1>1. IInv => RunTellsTheOutcome
  BY DEF IInv, Agree, RunTellsTheOutcome
<1> QED BY <1>1, InitHolds, StepKeeps, PTL DEF Spec

-----------------------------------------------------------------------------
(* Vectors, and the search that uses them.                                 *)

\* What the model of an index makes of an asset of its release.
Made(i, a) == Vector(index[i].space, Text(index[i].release, a))

\* An index has the vectors it should have or none, and all of them once it
\* was activated.
Vectors ==
    /\ vectors \in [Index -> [Asset -> [space : Nat, text : Nat]]]
    /\ \A i \in Index, a \in Asset :
        /\ vectors[i][a] \in {NoVector, Made(i, a)}
        /\ index[i].state \in {"active", "retired"} => vectors[i][a] # NoVector

Searches == [step : {"idle", "asked", "embedded", "vector", "lexical", "served"}, grants : Nat, index : Index \union {0},
             left : SUBSET Asset, asset : Asset \union {0}, allowed : BOOLEAN, items : SUBSET Asset]

\* As long as no grant changed since the search began, what it keeps and what
\* it is about to keep can be read.
Permitted == search.items \subseteq readable /\ (search.asset # 0 /\ search.allowed => search.asset \in readable)
Looking ==
    /\ search \in Searches /\ grants \in Nat /\ readable \in SUBSET Asset /\ search.grants <= grants
    /\ search.grants = grants => Permitted

SInv == Vectors /\ Looking

\* What SearchIsHonest says of a step.
AnswersHonestly ==
    /\ search.step = "embedded" /\ search'.step = "vector" =>
          \A a \in Asset : /\ a \in search'.left
                           /\ vectors[search.index][a] = Vector(index[search.index].space, Text(newest, a))
    /\ search'.step = "served" /\ search.step # "served" => search.items \subseteq readable

\* Rebuilds that keep their release and model, and of which none is activated.
SameBuilds ==
    \A i \in Index : /\ index'[i].release = index[i].release /\ index'[i].space = index[i].space
                     /\ index'[i].state \in {"active", "retired"} => index[i].state \in {"active", "retired"}

LEMMA VectorsStay == ASSUME Vectors, SameBuilds, UNCHANGED vectors PROVE Vectors'
  BY DEF Vectors, SameBuilds, Made

LEMMA ProjectedBuilds == ASSUME Rows, NEW i \in Index, NEW state, Project(i, state) PROVE SameBuilds
<1>1. index' = [index EXCEPT ![i].state = ProjectedIndex(i, state)]
  BY DEF Project
<1>2. ProjectedIndex(i, state) \in {index[i].state, "failed"}
  BY DEF ProjectedIndex
<1> QED BY <1>1, <1>2 DEF Rows, SameBuilds

LEMMA SearchStays ==
    ASSUME Looking, UNCHANGED <<search, readable, grants>>
    PROVE  Looking' /\ AnswersHonestly
  BY DEF Looking, Permitted, AnswersHonestly

LEMMA StartMakes == ASSUME IInv, Vectors, NEW i \in Index, Start(i) PROVE Vectors'
<1>1. /\ index' = [index EXCEPT ![i] = [state |-> "building", release |-> newest, space |-> model]]
      /\ vectors' = [vectors EXCEPT ![i] = [a \in Asset |->
                        IF Reusable(a) = {} THEN NoVector ELSE vectors[CHOOSE j \in Reusable(a) : TRUE][a]]]
  BY DEF Start
<1> DEFINE new(a) == IF Reusable(a) = {} THEN NoVector ELSE vectors[CHOOSE j \in Reusable(a) : TRUE][a]
<1>2. ASSUME NEW a \in Asset
      PROVE  new(a) \in [space : Nat, text : Nat] /\ new(a) \in {NoVector, Vector(model, Text(newest, a))}
  <2>1. CASE Reusable(a) = {}
    BY <2>1 DEF NoVector, Vector
  <2>2. CASE Reusable(a) # {}
    <3>1. PICK j \in Reusable(a) : j = CHOOSE k \in Reusable(a) : TRUE
      BY <2>2
    <3>2. /\ j \in Index /\ index[j].state \in {"active", "retired"} /\ index[j].space = model
          /\ Text(index[j].release, a) = Text(newest, a)
      BY <3>1 DEF Reusable
    <3>3. vectors[j][a] = Made(j, a) /\ vectors[j][a] \in [space : Nat, text : Nat]
      BY <3>2 DEF Vectors
    <3>4. new(a) = vectors[j][a]
      BY <2>2, <3>1
    <3> QED BY <3>2, <3>3, <3>4 DEF Made
  <2> QED BY <2>1, <2>2
<1> HIDE DEF new
<1>3. vectors' = [vectors EXCEPT ![i] = [a \in Asset |-> new(a)]]
  BY <1>1 DEF new
<1>4. vectors' \in [Index -> [Asset -> [space : Nat, text : Nat]]]
  BY <1>2, <1>3 DEF Vectors
<1>5. /\ index'[i].release = newest /\ index'[i].space = model /\ index'[i].state = "building"
      /\ \A j \in Index \ {i} : index'[j] = index[j] /\ vectors'[j] = vectors[j]
      /\ \A a \in Asset : vectors'[i][a] = new(a)
  BY <1>1, <1>3 DEF IInv, Rows, Vectors
<1>6. ASSUME NEW j \in Index, NEW a \in Asset
      PROVE  /\ vectors'[j][a] \in {NoVector, Made(j, a)'}
             /\ index'[j].state \in {"active", "retired"} => vectors'[j][a] # NoVector
  <2>1. CASE j = i
    BY <1>2, <1>5, <2>1 DEF Made
  <2>2. CASE j # i
    BY <1>5, <2>2 DEF Made, Vectors
  <2> QED BY <2>1, <2>2
<1> QED BY <1>4, <1>6 DEF Vectors

LEMMA CheckpointMakes == ASSUME IInv, Vectors, NEW h \in Handler, Checkpoint(h) PROVE Vectors'
<1>1. PICK i \in Index : i = at[h].index
  BY DEF Checkpoint, IInv, Honest
<1> DEFINE B == at[h].batch \intersect Missing(i)
<1>2. index' = index /\ vectors' = [vectors EXCEPT ![i] = [a \in Asset |-> IF a \in B THEN Made(i, a) ELSE vectors[i][a]]]
  BY <1>1 DEF Checkpoint, Made
<1> HIDE DEF B
<1>3. \A a \in Asset : Made(i, a) \in [space : Nat, text : Nat]
  BY DEF IInv, Rows, Made, Vector, Text
<1>4. vectors' \in [Index -> [Asset -> [space : Nat, text : Nat]]]
  BY <1>2, <1>3 DEF Vectors
<1>5. index[i].state = "building"
  BY <1>1 DEF Checkpoint, MayWrite, IsBuilding
<1>6. ASSUME NEW j \in Index, NEW a \in Asset
      PROVE  /\ vectors'[j][a] \in {NoVector, Made(j, a)'}
             /\ index'[j].state \in {"active", "retired"} => vectors'[j][a] # NoVector
  <2>1. Made(j, a)' = Made(j, a)
    BY <1>2 DEF Made
  <2>2. CASE j = i
    BY <1>2, <1>5, <2>1, <2>2 DEF Vectors
  <2>3. CASE j # i
    BY <1>2, <2>1, <2>3 DEF Vectors
  <2> QED BY <2>2, <2>3
<1> QED BY <1>4, <1>6 DEF Vectors

LEMMA ActivateMakes == ASSUME IInv, Vectors, NEW h \in Handler, Activate(h) PROVE Vectors'
<1>1. PICK i \in Index : i = at[h].index
  BY DEF Activate, IInv, Honest
<1>2. /\ Missing(i) = {} /\ vectors' = vectors
      /\ index' = [j \in Index |-> CASE j = i -> [index[j] EXCEPT !.state = "active"]
                                     [] index[j].state = "active" -> [index[j] EXCEPT !.state = "retired"]
                                     [] OTHER -> index[j]]
  BY <1>1 DEF Activate
<1>3. \A j \in Index : /\ index'[j].release = index[j].release /\ index'[j].space = index[j].space
                       /\ j # i /\ index'[j].state \in {"active", "retired"} => index[j].state \in {"active", "retired"}
  BY <1>2 DEF IInv, Rows
<1>4. ASSUME NEW a \in Asset PROVE vectors[i][a] # NoVector
  BY <1>2 DEF Missing
<1> QED BY <1>2, <1>3, <1>4 DEF Vectors, Made

LEMMA FailBuilds == ASSUME IInv, NEW h \in Handler, FailEmbedding(h) PROVE SameBuilds
<1>1. PICK i \in Index : i = at[h].index
  BY DEF FailEmbedding, IInv, Honest
<1>2. index' = [index EXCEPT ![i].state = "failed"] \/ index' = index
  BY <1>1 DEF FailEmbedding
<1> QED BY <1>2 DEF IInv, Rows, SameBuilds

\* A query by vectors finds them all, of the newest release.
LEMMA QueriesHonestly ==
    ASSUME IInv, SInv, Query
    PROVE  Looking' /\ AnswersHonestly
<1>1. search \in Searches /\ search.step = "embedded"
  BY DEF SInv, Looking, Query
<1>2. CASE Answers(search.index) /\ search' = [search EXCEPT !.step = "vector", !.left = Asset \ Missing(search.index)]
  <2>1. search.index \in Index /\ index[search.index].state = "active" /\ index[search.index].release = newest
    BY <1>2 DEF Answers, Active
  <2>2. \A a \in Asset : vectors[search.index][a] # NoVector
                         /\ vectors[search.index][a] = Vector(index[search.index].space, Text(newest, a))
    BY <2>1 DEF SInv, Vectors, Made
  <2>3. Missing(search.index) = {}
    BY <2>2 DEF Missing
  <2>4. /\ search'.step = "vector" /\ search'.left = Asset /\ search' \in Searches
        /\ search'.items = search.items /\ search'.asset = search.asset /\ search'.allowed = search.allowed
        /\ search'.grants = search.grants
    BY <1>1, <1>2, <2>3 DEF Searches
  <2>5. Looking'
    BY <2>4 DEF SInv, Looking, Permitted, Query, outside
  <2> QED BY <2>2, <2>4, <2>5 DEF AnswersHonestly
<1>3. CASE \E found \in SUBSET Asset : search' = [search EXCEPT !.step = "lexical", !.index = 0, !.left = found]
  <2>1. PICK found \in SUBSET Asset : search' = [search EXCEPT !.step = "lexical", !.index = 0, !.left = found]
    BY <1>3
  <2>2. /\ search'.step = "lexical" /\ search' \in Searches
        /\ search'.items = search.items /\ search'.asset = search.asset /\ search'.allowed = search.allowed
        /\ search'.grants = search.grants
    BY <1>1, <2>1 DEF Searches
  <2>3. Looking'
    BY <2>2 DEF SInv, Looking, Permitted, Query, outside
  <2> QED BY <2>2, <2>3 DEF AnswersHonestly
<1> QED BY <1>2, <1>3 DEF Query

\* A search that ends, or has not begun.
LEMMA ForgetsSearch ==
    ASSUME SInv, search' = NoSearch, UNCHANGED <<grants, readable>>
    PROVE  Looking' /\ AnswersHonestly
<1>1. /\ search' \in Searches /\ search'.step = "idle" /\ search'.grants = 0 /\ search'.items = {} /\ search'.asset = 0
  BY DEF NoSearch, Searches
<1> QED BY <1>1 DEF SInv, Looking, Permitted, AnswersHonestly

LEMMA SearchesHonestly ==
    ASSUME IInv, SInv, Search
    PROVE  Looking' /\ AnswersHonestly
<1>1. /\ search \in Searches /\ search.grants <= grants /\ (search.grants = grants => Permitted)
      /\ grants \in Nat /\ readable \in SUBSET Asset
  BY DEF SInv, Looking
<1>2. UNCHANGED <<index, vectors, run, job, at, outside>>
  BY DEF Search, BeginSearch, ReadStatus, Query, CheckAsset, KeepAsset, Serve, Leave
<1>3. UNCHANGED <<grants, readable>>
  BY <1>2 DEF outside
<1>4. CASE BeginSearch
  <2>1. /\ search' \in Searches /\ search'.step = "asked" /\ search'.grants = grants /\ search'.items = {} /\ search'.asset = 0
    BY <1>1, <1>4 DEF BeginSearch, NoSearch, Searches
  <2> QED BY <1>1, <1>3, <2>1 DEF Looking, Permitted, AnswersHonestly
<1>5. CASE ReadStatus
  <2>1. PICK i \in Index \union {0} : search' = [search EXCEPT !.step = "embedded", !.index = i]
    BY <1>5 DEF ReadStatus, Active
  <2>2. /\ search' \in Searches /\ search'.step = "embedded" /\ search'.grants = search.grants
        /\ search'.items = search.items /\ search'.asset = search.asset /\ search'.allowed = search.allowed
    BY <1>1, <2>1 DEF Searches
  <2> QED BY <1>1, <1>3, <2>2 DEF Looking, Permitted, AnswersHonestly
<1>6. CASE CheckAsset
  <2>1. PICK a \in search.left : search' = [search EXCEPT !.asset = a, !.allowed = a \in readable, !.left = @ \ {a}]
    BY <1>6 DEF CheckAsset
  <2>2. /\ search' \in Searches /\ search'.step = search.step /\ search'.grants = search.grants
        /\ search'.items = search.items /\ search'.asset = a /\ (search'.allowed => a \in readable)
    <3>1. PICK may \in BOOLEAN, rest \in SUBSET Asset : may = (a \in readable) /\ rest = search.left \ {a}
      <4>1. PICK may \in BOOLEAN : may = (a \in readable)
        BY (a \in readable) \in BOOLEAN, Zenon
      <4>2. search.left \ {a} \in SUBSET Asset
        BY <1>1 DEF Searches
      <4> QED BY <4>1, <4>2
    <3>2. a \in Asset /\ search' = [search EXCEPT !.asset = a, !.allowed = may, !.left = rest]
      BY <1>1, <2>1, <3>1 DEF Searches
    <3>3. search' \in Searches /\ search'.step = search.step /\ search'.grants = search.grants
          /\ search'.items = search.items /\ search'.asset = a /\ search'.allowed = may
      BY <1>1, <3>2 DEF Searches
    <3> QED BY <3>1, <3>3
  <2>3. search.step \in {"vector", "lexical"}
    BY <1>6 DEF CheckAsset
  <2> QED BY <1>1, <1>3, <2>2, <2>3 DEF Looking, Permitted, AnswersHonestly
<1>7. CASE KeepAsset
  <2>1. CASE search' = NoSearch
    BY <1>3, <2>1, ForgetsSearch
  <2>2. CASE search' = [search EXCEPT !.asset = 0]
    <3>1. /\ search' \in Searches /\ search'.step = search.step /\ search'.grants = search.grants
          /\ search'.items = search.items /\ search'.asset = 0
      BY <1>1, <2>2 DEF Searches
    <3> QED BY <1>1, <1>3, <3>1 DEF Looking, Permitted, AnswersHonestly
  <2>3. CASE /\ search.allowed /\ search.grants = grants
             /\ search' = [search EXCEPT !.asset = 0, !.allowed = FALSE, !.items = @ \union {search.asset}]
    <3>1. search.asset \in Asset /\ search.asset \in readable /\ search.items \subseteq readable
      BY <1>1, <1>7, <2>3 DEF KeepAsset, Searches, Permitted
    <3>2. /\ search' \in Searches /\ search'.step = search.step /\ search'.grants = search.grants
          /\ search'.items = search.items \union {search.asset} /\ search'.asset = 0
      BY <1>1, <2>3, <3>1 DEF Searches
    <3> QED BY <1>1, <1>3, <3>1, <3>2 DEF Looking, Permitted, AnswersHonestly
  <2> QED BY <1>7, <2>1, <2>2, <2>3 DEF KeepAsset
<1>8. CASE Serve
  <2>1. CASE search.grants = grants
    <3>1. /\ search' \in Searches /\ search'.step = "served" /\ search'.grants = search.grants
          /\ search'.items = search.items /\ search'.asset = search.asset /\ search'.allowed = search.allowed
      BY <1>1, <1>8, <2>1 DEF Serve, Searches
    <3> QED BY <1>1, <1>3, <2>1, <3>1 DEF Looking, Permitted, AnswersHonestly
  <2>2. CASE search.grants # grants
    BY <1>3, <1>8, <2>2, ForgetsSearch DEF Serve
  <2> QED BY <2>1, <2>2
<1>9. CASE Leave
  BY <1>3, <1>9, ForgetsSearch DEF Leave
<1> QED BY <1>4, <1>5, <1>6, <1>7, <1>8, <1>9, QueriesHonestly DEF Search

LEMMA SInvInit == Init => SInv
<1> SUFFICES ASSUME Init PROVE SInv
  OBVIOUS
<1>1. Vectors
  BY DEF Init, Vectors, NoVector, Vector
<1>2. Looking
  BY DEF Init, Looking, Permitted, NoSearch, Searches
<1> QED BY <1>1, <1>2 DEF SInv

LEMMA SInvNext == IInv /\ SInv /\ [Next]_vars => SInv' /\ AnswersHonestly
<1> SUFFICES ASSUME IInv, SInv, [Next]_vars PROVE SInv' /\ AnswersHonestly
  OBVIOUS
<1>0. Vectors /\ Looking /\ Rows
  BY DEF SInv, IInv
<1>1. ASSUME SameBuilds, UNCHANGED vectors PROVE Vectors'
  BY <1>0, <1>1, VectorsStay
<1>2. ASSUME UNCHANGED index PROVE SameBuilds
  BY <1>2 DEF SameBuilds
<1>3. ASSUME UNCHANGED <<search, readable, grants>> PROVE Looking' /\ AnswersHonestly
  BY <1>0, <1>3, SearchStays
<1>4. CASE Publish \/ ChangeModel
  BY <1>1, <1>2, <1>3, <1>4 DEF Publish, ChangeModel, SInv
<1>5. CASE ChangeGrants
  <2>1. grants' = grants + 1 /\ readable' \in SUBSET Asset /\ UNCHANGED <<search, index, vectors>>
    BY <1>5 DEF ChangeGrants
  <2>2. Looking' /\ AnswersHonestly
    BY <1>0, <2>1 DEF Looking, Searches, AnswersHonestly
  <2> QED BY <1>1, <1>2, <2>1, <2>2 DEF SInv
<1>6. ASSUME NEW i \in Index, Start(i) PROVE SInv' /\ AnswersHonestly
  BY <1>0, <1>3, <1>6, StartMakes DEF Start, outside, SInv
<1>7. ASSUME NEW i \in Index, Cancel(i) PROVE SInv' /\ AnswersHonestly
  <2>1. SameBuilds
    BY <1>0, <1>7 DEF Cancel, Rows, SameBuilds
  <2> QED BY <1>1, <1>3, <1>7, <2>1 DEF Cancel, outside, SInv
<1>8. ASSUME NEW i \in Index, LoseLease(i) PROVE SInv' /\ AnswersHonestly
  <2>1. SameBuilds
    BY <1>0, <1>8, ProjectedBuilds DEF LoseLease, EndsAttempt
  <2> QED BY <1>1, <1>3, <1>8, <2>1 DEF LoseLease, outside, SInv
<1>9. ASSUME NEW h \in Handler, NEW i \in Index, Lease(h, i) PROVE SInv' /\ AnswersHonestly
  <2>1. SameBuilds
    BY <1>0, <1>9, ProjectedBuilds DEF Lease
  <2> QED BY <1>1, <1>3, <1>9, <2>1 DEF Lease, outside, SInv
<1>10. ASSUME NEW h \in Handler, Proceed(h) \/ Crash(h) PROVE SInv' /\ AnswersHonestly
  <2>1. UNCHANGED <<search, readable, grants>>
    BY <1>10 DEF Proceed, NextBatch, Checkpoint, Activate, FailEmbedding, StepFails, EndJob, LeaseIsLost, Crash, outside
  <2>2. Vectors'
    <3>1. CASE Checkpoint(h)
      BY <1>0, <3>1, CheckpointMakes
    <3>2. CASE Activate(h)
      BY <1>0, <3>2, ActivateMakes
    <3>3. CASE FailEmbedding(h)
      BY <1>1, <3>3, FailBuilds DEF FailEmbedding
    <3>4. CASE EndJob(h)
      <4>1. at[h].index \in Index
        BY <3>4 DEF EndJob, IInv, Honest
      <4>2. SameBuilds
        BY <1>0, <3>4, <4>1, ProjectedBuilds DEF EndJob, EndsAttempt
      <4> QED BY <1>1, <3>4, <4>2 DEF EndJob
    <3>5. CASE NextBatch(h) \/ StepFails(h) \/ LeaseIsLost(h) \/ Crash(h)
      BY <1>1, <1>2, <3>5 DEF NextBatch, StepFails, LeaseIsLost, Crash
    <3> QED BY <1>10, <3>1, <3>2, <3>3, <3>4, <3>5 DEF Proceed
  <2> QED BY <1>3, <2>1, <2>2 DEF SInv
<1>11. CASE Search
  <2>1. UNCHANGED <<index, vectors>>
    BY <1>11 DEF Search, BeginSearch, ReadStatus, Query, CheckAsset, KeepAsset, Serve, Leave
  <2> QED BY <1>1, <1>2, <1>11, <2>1, SearchesHonestly DEF SInv
<1>12. CASE UNCHANGED vars
  BY <1>1, <1>2, <1>3, <1>12 DEF vars, outside, SInv
<1> QED BY <1>4, <1>5, <1>6, <1>7, <1>8, <1>9, <1>10, <1>11, <1>12 DEF Next

\* A vector search compares the question with what its model made of the
\* newest release, all of it, whatever is published, activated or configured
\* while it runs; and what is served can be read when it is served
\* (embedding.go, application/embedding/service.go).
THEOREM SearchesAreHonest == Spec => SearchIsHonest
<1>1. IInv /\ SInv /\ [Next]_vars =>
        [ /\ search.step = "embedded" /\ search'.step = "vector" =>
              \A a \in Asset : /\ a \in search'.left
                               /\ vectors[search.index][a] = Vector(index[search.index].space, Text(newest, a))
          /\ search'.step = "served" /\ search.step # "served" => search.items \subseteq readable ]_vars
  BY SInvNext DEF AnswersHonestly
<1> QED BY <1>1, InitHolds, StepKeeps, SInvInit, SInvNext, PTL DEF Spec, SearchIsHonest

=============================================================================
