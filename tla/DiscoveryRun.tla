---------------------------- MODULE DiscoveryRun ----------------------------
(***************************************************************************)
(* The discovery runs of one source: requests that queue them              *)
(* (source_discovery.go), the handler of their jobs (control.go), and what *)
(* a run leaves as the source's current state (discovery.go,               *)
(* source_snapshot.go): the projection, the coverage head and the          *)
(* effective snapshot of each configuration.  A run adds what it saw to    *)
(* the projection and removes nothing from it: what it did not see, be it  *)
(* out of its reach or gone, goes on showing what an older run published.  *)
(*                                                                         *)
(* Every run has a job of its own, of JobContract.  Transactions of a      *)
(* workspace exclude each other, so that each is a step; between them the  *)
(* handler holds nothing, and its writes are fenced by its job's lease.    *)
(* A request with a key that was used before returns the run it started    *)
(* and changes nothing, so that each request here has a new key.           *)
(***************************************************************************)
EXTENDS Integers, FiniteSets

CONSTANTS
    Run,          \* the runs that may be requested
    MaxAttempts,  \* max_attempts of a discovery job
    Object,       \* the datasets and fields the source may have
    Contents,     \* what it may contain: the revision of each, or Absent
    MaxVersion,   \* bound: versions of the source's configuration
    MaxDrift,     \* bound: changes of what the source contains
    MaxHits       \* bound: attempts hit by a crash, a stall or a database error

None == "none"
Absent == 0

Attempts == 1..MaxAttempts
Handlers == Run \X Attempts

ASSUME DiscoveryAssumption ==
    /\ None \notin Run
    /\ MaxAttempts \in Nat \ {0}
    /\ Contents \subseteq [Object -> Nat]
    /\ MaxVersion \in Nat \ {0}
    /\ MaxDrift \in Nat
    /\ MaxHits \in Nat

VARIABLES
    phase, tries,  \* the job of each run
    source,        \* source_connections: whether it is active, and its version
    clock,         \* of the servers that take requests
    stamp,         \* created_at of each run; 0 before its request reads the clock
    run,           \* discovery_runs: status, pinned version, snapshot
    exec,          \* the handler of each attempt
    published,     \* the current revision of each dataset and field
    head,          \* source_coverage_heads: latest attempt, verified snapshot
    effective,     \* source_effective_snapshots, per version
    contents,      \* what the source contains now
    drift,         \* how often that has changed so far
    hit            \* the attempts hit by a fault

jobVars == <<phase, tries>>
requestVars == <<clock, stamp>>
currentVars == <<published, head, effective>>
worldVars == <<contents, drift>>
vars == <<phase, tries, source, clock, stamp, run, exec, published, head, effective,
          contents, drift, hit>>

Job == INSTANCE JobContract WITH Job <- Run

\* A snapshot is identified by what it shows, so that a run which sees what an
\* earlier one saw has the same.  A source may return to a former content.
Qualities == {"complete", "partial", "failed"}
Sights == [Object -> Nat]
Nothing == [o \in Object |-> Absent]
Snapshots == [version: 1..MaxVersion, saw: Sights, quality: Qualities]
NoSnapshot == [version |-> 0, saw |-> Nothing, quality |-> "failed"]
Recorded == Snapshots \union {NoSnapshot}

Active == {"queued", "running"}
Successful == {"succeeded", "degraded"}
Ended == Successful \union {"failed"}
Exists(r) == run[r].status \in Active \union Ended

RunRows == [status: {"absent"} \union Active \union Ended, version: 1..MaxVersion,
            snapshot: Recorded]
Heads == [run: Run \union {None}, status: Qualities \union {None}, verified: Recorded]

\* Where a handler is, and what it holds in its variables.
Places == {"none", "load", "begin", "collect", "persist", "fail",
           "ok", "error", "permanent", "gone"}
HandlerStates == [pc: Places, saw: Sights, quality: Qualities, permanent: BOOLEAN]
NotStarted == [pc |-> "none", saw |-> Nothing, quality |-> "complete", permanent |-> FALSE]
Gone == [NotStarted EXCEPT !.pc = "gone"]

Init ==
    /\ Job!ContractInit
    /\ source = [active |-> TRUE, version |-> 1]
    /\ clock = 0
    /\ stamp = [r \in Run |-> 0]
    /\ run = [r \in Run |-> [status |-> "absent", version |-> 1, snapshot |-> NoSnapshot]]
    /\ exec = [h \in Handlers |-> NotStarted]
    /\ published = Nothing
    /\ head = [run |-> None, status |-> None, verified |-> NoSnapshot]
    /\ effective = [v \in 1..MaxVersion |-> NoSnapshot]
    /\ contents \in Contents
    /\ drift = 0
    /\ hit = {}

-----------------------------------------------------------------------------
(* Requests, and the source.                                               *)

\* StartRun reads the clock before it begins its transaction.
RequestRun(r) ==
    /\ stamp[r] = 0
    /\ clock' = clock + 1
    /\ stamp' = [stamp EXCEPT ![r] = clock']
    /\ UNCHANGED <<jobVars, source, run, exec, currentVars, worldVars, hit>>

\* createQueuedDiscoveryRunTx: refused while the source has an active run.
Enqueue(r) ==
    /\ stamp[r] > 0
    /\ ~Exists(r)
    /\ source.active
    /\ \A q \in Run : run[q].status \notin Active
    /\ run' = [run EXCEPT ![r].status = "queued", ![r].version = source.version]
    /\ Job!Submit(r)
    /\ UNCHANGED <<source, requestVars, exec, currentVars, worldVars, hit>>

\* UpdateDiscoverySource, which may also pause or delete the source, and
\* RotateDiscoveryCredential.
UpdateSource ==
    /\ source.version < MaxVersion
    /\ \E active \in BOOLEAN : source' = [active |-> active, version |-> source.version + 1]
    /\ UNCHANGED <<jobVars, requestVars, run, exec, currentVars, worldVars, hit>>

\* Somebody changes what discovery will find in the source.
Drift ==
    /\ drift < MaxDrift
    /\ drift' = drift + 1
    /\ contents' \in Contents \ {contents}
    /\ UNCHANGED <<jobVars, source, requestVars, run, exec, currentVars, hit>>

-----------------------------------------------------------------------------
(* The attempts of a job.                                                  *)

Running(h) == exec[h].pc \notin {"none", "gone"}

\* The lease that lockDiscoveryJobLease looks for: only the process of the
\* latest attempt holds it (JobQueue).
HoldsLease(h) == phase[h[1]] = "active" /\ tries[h[1]] = h[2]

Fault(h) ==
    /\ hit' = hit \union {h}
    /\ Cardinality(hit') <= MaxHits

StartAttempt(r) ==
    /\ Job!Attempt(r)
    /\ exec' = [exec EXCEPT ![<<r, tries'[r]>>] = [NotStarted EXCEPT !.pc = "load"]]
    /\ UNCHANGED <<source, requestVars, run, currentVars, worldVars, hit>>

\* The worker records what the handler of the lease it holds returned.
Return(h) ==
    /\ exec[h].pc \in {"ok", "error", "permanent"}
    /\ \/ ~HoldsLease(h) /\ UNCHANGED jobVars
       \/ HoldsLease(h) /\ exec[h].pc = "ok" /\ Job!Succeed(h[1])
       \/ HoldsLease(h) /\ exec[h].pc = "error" /\ Job!LoseAttempts({h[1]})
       \/ HoldsLease(h) /\ exec[h].pc = "permanent" /\ Job!FailForGood(h[1])
    /\ exec' = [exec EXCEPT ![h] = Gone]
    /\ UNCHANGED <<source, requestVars, run, currentVars, worldVars, hit>>

Crash(h) ==
    /\ Running(h)
    /\ HoldsLease(h)
    /\ Fault(h)
    /\ exec' = [exec EXCEPT ![h] = Gone]
    /\ UNCHANGED <<jobVars, source, requestVars, run, currentVars, worldVars>>

\* ReapExpiredJobs finds the lease of a worker that is gone ...
ReapDead(h) ==
    /\ HoldsLease(h)
    /\ ~Running(h)
    /\ Job!LoseAttempts({h[1]})
    /\ UNCHANGED <<source, requestVars, run, exec, currentVars, worldVars, hit>>

\* ... or of one that stalled, and whose handler goes on ...
ReapStalled(h) ==
    /\ HoldsLease(h)
    /\ Running(h)
    /\ Fault(h)
    /\ Job!LoseAttempts({h[1]})
    /\ UNCHANGED <<source, requestVars, run, exec, currentVars, worldVars>>

\* ... until its next heartbeat.
CancelStalled(h) ==
    /\ Running(h)
    /\ ~HoldsLease(h)
    /\ exec' = [exec EXCEPT ![h] = Gone]
    /\ UNCHANGED <<jobVars, source, requestVars, run, currentVars, worldVars, hit>>

-----------------------------------------------------------------------------
(* JobHandler.                                                             *)

To(h, pc) == exec' = [exec EXCEPT ![h].pc = pc]
ToFailure(h, permanent) ==
    exec' = [exec EXCEPT ![h] = [NotStarted EXCEPT !.pc = "fail", !.permanent = permanent]]

\* recordSourceSnapshotAttempt and advanceSourceSnapshotHeads: the run moves
\* the head unless a newer one did, and it keeps what was last verified.
MovesHead(r) == head.run = None \/ stamp[r] >= stamp[head.run]
Verified(snapshot) == IF snapshot = NoSnapshot THEN head.verified ELSE snapshot

HeadAt(r, status, snapshot) ==
    IF MovesHead(r)
    THEN [run |-> r, status |-> status, verified |-> Verified(snapshot)]
    ELSE head

LoadExecution(h) ==
    /\ exec[h].pc = "load"
    /\ To(h, IF run[h[1]].status \in Successful THEN "ok" ELSE "begin")
    /\ UNCHANGED <<jobVars, source, requestVars, run, currentVars, worldVars, hit>>

\* BeginDiscoveryRun; an error of its own is returned as it is.
Startable == Active
BeginRun(h) ==
    LET r == h[1] IN
    /\ exec[h].pc = "begin"
    /\ IF HoldsLease(h) /\ run[r].status \in Startable
       THEN /\ run' = [run EXCEPT ![r].status = "running"]
            /\ head' = HeadAt(r, "partial", NoSnapshot)
            /\ To(h, "collect")
       ELSE /\ To(h, "error")
            /\ UNCHANGED <<run, head>>
    /\ UNCHANGED <<jobVars, source, requestVars, published, effective, worldVars, hit>>

\* The collector reads the source, under the configuration the run has pinned:
\* all of it, a part, or nothing.
Within(S) == [o \in Object |-> IF o \in S THEN contents[o] ELSE Absent]
Collect(h) ==
    /\ exec[h].pc = "collect"
    /\ \E quality \in Qualities, S \in SUBSET Object :
        /\ quality = "complete" => S = Object
        /\ quality = "failed" => S = {}
        /\ exec' = [exec EXCEPT ![h].pc = "persist", ![h].saw = Within(S), ![h].quality = quality]
    /\ UNCHANGED <<jobVars, source, requestVars, run, currentVars, worldVars, hit>>

\* The source is out of reach, or will never do; a panic is like the former.
CollectError(h) ==
    /\ exec[h].pc = "collect"
    /\ \E permanent \in BOOLEAN : ToFailure(h, permanent)
    /\ UNCHANGED <<jobVars, source, requestVars, run, currentVars, worldVars, hit>>

\* discoveryRunState.
StatusOf(quality) ==
    CASE quality = "complete" -> "succeeded"
      [] quality = "partial" -> "degraded"
      [] quality = "failed" -> "failed"

\* canPublishSourceProjection.
BugPublishesAnyway(r) == TRUE
IsNewest(r) == \A q \in Run : Exists(q) => stamp[q] <= stamp[r]
MayPublish(r) == IsNewest(r) /\ run[r].version = source.version

\* persistDataset and persistField, for each object of the snapshot; nothing
\* clears one that is not in it.
Shown(saw) == [o \in Object |-> IF saw[o] = Absent THEN published[o] ELSE saw[o]]

\* What persistDiscoverySnapshot writes.  Only a complete snapshot is verified.
Persisted(r, snapshot) ==
    LET verified == IF snapshot.quality = "complete" THEN snapshot ELSE NoSnapshot IN
    /\ run' = [run EXCEPT ![r].status = StatusOf(snapshot.quality), ![r].snapshot = snapshot]
    /\ published' = IF MayPublish(r) THEN Shown(snapshot.saw) ELSE published
    /\ head' = HeadAt(r, snapshot.quality, verified)
    /\ effective' = IF verified # NoSnapshot /\ MovesHead(r)
                    THEN [effective EXCEPT ![run[r].version] = snapshot] ELSE effective

\* PersistDiscoveryRunSnapshot.  The commit may go through and its answer be
\* lost.
MayPersist(h) == HoldsLease(h) /\ run[h[1]].status = "running"
PersistSnapshot(h) ==
    /\ exec[h].pc = "persist"
    /\ IF MayPersist(h)
       THEN /\ Persisted(h[1], [version |-> run[h[1]].version, saw |-> exec[h].saw,
                                quality |-> exec[h].quality])
            /\ \/ /\ exec' = [exec EXCEPT ![h] = [NotStarted EXCEPT !.pc = "ok"]]
                  /\ UNCHANGED hit
               \/ Fault(h) /\ ToFailure(h, FALSE)
       ELSE ToFailure(h, FALSE) /\ UNCHANGED <<run, currentVars, hit>>
    /\ UNCHANGED <<jobVars, source, requestVars, worldVars>>

\* RetryOrFailDiscoveryRun, whose own errors nobody looks at.
BugOneAttemptLate(h) == exec[h].permanent \/ h[2] > MaxAttempts
IsTerminal(h) == exec[h].permanent \/ h[2] = MaxAttempts
RetryOrFail(h) ==
    LET r == h[1] IN
    /\ exec[h].pc = "fail"
    /\ IF HoldsLease(h) /\ run[r].status \in Active
       THEN /\ run' = [run EXCEPT ![r].status = IF IsTerminal(h) THEN "failed" ELSE "queued"]
            /\ head' = HeadAt(r, "failed", NoSnapshot)
       ELSE UNCHANGED <<run, head>>
    /\ To(h, IF exec[h].permanent THEN "permanent" ELSE "error")
    /\ UNCHANGED <<jobVars, source, requestVars, published, effective, worldVars, hit>>

\* The database fails the call that is next.
DatabaseError(h) ==
    /\ Fault(h)
    /\ \/ exec[h].pc \in {"load", "persist"} /\ ToFailure(h, FALSE)
       \/ exec[h].pc = "begin" /\ To(h, "error")
       \/ exec[h].pc = "fail" /\ To(h, IF exec[h].permanent THEN "permanent" ELSE "error")
    /\ UNCHANGED <<jobVars, source, requestVars, run, currentVars, worldVars>>

-----------------------------------------------------------------------------

HandlerStep(h) ==
    \/ LoadExecution(h) \/ BeginRun(h) \/ Collect(h) \/ CollectError(h)
    \/ PersistSnapshot(h) \/ RetryOrFail(h)

Next ==
    \/ \E r \in Run : RequestRun(r) \/ Enqueue(r) \/ StartAttempt(r)
    \/ UpdateSource \/ Drift
    \/ \E h \in Handlers :
        HandlerStep(h) \/ DatabaseError(h) \/ Return(h) \/ Crash(h)
        \/ ReapDead(h) \/ ReapStalled(h) \/ CancelStalled(h)

Spec == Init /\ [][Next]_vars

-----------------------------------------------------------------------------
(* Properties.                                                             *)

\* Types of the rows and of the handlers' places.
TypeOK ==
    /\ phase \in [Run -> Job!Phases]
    /\ tries \in [Run -> 0..MaxAttempts]
    /\ source \in [active: BOOLEAN, version: 1..MaxVersion]
    /\ clock \in Nat
    /\ stamp \in [Run -> 0..clock]
    /\ run \in [Run -> RunRows]
    /\ exec \in [Handlers -> HandlerStates]
    /\ published \in Sights
    /\ head \in Heads
    /\ effective \in [1..MaxVersion -> Recorded]
    /\ contents \in Contents
    /\ drift \in 0..MaxDrift
    /\ hit \subseteq Handlers

\* At most one run of a source is queued or running, whatever retries, lost
\* answers and stalled handlers do to runs that ended before
\* (discovery_runs_active_source_idx would fail the transaction).
OneActiveRun ==
    \A q, r \in Run : run[q].status \in Active /\ run[r].status \in Active => q = r

\* What the newest run saw, the source shows as it saw it, if the run succeeded
\* and the configuration is still the one it saw it under: no run that was
\* asked for earlier or pinned an older configuration has overwritten it, and
\* no handler of a lost attempt.  What it did not see is shown as an older run
\* saw it, or not at all (persistDiscoverySnapshot).
ShownBefore(o, r) ==
    \/ published[o] = Absent
    \/ \E q \in Run : /\ run[q].status \in Successful /\ stamp[q] < stamp[r]
                      /\ run[q].snapshot.saw[o] = published[o]

NewestRunIsCurrent ==
    \A r \in Run :
        /\ run[r].status \in Successful
        /\ IsNewest(r)
        /\ run[r].version = source.version
        => /\ \A o \in Object : IF run[r].snapshot.saw[o] # Absent
                                THEN published[o] = run[r].snapshot.saw[o]
                                ELSE ShownBefore(o, r)
           /\ head.run = r
           /\ run[r].snapshot.quality = "complete" =>
                /\ head.verified = run[r].snapshot
                /\ effective[source.version] = run[r].snapshot

\* Failure never advances what is current, nor takes it back: only the holder
\* of a job's lease changes it, ending its run well ("terminal failure never
\* advances the imported current projection").
FailureKeepsCurrent ==
    [][<<published, head.verified, effective>>' # <<published, head.verified, effective>> =>
        \E h \in Handlers :
            /\ exec[h].pc = "persist"
            /\ phase[h[1]] = "active" /\ tries[h[1]] = h[2]
            /\ run[h[1]].status = "running"
            /\ run'[h[1]].status \in Successful]_vars

\* A job that succeeded has ended its run, and so has one that died, unless a
\* fault hit the attempt it died with: a fault in an earlier one is made up for.
RunEndsWithItsJob ==
    \A r \in Run :
        \/ phase[r] = "succeeded"
        \/ phase[r] = "dead" /\ <<r, tries[r]>> \notin hit
        => run[r].status \in Ended

=============================================================================
