------------------------- MODULE DiscoveryRun_proofs ------------------------
(***************************************************************************)
(* Theorems about DiscoveryRun, for any runs, attempts and bounds: one     *)
(* active run, what the newest run saw is what the source shows of it,     *)
(* failure leaves what is current alone, and a run ends with its job.      *)
(***************************************************************************)
EXTENDS DiscoveryRun, TLAPS

\* created_at tells the runs apart and is in the past, no run has pinned a
\* configuration of the future, and the head is a run that exists.
Ordered ==
    /\ \A r \in Run : Exists(r) => stamp[r] > 0
    /\ \A q, r \in Run : stamp[q] = stamp[r] /\ stamp[q] > 0 => q = r
    /\ \A r \in Run : run[r].version <= source.version
    /\ head.run # None => Exists(head.run)

\* What the source shows, a run that succeeded has seen.
WasSeen(o, q) == run[q].status \in Successful /\ run[q].snapshot.saw[o] = published[o]
Origins == \A o \in Object : published[o] = Absent \/ \E q \in Run : WasSeen(o, q)

\* A collector that failed has seen nothing.
Blind == \A h \in Handlers : exec[h].quality = "failed" => exec[h].saw = Nothing

IInv == TypeOK /\ Ordered /\ Origins /\ NewestRunIsCurrent

-----------------------------------------------------------------------------
(* Types.                                                                  *)

\* The contract's steps keep the types of the job.
LEMMA JobTypes ==
    ASSUME NEW r \in Run,
           phase \in [Run -> Job!Phases], tries \in [Run -> 0..MaxAttempts],
           \/ Job!Submit(r) \/ Job!Attempt(r) \/ Job!Succeed(r) \/ Job!FailForGood(r)
           \/ Job!LoseAttempts({r}) \/ UNCHANGED jobVars
    PROVE  /\ phase' \in [Run -> Job!Phases]
           /\ tries' \in [Run -> 0..MaxAttempts]
<1>1. CASE Job!Submit(r) BY <1>1 DEF Job!Submit, Job!Phases
<1>2. CASE Job!Attempt(r) BY <1>2, DiscoveryAssumption DEF Job!Attempt, Job!Phases, DiscoveryAssumption
<1>3. CASE Job!Succeed(r) BY <1>3 DEF Job!Succeed, Job!Phases
<1>4. CASE Job!FailForGood(r) BY <1>4 DEF Job!FailForGood, Job!Phases
<1>5. CASE Job!LoseAttempts({r})
    BY <1>5 DEF Job!LoseAttempts, Job!AfterLostAttempt, Job!Phases
<1>6. CASE UNCHANGED jobVars BY <1>6 DEF jobVars
<1> QED BY <1>1, <1>2, <1>3, <1>4, <1>5, <1>6

LEMMA NothingSeen == Nothing \in Sights /\ NoSnapshot \in Recorded
  BY DEF Nothing, Sights, Absent, NoSnapshot, Recorded

\* What the steps of the handler make of its state is of the type.
LEMMA HandlerTypes ==
    ASSUME exec \in [Handlers -> HandlerStates], NEW h \in Handlers
    PROVE  /\ \A pc \in Places : To(h, pc) => exec' \in [Handlers -> HandlerStates]
           /\ \A permanent \in BOOLEAN :
                ToFailure(h, permanent) => exec' \in [Handlers -> HandlerStates]
           /\ exec' = [exec EXCEPT ![h] = Gone] => exec' \in [Handlers -> HandlerStates]
           /\ exec' = [exec EXCEPT ![h] = [NotStarted EXCEPT !.pc = "ok"]]
                => exec' \in [Handlers -> HandlerStates]
<1>1. ASSUME NEW pc \in Places, To(h, pc) PROVE exec' \in [Handlers -> HandlerStates]
  BY <1>1 DEF To, HandlerStates
<1>2. ASSUME NEW permanent \in BOOLEAN, ToFailure(h, permanent)
      PROVE  exec' \in [Handlers -> HandlerStates]
  <2>1. [NotStarted EXCEPT !.pc = "fail", !.permanent = permanent] \in HandlerStates
    BY NothingSeen DEF NotStarted, HandlerStates, Places, Qualities
  <2> QED BY <1>2, <2>1 DEF ToFailure
<1>3. Gone \in HandlerStates
  BY NothingSeen DEF Gone, NotStarted, HandlerStates, Places, Qualities
<1>4. [NotStarted EXCEPT !.pc = "ok"] \in HandlerStates
  BY NothingSeen DEF NotStarted, HandlerStates, Places, Qualities
<1> QED BY <1>1, <1>2, <1>3, <1>4

\* The head a step leaves is of the type.
LEMMA HeadTypes ==
    ASSUME head \in Heads, NEW r \in Run, NEW status \in Qualities, NEW snapshot \in Recorded
    PROVE  HeadAt(r, status, snapshot) \in Heads
<1>1. Verified(snapshot) \in Recorded
  BY DEF Verified, Heads
<1> QED BY <1>1 DEF HeadAt, Heads

\* A run that changes its status keeps the type of its row.
LEMMA RunTypes ==
    ASSUME run \in [Run -> RunRows], NEW r \in Run,
           NEW status \in {"absent"} \union Active \union Ended,
           run' = [run EXCEPT ![r].status = status]
    PROVE  run' \in [Run -> RunRows]
  BY DEF RunRows

\* The rows PersistSnapshot writes are of the types.
LEMMA PersistTypes ==
    ASSUME TypeOK, NEW r \in Run, NEW snapshot \in Snapshots, Persisted(r, snapshot)
    PROVE  /\ run' \in [Run -> RunRows]
           /\ published' \in Sights
           /\ head' \in Heads
           /\ effective' \in [1..MaxVersion -> Recorded]
<1>1. snapshot.quality \in Qualities /\ snapshot \in Recorded
  BY DEF Snapshots, Recorded
<1>2. StatusOf(snapshot.quality) \in Ended
  BY <1>1 DEF StatusOf, Ended, Successful, Qualities
<1>3. run' \in [Run -> RunRows]
  <2>1. run' = [run EXCEPT ![r].status = StatusOf(snapshot.quality), ![r].snapshot = snapshot]
    BY DEF Persisted
  <2> QED BY <1>1, <1>2, <2>1 DEF TypeOK, RunRows
<1>4. published' \in Sights
  BY DEF Persisted, Shown, Snapshots, Sights, TypeOK
<1>5. head' \in Heads
  <2> DEFINE verified == IF snapshot.quality = "complete" THEN snapshot ELSE NoSnapshot
  <2>1. verified \in Recorded
    BY <1>1 DEF Recorded
  <2>2. head' = HeadAt(r, snapshot.quality, verified)
    BY DEF Persisted
  <2> QED BY <1>1, <2>1, <2>2, HeadTypes DEF TypeOK
<1>6. effective' \in [1..MaxVersion -> Recorded]
  BY <1>1 DEF Persisted, TypeOK
<1> QED BY <1>3, <1>4, <1>5, <1>6

LEMMA TypeInit == Init => TypeOK
  BY DiscoveryAssumption, NothingSeen
     DEF Init, TypeOK, Job!ContractInit, Job!Phases, NotStarted, HandlerStates, Places, Qualities,
         RunRows, Recorded, Heads

LEMMA TypeStep ==
    ASSUME TypeOK, [Next]_vars
    PROVE  TypeOK'
<1> USE DiscoveryAssumption DEF jobVars, requestVars, currentVars, worldVars
<1>1. CASE UNCHANGED vars
  BY <1>1 DEF vars, TypeOK
<1>2. ASSUME NEW r \in Run, RequestRun(r) PROVE TypeOK'
  BY <1>2 DEF RequestRun, TypeOK
<1>3. ASSUME NEW r \in Run, Enqueue(r) PROVE TypeOK'
  <2>1. phase' \in [Run -> Job!Phases] /\ tries' \in [Run -> 0..MaxAttempts]
    BY <1>3, JobTypes DEF Enqueue, TypeOK
  <2>2. run' \in [Run -> RunRows]
    BY <1>3, ZenonT(60) DEF Enqueue, Active, TypeOK, RunRows
  <2> QED BY <1>3, <2>1, <2>2 DEF Enqueue, TypeOK
<1>4. CASE UpdateSource
  BY <1>4 DEF UpdateSource, DiscoveryAssumption, TypeOK
<1>5. CASE Drift
  BY <1>5 DEF Drift, DiscoveryAssumption, TypeOK
<1>6. ASSUME NEW r \in Run, StartAttempt(r) PROVE TypeOK'
  <2>1. phase' \in [Run -> Job!Phases] /\ tries' \in [Run -> 0..MaxAttempts]
    BY <1>6, JobTypes DEF StartAttempt, TypeOK
  <2>2. [NotStarted EXCEPT !.pc = "load"] \in HandlerStates
    BY NothingSeen DEF NotStarted, HandlerStates, Places, Qualities
  <2>3. exec' \in [Handlers -> HandlerStates]
    BY <1>6, <2>2 DEF StartAttempt, TypeOK
  <2> QED BY <1>6, <2>1, <2>3 DEF StartAttempt, TypeOK
<1>7. ASSUME NEW h \in Handlers PROVE HandlerStep(h) => TypeOK'
  <2>1. h[1] \in Run
    BY DEF Handlers
  <2>2. CASE LoadExecution(h)
    <3>1. exec' \in [Handlers -> HandlerStates]
      BY <2>2, HandlerTypes DEF LoadExecution, Places, TypeOK
    <3> QED BY <2>2, <3>1 DEF LoadExecution, TypeOK
  <2>3. CASE BeginRun(h)
    <3>1. exec' \in [Handlers -> HandlerStates]
      BY <2>3, HandlerTypes DEF BeginRun, Places, TypeOK
    <3>2. run' \in [Run -> RunRows]
      BY <2>1, <2>3, RunTypes DEF BeginRun, Active, TypeOK
    <3>3. head' \in Heads
      BY <2>1, <2>3, HeadTypes DEF BeginRun, Qualities, Recorded, TypeOK
    <3> QED BY <2>3, <3>1, <3>2, <3>3 DEF BeginRun, TypeOK
  <2>4. CASE Collect(h)
    <3>1. \A S \in SUBSET Object : Within(S) \in Sights
      BY DEF Within, Sights, Absent, TypeOK
    <3>2. PICK quality \in Qualities, S \in SUBSET Object :
            exec' = [exec EXCEPT ![h].pc = "persist", ![h].saw = Within(S), ![h].quality = quality]
      BY <2>4 DEF Collect
    <3>3. [exec[h] EXCEPT !.pc = "persist", !.saw = Within(S), !.quality = quality]
            \in HandlerStates
      BY <3>1, ZenonT(60) DEF HandlerStates, Places, TypeOK
    <3>4. exec' \in [Handlers -> HandlerStates]
      BY <3>2, <3>3 DEF HandlerStates, TypeOK
    <3> QED BY <2>4, <3>4 DEF Collect, TypeOK
  <2>5. CASE CollectError(h)
    <3>1. exec' \in [Handlers -> HandlerStates]
      BY <2>5, HandlerTypes DEF CollectError, TypeOK
    <3> QED BY <2>5, <3>1 DEF CollectError, TypeOK
  <2>6. CASE PersistSnapshot(h)
    <3>1. exec' \in [Handlers -> HandlerStates]
      BY <2>6, HandlerTypes DEF PersistSnapshot, Places, TypeOK
    <3>2. hit' \subseteq Handlers
      BY <2>6 DEF PersistSnapshot, Fault, TypeOK
    <3>3. CASE MayPersist(h)
      <4>1. [version |-> run[h[1]].version, saw |-> exec[h].saw,
             quality |-> exec[h].quality] \in Snapshots
        BY <2>1 DEF Snapshots, TypeOK, RunRows, HandlerStates
      <4>2. /\ run' \in [Run -> RunRows]
            /\ published' \in Sights
            /\ head' \in Heads
            /\ effective' \in [1..MaxVersion -> Recorded]
        BY <2>1, <2>6, <3>3, <4>1, PersistTypes DEF PersistSnapshot
      <4> QED BY <2>6, <3>1, <3>2, <4>2 DEF PersistSnapshot, TypeOK
    <3>4. CASE ~MayPersist(h)
      BY <2>6, <3>1, <3>2, <3>4 DEF PersistSnapshot, TypeOK
    <3> QED BY <3>3, <3>4
  <2>7. CASE RetryOrFail(h)
    <3>1. exec' \in [Handlers -> HandlerStates]
      BY <2>7, HandlerTypes DEF RetryOrFail, Places, TypeOK
    <3>2. run' \in [Run -> RunRows]
      BY <2>1, <2>7, RunTypes DEF RetryOrFail, Active, Ended, TypeOK
    <3>3. head' \in Heads
      BY <2>1, <2>7, HeadTypes DEF RetryOrFail, Qualities, Recorded, TypeOK
    <3> QED BY <2>7, <3>1, <3>2, <3>3 DEF RetryOrFail, TypeOK
  <2> QED BY <2>2, <2>3, <2>4, <2>5, <2>6, <2>7 DEF HandlerStep
<1>8. ASSUME NEW h \in Handlers, DatabaseError(h) PROVE TypeOK'
  <2>1. exec' \in [Handlers -> HandlerStates]
    BY <1>8, HandlerTypes DEF DatabaseError, Places, TypeOK
  <2> QED BY <1>8, <2>1 DEF DatabaseError, Fault, TypeOK
<1>9. ASSUME NEW h \in Handlers, Return(h) \/ ReapDead(h) \/ ReapStalled(h) PROVE TypeOK'
  <2>1. h[1] \in Run
    BY DEF Handlers
  <2>2. phase' \in [Run -> Job!Phases] /\ tries' \in [Run -> 0..MaxAttempts]
    BY <1>9, <2>1, JobTypes DEF Return, ReapDead, ReapStalled, TypeOK
  <2>3. exec' \in [Handlers -> HandlerStates]
    BY <1>9, HandlerTypes DEF Return, ReapDead, ReapStalled, TypeOK
  <2> QED BY <1>9, <2>2, <2>3 DEF Return, ReapDead, ReapStalled, Fault, TypeOK
<1>10. ASSUME NEW h \in Handlers, Crash(h) \/ CancelStalled(h) PROVE TypeOK'
  <2>1. exec' \in [Handlers -> HandlerStates]
    BY <1>10, HandlerTypes DEF Crash, CancelStalled, TypeOK
  <2> QED BY <1>10, <2>1 DEF Crash, CancelStalled, Fault, TypeOK
<1> QED
  BY <1>1, <1>2, <1>3, <1>4, <1>5, <1>6, <1>7, <1>8, <1>9, <1>10 DEF Next

\* Every row, and every place of a handler, has its type in every state.
THEOREM Types == Spec => []TypeOK
<1>1. Init => TypeOK
  BY TypeInit
<1>2. TypeOK /\ [Next]_vars => TypeOK'
  BY TypeStep
<1> QED BY <1>1, <1>2, PTL DEF Spec

LEMMA BlindInvariance == Spec => []Blind
<1>1. Init => Blind
  BY DEF Init, Blind, NotStarted
<1>2. TypeOK /\ Blind /\ [Next]_vars => Blind'
  <2> SUFFICES ASSUME TypeOK, Blind, [Next]_vars PROVE Blind'
    OBVIOUS
  <2> USE DEF TypeOK
  <2>1. CASE UNCHANGED exec
    BY <2>1 DEF Blind
  <2>2. ASSUME NEW h \in Handlers, NEW pc, To(h, pc) PROVE Blind'
    BY <2>2 DEF To, Blind, HandlerStates
  <2>3. ASSUME NEW h \in Handlers, exec'[h].quality = "complete",
               \A g \in Handlers : g # h => exec'[g] = exec[g]
        PROVE  Blind'
    BY <2>3 DEF Blind
  <2>4. ASSUME NEW h \in Handlers, Collect(h) PROVE Blind'
    <3>1. PICK quality \in Qualities, S \in SUBSET Object :
            /\ quality = "failed" => S = {}
            /\ exec' = [exec EXCEPT ![h].pc = "persist", ![h].saw = Within(S), ![h].quality = quality]
      BY <2>4 DEF Collect
    <3>2. exec'[h].quality = quality /\ exec'[h].saw = Within(S)
      BY <3>1 DEF HandlerStates
    <3>3. quality = "failed" => Within(S) = Nothing
      BY <3>1 DEF Within, Nothing
    <3>4. \A g \in Handlers : g # h => exec'[g] = exec[g]
      BY <3>1
    <3> QED BY <3>2, <3>3, <3>4 DEF Blind
  <2>5. ASSUME NEW h \in Handlers, NEW permanent, ToFailure(h, permanent) PROVE Blind'
    BY <2>3, <2>5 DEF ToFailure, NotStarted
  <2>6. ASSUME NEW h \in Handlers,
               \/ exec' = [exec EXCEPT ![h] = Gone]
               \/ exec' = [exec EXCEPT ![h] = [NotStarted EXCEPT !.pc = "ok"]]
        PROVE  Blind'
    BY <2>3, <2>6 DEF Gone, NotStarted
  <2>7. ASSUME NEW r \in Run, StartAttempt(r) PROVE Blind'
    <3>1. <<r, tries'[r]>> \in Handlers
      BY <2>7, DiscoveryAssumption
         DEF StartAttempt, Job!Attempt, Handlers, Attempts, DiscoveryAssumption
    <3> QED BY <2>3, <2>7, <3>1 DEF StartAttempt, NotStarted
  <2> QED
    BY <2>1, <2>2, <2>4, <2>5, <2>6, <2>7
       DEF Next, vars, HandlerStep, RequestRun, Enqueue, UpdateSource, Drift, LoadExecution,
           BeginRun, CollectError, PersistSnapshot, RetryOrFail, DatabaseError, Return, Crash,
           ReapDead, ReapStalled, CancelStalled
<1> QED BY <1>1, <1>2, Types, PTL DEF Spec

-----------------------------------------------------------------------------
(* One active run.                                                         *)

\* What the requests and the handlers may do to a run's status: one that
\* ended is never active again, and a run is queued when no other is active.
LEMMA StatusStep ==
    ASSUME TypeOK, [Next]_vars
    PROVE  \A r \in Run : run'[r].status \in Active =>
             \/ run[r].status \in Active
             \/ \A p \in Run : run[p].status \notin Active /\ (p # r => run'[p].status \notin Active)
<1> SUFFICES ASSUME NEW r \in Run, run'[r].status \in Active
             PROVE  \/ run[r].status \in Active
                    \/ \A p \in Run : run[p].status \notin Active /\ (p # r => run'[p].status \notin Active)
  OBVIOUS
<1> USE DEF TypeOK
<1>1. CASE UNCHANGED run
  BY <1>1
<1>2. ASSUME NEW q \in Run, Enqueue(q)
      PROVE  run[r].status \in Active \/ \A p \in Run : /\ run[p].status \notin Active
                                                        /\ p # r => run'[p].status \notin Active
  BY <1>2 DEF Enqueue
<1>3. ASSUME NEW h \in Handlers, BeginRun(h) PROVE run[r].status \in Active
  BY <1>3 DEF BeginRun, Startable, Handlers
<1>4. ASSUME NEW h \in Handlers, RetryOrFail(h) PROVE run[r].status \in Active
  BY <1>4 DEF RetryOrFail, Handlers
<1>5. ASSUME NEW h \in Handlers, PersistSnapshot(h) PROVE run[r].status \in Active
  <2>1. CASE h[1] = r /\ MayPersist(h)
    BY <2>1 DEF MayPersist, Active
  <2>2. CASE h[1] # r \/ ~MayPersist(h)
    BY <1>5, <2>2 DEF PersistSnapshot, Persisted, Handlers
  <2> QED BY <2>1, <2>2
<1> QED
  BY <1>1, <1>2, <1>3, <1>4, <1>5
     DEF Next, vars, HandlerStep, RequestRun, UpdateSource, Drift, StartAttempt, LoadExecution,
         Collect, CollectError, DatabaseError, Return, Crash, ReapDead, ReapStalled, CancelStalled

\* A source never has two runs queued or running, however many requests,
\* retries, lost answers and stalled handlers there are.
THEOREM AtMostOneActiveRun == Spec => []OneActiveRun
<1>1. Init => OneActiveRun
  BY DEF Init, OneActiveRun, Active
<1>2. TypeOK /\ OneActiveRun /\ [Next]_vars => OneActiveRun'
  <2> SUFFICES ASSUME TypeOK, OneActiveRun, [Next]_vars, NEW q \in Run, NEW r \in Run,
                      run'[q].status \in Active, run'[r].status \in Active
               PROVE  q = r
    BY DEF OneActiveRun
  <2>1. \/ run[q].status \in Active
        \/ \A p \in Run : run[p].status \notin Active /\ (p # q => run'[p].status \notin Active)
    BY StatusStep
  <2>2. \/ run[r].status \in Active
        \/ \A p \in Run : run[p].status \notin Active /\ (p # r => run'[p].status \notin Active)
    BY StatusStep
  <2>3. CASE run[q].status \in Active /\ run[r].status \in Active
    BY <2>3 DEF OneActiveRun
  <2>4. CASE ~(run[q].status \in Active /\ run[r].status \in Active)
    BY <2>1, <2>2, <2>4
  <2> QED BY <2>3, <2>4
<1> QED BY <1>1, <1>2, Types, PTL DEF Spec

-----------------------------------------------------------------------------
(* The newest run.                                                         *)

\* A run that is older than a successful newest one neither publishes nor
\* moves the head.
LEMMA OlderRun ==
    ASSUME IInv, NEW q \in Run, NEW r \in Run, q # r, Exists(q), Exists(r),
           run[r].status \in Successful, IsNewest(r), run[r].version = source.version
    PROVE  ~IsNewest(q) /\ ~MovesHead(q)
<1>1. stamp[q] \in Nat /\ stamp[r] \in Nat
  BY DEF IInv, TypeOK
<1>2. stamp[q] < stamp[r]
  BY <1>1 DEF IInv, Ordered, IsNewest
<1>3. head.run = r
  BY DEF IInv, NewestRunIsCurrent
<1> QED BY <1>1, <1>2, <1>3, DiscoveryAssumption DEF IsNewest, MovesHead, DiscoveryAssumption

\* What was seen or shown before stays so in a step that keeps what is shown
\* and what the runs that succeeded saw.
LEMMA SightsStay ==
    ASSUME Origins, published' = published,
           \A r \in Run : run[r].status \in Successful => run'[r] = run[r] /\ stamp'[r] = stamp[r]
    PROVE  /\ Origins'
           /\ \A o \in Object, r \in Run :
                stamp'[r] = stamp[r] /\ ShownBefore(o, r) => ShownBefore(o, r)'
  BY DEF Origins, WasSeen, ShownBefore

\* A step that ends no run well and moves the head at most to its own run.
LEMMA HeadStep ==
    ASSUME IInv, TypeOK', NEW q \in Run, run[q].status \in Active, NEW status \in Active \union {"failed"},
           NEW quality \in Qualities,
           run' = [run EXCEPT ![q].status = status],
           head' = HeadAt(q, quality, NoSnapshot),
           UNCHANGED <<source, stamp, published, effective>>
    PROVE  Ordered' /\ Origins' /\ NewestRunIsCurrent'
<1>0. Exists(q)
  BY DEF Exists
<1>1. \A r \in Run : /\ Exists(r)' <=> Exists(r)
                     /\ run'[r].version = run[r].version
                     /\ run'[r].snapshot = run[r].snapshot
                     /\ r # q => run'[r] = run[r]
  BY <1>0, SMTT(30) DEF IInv, TypeOK, RunRows, Exists, Ended
<1>2. Ordered'
  <2>1. head'.run = q \/ head'.run = head.run
    BY DEF HeadAt
  <2>2. head.run # None => head.run \in Run
    BY DEF IInv, TypeOK, Heads
  <2> QED BY <1>0, <1>1, <2>1, <2>2 DEF IInv, Ordered
<1>3. ASSUME NEW r \in Run, run'[r].status \in Successful, IsNewest(r)',
             run'[r].version = source'.version
      PROVE  r # q /\ run[r].status \in Successful /\ IsNewest(r) /\ run[r].version = source.version
  <2>1. run'[q].status = status
    BY DEF IInv, TypeOK, RunRows
  <2>2. r # q
    BY <1>3, <2>1 DEF Successful, Active
  <2> QED BY <1>1, <1>3, <2>2 DEF IsNewest
<1>4. ASSUME NEW r \in Run, run'[r].status \in Successful, IsNewest(r)',
             run'[r].version = source'.version
      PROVE  head' = head
  <2>1. Exists(r)
    BY <1>3, <1>4 DEF Exists, Ended
  <2> QED BY <1>0, <1>3, <1>4, <2>1, OlderRun DEF HeadAt
<1>5. /\ Origins'
      /\ \A o \in Object, r \in Run : ShownBefore(o, r) => ShownBefore(o, r)'
  <2>1. run[q].status \notin Successful
    BY DEF Active, Successful
  <2> QED BY <1>1, <2>1, SightsStay DEF IInv
<1>6. NewestRunIsCurrent'
  <2> SUFFICES ASSUME NEW r \in Run, run'[r].status \in Successful, IsNewest(r)',
                      run'[r].version = source'.version
               PROVE  /\ \A o \in Object : IF run'[r].snapshot.saw[o] # Absent
                                            THEN published'[o] = run'[r].snapshot.saw[o]
                                            ELSE ShownBefore(o, r)'
                      /\ head'.run = r
                      /\ run'[r].snapshot.quality = "complete" =>
                           /\ head'.verified = run'[r].snapshot
                           /\ effective'[source'.version] = run'[r].snapshot
    BY DEF NewestRunIsCurrent
  <2>1. head' = head /\ run'[r].snapshot = run[r].snapshot
    BY <1>1, <1>4
  <2>2. run[r].status \in Successful /\ IsNewest(r) /\ run[r].version = source.version
    BY <1>3
  <2> QED BY <1>5, <2>1, <2>2 DEF IInv, NewestRunIsCurrent
<1> QED BY <1>2, <1>5, <1>6

\* The step that ends a run with a snapshot.
LEMMA PersistStep ==
    ASSUME IInv, TypeOK', NEW q \in Run, run[q].status = "running",
           NEW snapshot \in Snapshots, snapshot.version = run[q].version,
           snapshot.quality = "failed" => snapshot.saw = Nothing,
           Persisted(q, snapshot), UNCHANGED <<source, stamp>>
    PROVE  Ordered' /\ Origins' /\ NewestRunIsCurrent'
<1> DEFINE verified == IF snapshot.quality = "complete" THEN snapshot ELSE NoSnapshot
<1>1. StatusOf(snapshot.quality) \in Ended
  BY DEF StatusOf, Snapshots, Qualities, Ended, Successful
<1>2. \A r \in Run : /\ Exists(r)' <=> Exists(r)
                     /\ run'[r].version = run[r].version
                     /\ r # q => run'[r] = run[r]
  BY <1>1 DEF IInv, TypeOK, RunRows, Exists, Active, Persisted
<1>3. run'[q].status = StatusOf(snapshot.quality) /\ run'[q].snapshot = snapshot
  BY DEF IInv, TypeOK, RunRows, Persisted
<1>4. Exists(q)
  BY DEF Exists, Active
<1>5. Ordered'
  <2>1. head'.run = q \/ head'.run = head.run
    BY DEF Persisted, HeadAt
  <2>2. head.run # None => head.run \in Run
    BY DEF IInv, TypeOK, Heads
  <2> QED BY <1>2, <1>4, <2>1, <2>2 DEF IInv, Ordered
<1>6. \A r \in Run : IsNewest(r)' <=> IsNewest(r)
  BY <1>2 DEF IsNewest
<1>10. run[q].status \notin Successful
  BY DEF Successful
<1>11. \A o \in Object : \/ published'[o] = published[o]
                         \/ published'[o] = snapshot.saw[o] /\ snapshot.saw[o] # Absent /\ MayPublish(q)
  BY DEF Persisted, Shown
<1>12. Origins'
  <2> SUFFICES ASSUME NEW o \in Object, published'[o] # Absent
               PROVE  \E p \in Run : WasSeen(o, p)'
    BY DEF Origins
  <2>1. CASE published'[o] = published[o]
    <3>1. PICK p \in Run : WasSeen(o, p)
      BY <2>1 DEF IInv, Origins
    <3> QED BY <1>2, <1>10, <2>1, <3>1 DEF WasSeen
  <2>2. CASE published'[o] = snapshot.saw[o] /\ snapshot.saw[o] # Absent
    <3>1. snapshot.quality # "failed"
      BY <2>2 DEF Nothing
    <3>2. WasSeen(o, q)'
      BY <1>3, <2>2, <3>1 DEF WasSeen, StatusOf, Successful, Snapshots, Qualities
    <3> QED BY <3>2
  <2> QED BY <1>11, <2>1, <2>2
<1> SUFFICES ASSUME NEW r \in Run, run'[r].status \in Successful, IsNewest(r)',
                    run'[r].version = source'.version
             PROVE  /\ \A o \in Object : IF run'[r].snapshot.saw[o] # Absent
                                          THEN published'[o] = run'[r].snapshot.saw[o]
                                          ELSE ShownBefore(o, r)'
                    /\ head'.run = r
                    /\ run'[r].snapshot.quality = "complete" =>
                         /\ head'.verified = run'[r].snapshot
                         /\ effective'[source'.version] = run'[r].snapshot
  BY <1>5, <1>12 DEF NewestRunIsCurrent
<1>7. IsNewest(r) /\ run[r].version = source.version
  BY <1>2, <1>6
<1>8. CASE r = q
  <2>1. published' = Shown(snapshot.saw)
    BY <1>7, <1>8 DEF Persisted, MayPublish
  <2>2. ASSUME NEW o \in Object
        PROVE  IF snapshot.saw[o] # Absent THEN published'[o] = snapshot.saw[o] ELSE ShownBefore(o, q)'
    <3>1. CASE snapshot.saw[o] # Absent
      BY <2>1, <3>1 DEF Shown
    <3>2. CASE snapshot.saw[o] = Absent
      <4>1. published'[o] = published[o]
        BY <2>1, <3>2 DEF Shown
      <4>2. CASE published[o] = Absent
        BY <3>2, <4>1, <4>2 DEF ShownBefore
      <4>3. CASE published[o] # Absent
        <5>1. PICK p \in Run : WasSeen(o, p)
          BY <4>3 DEF IInv, Origins
        <5>2. p # q /\ Exists(p)
          BY <1>10, <5>1 DEF WasSeen, Exists, Ended
        <5>3. stamp[p] < stamp[q]
          BY <1>4, <1>7, <1>8, <5>2 DEF IsNewest, IInv, Ordered, TypeOK
        <5>4. run'[p] = run[p] /\ stamp'[p] < stamp'[q]
          BY <1>2, <5>2, <5>3
        <5> QED BY <3>2, <4>1, <5>1, <5>4 DEF WasSeen, ShownBefore
      <4> QED BY <4>2, <4>3
    <3> QED BY <3>1, <3>2
  <2>3. MovesHead(q)
    BY <1>7, <1>8 DEF MovesHead, IsNewest, IInv, Ordered, TypeOK, Heads
  <2>4. head' = [run |-> q, status |-> snapshot.quality, verified |-> Verified(verified)]
    BY <2>3 DEF Persisted, HeadAt
  <2>5. ASSUME snapshot.quality = "complete"
        PROVE  head'.verified = snapshot /\ effective'[source.version] = snapshot
    <3>1. snapshot # NoSnapshot
      BY DEF Snapshots, NoSnapshot
    <3>2. source.version \in 1..MaxVersion
      BY DEF IInv, TypeOK
    <3>3. effective' = [effective EXCEPT ![source.version] = snapshot]
      BY <1>7, <1>8, <2>3, <2>5, <3>1 DEF Persisted
    <3> QED BY <2>4, <2>5, <3>1, <3>2, <3>3 DEF Verified, IInv, TypeOK
  <2> QED BY <1>3, <1>8, <2>2, <2>4, <2>5
<1>9. CASE r # q
  <2>1. run'[r] = run[r] /\ Exists(r)
    BY <1>2, <1>9 DEF Exists, Ended
  <2>2. ~IsNewest(q) /\ ~MovesHead(q)
    BY <1>4, <1>7, <1>9, <2>1, OlderRun
  <2>3. UNCHANGED <<published, head, effective>>
    BY <2>2 DEF Persisted, MayPublish, HeadAt
  <2>4. \A o \in Object : ShownBefore(o, r) => ShownBefore(o, r)'
    BY <1>2, <1>10, <2>3, SightsStay DEF IInv
  <2> QED BY <1>7, <2>1, <2>3, <2>4 DEF IInv, NewestRunIsCurrent
<1> QED BY <1>8, <1>9

LEMMA NewestStep ==
    ASSUME IInv, Blind, [Next]_vars
    PROVE  IInv'
<1>1. TypeOK'
  BY TypeStep DEF IInv
<1> SUFFICES Ordered' /\ Origins' /\ NewestRunIsCurrent'
  BY <1>1 DEF IInv
<1> USE DEF requestVars, currentVars
<1>2. CASE UNCHANGED <<source, stamp, run, published, head, effective>>
  BY <1>2 DEF IInv, Ordered, Origins, WasSeen, NewestRunIsCurrent, ShownBefore, IsNewest, Exists
<1>3. ASSUME NEW q \in Run, RequestRun(q) PROVE Ordered' /\ Origins' /\ NewestRunIsCurrent'
  <2>1. /\ stamp'[q] = clock + 1
        /\ \A r \in Run : stamp[r] \in 0..clock /\ (r # q => stamp'[r] = stamp[r])
        /\ clock \in Nat
    BY <1>3 DEF RequestRun, IInv, TypeOK
  <2>2. \A r \in Run : Exists(r) => r # q /\ stamp'[r] = stamp[r]
    BY <1>3, <2>1 DEF RequestRun, IInv, Ordered
  <2>3. UNCHANGED <<source, run, published, head, effective>>
    BY <1>3 DEF RequestRun
  <2>4. \A r \in Run : Exists(r)' <=> Exists(r)
    BY <2>3 DEF Exists
  <2>5. Ordered'
    <3>1. \A r \in Run : Exists(r)' => stamp'[r] > 0
      BY <2>2, <2>4 DEF IInv, Ordered
    <3>2. \A p, r \in Run : stamp'[p] = stamp'[r] /\ stamp'[p] > 0 => p = r
      BY <2>1 DEF IInv, Ordered
    <3>3. head'.run # None => Exists(head.run)'
      BY <2>3 DEF IInv, Ordered, Exists
    <3> QED BY <2>3, <3>1, <3>2, <3>3 DEF IInv, Ordered
  <2>6. \A r \in Run : Exists(r) /\ IsNewest(r)' => IsNewest(r)
    BY <2>2, <2>4 DEF IsNewest
  <2>7. \A r \in Run : run[r].status \in Successful => Exists(r)
    BY DEF Exists, Ended
  <2>8. /\ Origins'
        /\ \A o \in Object, r \in Run :
             stamp'[r] = stamp[r] /\ ShownBefore(o, r) => ShownBefore(o, r)'
    BY <2>2, <2>3, <2>7, SightsStay DEF IInv
  <2>9. NewestRunIsCurrent'
    BY <2>2, <2>3, <2>6, <2>7, <2>8 DEF IInv, NewestRunIsCurrent
  <2> QED BY <2>5, <2>8, <2>9
<1>4. ASSUME NEW q \in Run, Enqueue(q) PROVE Ordered' /\ Origins' /\ NewestRunIsCurrent'
  <2>1. UNCHANGED <<source, stamp, published, head, effective>> /\ stamp[q] > 0
    BY <1>4 DEF Enqueue
  <2>2. /\ run'[q].status = "queued" /\ run'[q].version = source.version
        /\ \A r \in Run : r # q => run'[r] = run[r]
    BY <1>4 DEF Enqueue, IInv, TypeOK, RunRows
  <2>3. \A r \in Run : Exists(r) => Exists(r)'
    BY <2>2 DEF Exists, Active
  <2>4. Ordered'
    <3>1. \A r \in Run : Exists(r)' => stamp'[r] > 0
      BY <2>1, <2>2 DEF IInv, Ordered, Exists
    <3>2. \A r \in Run : run'[r].version <= source'.version
      BY <2>1, <2>2 DEF IInv, Ordered, TypeOK
    <3>3. head'.run # None => Exists(head.run)'
      BY <2>1, <2>3 DEF IInv, Ordered, TypeOK, Heads
    <3> QED BY <2>1, <3>1, <3>2, <3>3 DEF IInv, Ordered
  <2>6. Origins' /\ \A o \in Object, r \in Run : ShownBefore(o, r) => ShownBefore(o, r)'
    <3>1. run[q].status \notin Successful
      BY <1>4 DEF Enqueue, Exists, Ended
    <3> QED BY <2>1, <2>2, <3>1, SightsStay DEF IInv
  <2>5. NewestRunIsCurrent'
    <3>1. \A r \in Run : IsNewest(r)' => IsNewest(r)
      BY <2>1, <2>3 DEF IsNewest
    <3>2. \A r \in Run : run'[r].status \in Successful => run'[r] = run[r]
      BY <2>2 DEF Successful
    <3> QED BY <2>1, <2>6, <3>1, <3>2 DEF IInv, NewestRunIsCurrent
  <2> QED BY <2>4, <2>5, <2>6
<1>5. CASE UpdateSource
  <2>1. source'.version = source.version + 1 /\ source.version \in Nat
    BY <1>5 DEF UpdateSource, IInv, TypeOK
  <2>2. UNCHANGED <<stamp, run, published, head, effective>>
    BY <1>5 DEF UpdateSource
  <2>3. \A r \in Run : run[r].version <= source.version /\ run[r].version \in Nat
    BY DEF IInv, Ordered, TypeOK, RunRows
  <2>4. Ordered'
    BY <2>1, <2>2, <2>3 DEF IInv, Ordered, Exists
  <2>5. \A r \in Run : run'[r].version # source'.version
    BY <2>1, <2>2, <2>3
  <2>6. Origins'
    BY <2>2, SightsStay DEF IInv
  <2> QED BY <2>4, <2>5, <2>6 DEF NewestRunIsCurrent
<1>6. ASSUME NEW h \in Handlers, BeginRun(h), run' # run \/ head' # head
      PROVE  Ordered' /\ Origins' /\ NewestRunIsCurrent'
  <2>1. h[1] \in Run
    BY DEF Handlers
  <2>2. /\ run[h[1]].status \in Active
        /\ run' = [run EXCEPT ![h[1]].status = "running"]
        /\ head' = HeadAt(h[1], "partial", NoSnapshot)
        /\ UNCHANGED <<source, stamp, published, effective>>
    BY <1>6 DEF BeginRun, Startable
  <2>3. "running" \in Active \union {"failed"} /\ "partial" \in Qualities
    BY DEF Active, Qualities
  <2> QED BY <1>1, <2>1, <2>2, <2>3, HeadStep
<1>7. ASSUME NEW h \in Handlers, RetryOrFail(h), run' # run \/ head' # head
      PROVE  Ordered' /\ Origins' /\ NewestRunIsCurrent'
  <2>1. h[1] \in Run
    BY DEF Handlers
  <2> DEFINE status == IF IsTerminal(h) THEN "failed" ELSE "queued"
  <2>2. /\ run[h[1]].status \in Active
        /\ run' = [run EXCEPT ![h[1]].status = status]
        /\ head' = HeadAt(h[1], "failed", NoSnapshot)
        /\ UNCHANGED <<source, stamp, published, effective>>
    BY <1>7 DEF RetryOrFail
  <2>3. status \in Active \union {"failed"} /\ "failed" \in Qualities
    BY DEF Active, Qualities
  <2> QED BY <1>1, <2>1, <2>2, <2>3, HeadStep
<1>8. ASSUME NEW h \in Handlers, PersistSnapshot(h), MayPersist(h)
      PROVE  Ordered' /\ Origins' /\ NewestRunIsCurrent'
  <2>1. h[1] \in Run
    BY DEF Handlers
  <2> DEFINE snapshot == [version |-> run[h[1]].version, saw |-> exec[h].saw,
                          quality |-> exec[h].quality]
  <2>2. snapshot \in Snapshots
    BY <2>1 DEF Snapshots, IInv, TypeOK, RunRows, HandlerStates
  <2>3. Persisted(h[1], snapshot) /\ UNCHANGED <<source, stamp>>
    BY <1>8 DEF PersistSnapshot
  <2>4. run[h[1]].status = "running"
    BY <1>8 DEF MayPersist
  <2>5. snapshot.quality = "failed" => snapshot.saw = Nothing
    BY DEF Blind
  <2> QED BY <1>1, <2>1, <2>2, <2>3, <2>4, <2>5, PersistStep
<1>9. ASSUME NEW h \in Handlers, PersistSnapshot(h), ~MayPersist(h)
      PROVE  UNCHANGED <<source, stamp, run, published, head, effective>>
  BY <1>9 DEF PersistSnapshot
<1>10. ASSUME NEW h \in Handlers, BeginRun(h) \/ RetryOrFail(h), run' = run, head' = head
       PROVE  UNCHANGED <<source, stamp, run, published, head, effective>>
  BY <1>10 DEF BeginRun, RetryOrFail
<1> QED
  BY <1>2, <1>3, <1>4, <1>5, <1>6, <1>7, <1>8, <1>9, <1>10
     DEF Next, vars, HandlerStep, Drift, StartAttempt, LoadExecution, Collect, CollectError,
         DatabaseError, Return, Crash, ReapDead, ReapStalled, CancelStalled

\* What the newest run saw is what the source shows of it, and what it did not
\* see is shown as an older run saw it, as long as its configuration stands,
\* whatever runs are retried or finish late.
THEOREM NewestIsCurrent == Spec => []NewestRunIsCurrent
<1>1. Init => IInv
  <2>1. Init => TypeOK
    BY TypeInit
  <2>2. Init => Ordered /\ Origins /\ NewestRunIsCurrent
    BY DiscoveryAssumption
       DEF Init, Ordered, Origins, Nothing, NewestRunIsCurrent, Exists, Active, Ended, Successful, None
  <2> QED BY <2>1, <2>2 DEF IInv
<1>2. IInv /\ Blind /\ [Next]_vars => IInv'
  BY NewestStep
<1>3. IInv => NewestRunIsCurrent
  BY DEF IInv
<1> QED BY <1>1, <1>2, <1>3, BlindInvariance, PTL DEF Spec

-----------------------------------------------------------------------------
(* Failure.                                                                *)

\* A snapshot that failed leaves what is current as it was.
LEMMA FailedSnapshot ==
    ASSUME TypeOK, NEW r \in Run, NEW snapshot \in Snapshots, snapshot.quality = "failed",
           snapshot.saw = Nothing, Persisted(r, snapshot)
    PROVE  UNCHANGED <<published, head.verified, effective>>
<1>1. Shown(Nothing) = published
  BY DEF Shown, Nothing, Sights, TypeOK
<1> QED BY <1>1 DEF Persisted, HeadAt, Verified

LEMMA FailureStep ==
    ASSUME TypeOK, Blind, [Next]_vars,
           <<published, head.verified, effective>>' # <<published, head.verified, effective>>
    PROVE  \E h \in Handlers :
            /\ exec[h].pc = "persist"
            /\ phase[h[1]] = "active" /\ tries[h[1]] = h[2]
            /\ run[h[1]].status = "running"
            /\ run'[h[1]].status \in Successful
<1>1. PICK h \in Handlers : BeginRun(h) \/ RetryOrFail(h) \/ PersistSnapshot(h)
  BY DEF Next, vars, HandlerStep, RequestRun, Enqueue, UpdateSource, Drift, StartAttempt,
         LoadExecution, Collect, CollectError, DatabaseError, Return, Crash, ReapDead, ReapStalled,
         CancelStalled, currentVars
<1>2. h[1] \in Run
  BY DEF Handlers
<1>3. ~BeginRun(h)
  BY DEF BeginRun, HeadAt, Verified
<1>4. ~RetryOrFail(h)
  BY DEF RetryOrFail, HeadAt, Verified
<1>5. PersistSnapshot(h) /\ MayPersist(h)
  BY <1>1, <1>3, <1>4 DEF PersistSnapshot, currentVars
<1> DEFINE snapshot == [version |-> run[h[1]].version, saw |-> exec[h].saw,
                        quality |-> exec[h].quality]
<1>6. snapshot \in Snapshots /\ Persisted(h[1], snapshot)
  BY <1>2, <1>5 DEF PersistSnapshot, Snapshots, TypeOK, RunRows, HandlerStates
<1>7. snapshot.quality \in {"complete", "partial"}
  BY <1>2, <1>6, FailedSnapshot DEF Snapshots, Qualities, Blind
<1>8. StatusOf(snapshot.quality) \in Successful
  BY <1>7 DEF StatusOf, Successful
<1>9. run'[h[1]].status = StatusOf(snapshot.quality)
  BY <1>2, <1>6 DEF Persisted, TypeOK, RunRows
<1> QED BY <1>5, <1>8, <1>9 DEF PersistSnapshot, MayPersist, HoldsLease

\* Nothing but the lease holder's successful end of a run changes what is
\* current: no failure, no request and no handler that lost its lease.
THEOREM FailureLeavesCurrent == Spec => FailureKeepsCurrent
<1>1. TypeOK /\ Blind /\ [Next]_vars =>
        [<<published, head.verified, effective>>' # <<published, head.verified, effective>> =>
           \E h \in Handlers :
            /\ exec[h].pc = "persist"
            /\ phase[h[1]] = "active" /\ tries[h[1]] = h[2]
            /\ run[h[1]].status = "running"
            /\ run'[h[1]].status \in Successful]_vars
  BY FailureStep
<1> QED BY <1>1, Types, BlindInvariance, PTL DEF Spec, FailureKeepsCurrent

-----------------------------------------------------------------------------
(* The end of a run.                                                       *)

\* What a handler says of its run: it succeeds only once the run has ended,
\* and as long as it holds the lease, it is somewhere unless a crash hit it,
\* and fails for the last time only once the run has ended or a fault hit it.
Finishes(h) ==
    /\ exec[h].pc = "ok" => run[h[1]].status \in Ended
    /\ HoldsLease(h) =>
        /\ exec[h].pc # "none"
        /\ exec[h].pc = "gone" => h \in hit
        /\ \/ exec[h].pc = "permanent"
           \/ exec[h].pc = "error" /\ h[2] = MaxAttempts
           => run[h[1]].status \in Ended \/ h \in hit

EndInv ==
    /\ \A r \in Run : phase[r] # "absent" => Exists(r)
    /\ \A h \in Handlers : Finishes(h)
    /\ RunEndsWithItsJob

\* A run that ended stays ended, and one that exists goes on existing.
LEMMA EndedStays ==
    ASSUME TypeOK, [Next]_vars
    PROVE  \A r \in Run : /\ run[r].status \in Ended => run'[r].status \in Ended
                          /\ Exists(r) => Exists(r)'
<1> SUFFICES ASSUME NEW r \in Run
             PROVE  /\ run[r].status \in Ended => run'[r].status \in Ended
                    /\ Exists(r) => Exists(r)'
  OBVIOUS
<1> USE DEF TypeOK
<1>1. CASE UNCHANGED run
  BY <1>1 DEF Exists
<1>2. ASSUME NEW q \in Run, Enqueue(q), Exists(r) PROVE run'[r] = run[r]
  BY <1>2 DEF Enqueue
<1>3. ASSUME NEW h \in Handlers, BeginRun(h)
      PROVE  \/ run'[r] = run[r]
             \/ run[r].status \in Active /\ run'[r].status \in Active
  BY <1>3 DEF BeginRun, Startable, Active, RunRows
<1>4. ASSUME NEW h \in Handlers, RetryOrFail(h)
      PROVE  \/ run'[r] = run[r]
             \/ run[r].status \in Active /\ run'[r].status \in Active \union Ended
  BY <1>4 DEF RetryOrFail, Active, Ended, RunRows
<1>5. ASSUME NEW h \in Handlers, PersistSnapshot(h)
      PROVE  run'[r] = run[r] \/ run'[r].status \in Ended
  <2>1. CASE h[1] = r /\ MayPersist(h)
    <3>1. exec[h].quality \in Qualities
      BY DEF HandlerStates
    <3>2. StatusOf(exec[h].quality) \in Ended
      BY <3>1 DEF StatusOf, Qualities, Ended, Successful
    <3> QED BY <1>5, <2>1, <3>2 DEF PersistSnapshot, Persisted, RunRows
  <2>2. CASE h[1] # r \/ ~MayPersist(h)
    BY <1>5, <2>2 DEF PersistSnapshot, Persisted, Handlers
  <2> QED BY <2>1, <2>2
<1>6. \A status : ~(status \in Active /\ status \in Ended)
  BY DEF Active, Ended, Successful
<1>7. \/ Exists(r) => run'[r] = run[r]
      \/ run'[r].status \in Ended
      \/ run[r].status \in Active /\ run'[r].status \in Active
  BY <1>1, <1>2, <1>3, <1>4, <1>5
     DEF Next, vars, HandlerStep, RequestRun, UpdateSource, Drift, StartAttempt, LoadExecution,
         Collect, CollectError, DatabaseError, Return, Crash, ReapDead, ReapStalled, CancelStalled
<1> QED BY <1>6, <1>7 DEF Exists

\* A step of one handler that leaves the jobs alone and what it says true.
LEMMA SayStep ==
    ASSUME TypeOK, EndInv, [Next]_vars, UNCHANGED jobVars, hit \subseteq hit', NEW h \in Handlers,
           \A g \in Handlers : g # h => exec'[g] = exec[g], Finishes(h)'
    PROVE  EndInv'
<1>1. \A r \in Run : /\ run[r].status \in Ended => run'[r].status \in Ended
                     /\ Exists(r) => Exists(r)'
  BY EndedStays
<1>2. \A g \in Handlers : HoldsLease(g)' <=> HoldsLease(g)
  BY DEF HoldsLease, jobVars
<1>3. ASSUME NEW g \in Handlers, g # h PROVE Finishes(g)'
  <2>1. exec'[g] = exec[g] /\ g[1] \in Run
    BY <1>3 DEF Handlers
  <2>2. Finishes(g)
    BY DEF EndInv
  <2> QED BY <1>1, <1>2, <2>1, <2>2 DEF Finishes
<1>4. RunEndsWithItsJob'
  <2> SUFFICES ASSUME NEW r \in Run,
                      \/ phase'[r] = "succeeded"
                      \/ phase'[r] = "dead" /\ <<r, tries'[r]>> \notin hit'
               PROVE  run'[r].status \in Ended
    BY DEF RunEndsWithItsJob
  <2>1. run[r].status \in Ended
    BY DEF EndInv, RunEndsWithItsJob, jobVars
  <2> QED BY <1>1, <2>1
<1>5. \A r \in Run : phase'[r] # "absent" => Exists(r)'
  BY <1>1 DEF EndInv, jobVars
<1> QED BY <1>3, <1>4, <1>5 DEF EndInv

\* A step that takes the lease of a run's job away, and ends the job only if
\* the run has ended or a fault hit the attempt.
Loses(h) ==
    /\ HoldsLease(h)
    /\ \A g \in Handlers : exec'[g] = exec[g] \/ (exec'[g].pc = "gone" /\ g = h)
    /\ \A r \in Run : r # h[1] => phase'[r] = phase[r]
    /\ UNCHANGED tries
    /\ hit \subseteq hit'
    /\ phase'[h[1]] \in {"waiting", "succeeded", "dead"}
    /\ \/ phase'[h[1]] = "waiting"
       \/ run[h[1]].status \in Ended
       \/ phase'[h[1]] = "dead" /\ h \in hit'

LEMMA LoseStep ==
    ASSUME TypeOK, EndInv, [Next]_vars, NEW h \in Handlers, Loses(h)
    PROVE  EndInv'
<1> USE DEF Loses
<1>1. \A r \in Run : /\ run[r].status \in Ended => run'[r].status \in Ended
                     /\ Exists(r) => Exists(r)'
  BY EndedStays
<1>2. h[1] \in Run /\ h = <<h[1], tries[h[1]]>>
  BY DEF Handlers, HoldsLease
<1>3. ASSUME NEW g \in Handlers PROVE Finishes(g)'
  <2>1. Finishes(g) /\ g[1] \in Run
    BY DEF EndInv, Handlers
  <2>2. HoldsLease(g)' => HoldsLease(g) /\ g # h
    BY DEF HoldsLease, Handlers
  <2>3. CASE exec'[g] = exec[g]
    BY <1>1, <2>1, <2>2, <2>3 DEF Finishes
  <2>4. CASE exec'[g].pc = "gone" /\ g = h
    BY <2>2, <2>4 DEF Finishes
  <2> QED BY <2>3, <2>4
<1>4. RunEndsWithItsJob'
  <2> SUFFICES ASSUME NEW r \in Run,
                      \/ phase'[r] = "succeeded"
                      \/ phase'[r] = "dead" /\ <<r, tries'[r]>> \notin hit'
               PROVE  run'[r].status \in Ended
    BY DEF RunEndsWithItsJob
  <2>1. CASE r = h[1]
    BY <1>1, <1>2, <2>1
  <2>2. CASE r # h[1]
    BY <1>1, <2>2 DEF EndInv, RunEndsWithItsJob
  <2> QED BY <2>1, <2>2
<1>5. ASSUME NEW r \in Run, phase'[r] # "absent" PROVE Exists(r)'
  BY <1>1, <1>2, <1>5 DEF EndInv, HoldsLease
<1> QED BY <1>3, <1>4, <1>5 DEF EndInv

\* What holds the lease of a job is the handler of a run that exists.
LEMMA LeaseOfARun ==
    ASSUME TypeOK, EndInv, NEW h \in Handlers, HoldsLease(h), run[h[1]].status \notin Active
    PROVE  run[h[1]].status \in Ended
<1>1. h[1] \in Run /\ phase[h[1]] # "absent"
  BY DEF Handlers, HoldsLease
<1> QED BY <1>1 DEF EndInv, Exists

LEMMA EndStep ==
    ASSUME TypeOK, EndInv, [Next]_vars
    PROVE  EndInv'
<1> USE DEF jobVars, requestVars, currentVars
<1>0. \A r \in Run : /\ run[r].status \in Ended => run'[r].status \in Ended
                     /\ Exists(r) => Exists(r)'
  BY EndedStays
<1>1. CASE UNCHANGED <<phase, tries, run, exec, hit>>
  BY <1>1 DEF EndInv, Finishes, HoldsLease, Exists, RunEndsWithItsJob
<1>2. ASSUME NEW q \in Run, Enqueue(q) PROVE EndInv'
  <2>1. /\ run'[q].status = "queued" /\ phase[q] = "absent" /\ phase'[q] = "waiting"
        /\ \A r \in Run : r # q => run'[r] = run[r] /\ phase'[r] = phase[r]
        /\ UNCHANGED <<tries, exec, hit>>
    BY <1>2 DEF Enqueue, Job!Submit, TypeOK, RunRows
  <2>2. \A h \in Handlers : HoldsLease(h)' => HoldsLease(h)
    BY <2>1 DEF HoldsLease, Handlers
  <2>3. ASSUME NEW h \in Handlers PROVE Finishes(h)'
    <3>1. h[1] \in Run /\ Finishes(h)
      BY DEF Handlers, EndInv
    <3> QED BY <1>0, <2>1, <2>2, <3>1 DEF Finishes
  <2>4. RunEndsWithItsJob'
    BY <1>0, <2>1 DEF EndInv, RunEndsWithItsJob
  <2>5. \A r \in Run : phase'[r] # "absent" => Exists(r)'
    BY <1>0, <2>1 DEF EndInv, Exists, Active
  <2> QED BY <2>3, <2>4, <2>5 DEF EndInv
<1>3. ASSUME NEW q \in Run, StartAttempt(q) PROVE EndInv'
  <2>1. /\ phase[q] = "waiting" /\ phase'[q] = "active" /\ tries'[q] = tries[q] + 1
        /\ tries[q] \in 0..MaxAttempts /\ tries[q] < MaxAttempts
        /\ \A r \in Run : r # q => phase'[r] = phase[r] /\ tries'[r] = tries[r]
        /\ UNCHANGED <<run, hit>>
    BY <1>3 DEF StartAttempt, Job!Attempt, TypeOK
  <2> DEFINE new == <<q, tries[q] + 1>>
  <2>2. new \in Handlers
    BY <2>1, DiscoveryAssumption DEF Handlers, Attempts, DiscoveryAssumption
  <2>3. exec' = [exec EXCEPT ![new] = [NotStarted EXCEPT !.pc = "load"]]
    BY <1>3, <2>1 DEF StartAttempt
  <2>4. exec'[new].pc = "load" /\ \A g \in Handlers : g # new => exec'[g] = exec[g]
    BY <2>2, <2>3 DEF TypeOK, NotStarted
  <2>5. ASSUME NEW h \in Handlers PROVE Finishes(h)'
    <3>1. h[1] \in Run /\ Finishes(h) /\ h = <<h[1], h[2]>>
      BY DEF Handlers, EndInv
    <3>2. CASE h = new
      BY <2>4, <3>2 DEF Finishes
    <3>3. CASE h # new
      <4>1. HoldsLease(h)' => HoldsLease(h)
        BY <2>1, <3>1, <3>3 DEF HoldsLease
      <4> QED BY <2>1, <2>4, <3>1, <3>3, <4>1 DEF Finishes
    <3> QED BY <3>2, <3>3
  <2>6. RunEndsWithItsJob'
    BY <2>1 DEF EndInv, RunEndsWithItsJob
  <2>7. \A r \in Run : phase'[r] # "absent" => Exists(r)'
    BY <1>0, <2>1 DEF EndInv
  <2> QED BY <2>5, <2>6, <2>7 DEF EndInv
<1>4. ASSUME NEW h \in Handlers, HandlerStep(h) \/ DatabaseError(h) PROVE EndInv'
  <2>1. h[1] \in Run /\ Finishes(h)
    BY DEF Handlers, EndInv
  <2>2. /\ UNCHANGED jobVars /\ hit \subseteq hit'
        /\ \A g \in Handlers : g # h => exec'[g] = exec[g]
    BY <1>4 DEF HandlerStep, LoadExecution, BeginRun, Collect, CollectError, PersistSnapshot,
                RetryOrFail, DatabaseError, Fault, To, ToFailure, TypeOK
  <2>3. HoldsLease(h)' <=> HoldsLease(h)
    BY <2>2 DEF HoldsLease
  <2>4. \A pc : To(h, pc) => exec'[h].pc = pc
    BY DEF To, TypeOK, HandlerStates
  <2>5. \A permanent : ToFailure(h, permanent) => exec'[h].pc = "fail"
    BY DEF ToFailure, TypeOK, HandlerStates
  <2>6. HoldsLease(h) => exec[h].pc # "none" /\ (exec[h].pc = "gone" => h \in hit)
    BY <2>1 DEF Finishes
  <2>7. HoldsLease(h) /\ run[h[1]].status \notin Active => run[h[1]].status \in Ended
    BY LeaseOfARun
  <2>8. Finishes(h)'
    <3>1. CASE LoadExecution(h)
      <4>1. \/ exec'[h].pc = "ok" /\ run[h[1]].status \in Ended
            \/ exec'[h].pc = "begin"
        BY <2>4, <3>1 DEF LoadExecution, Ended
      <4> QED BY <1>0, <2>1, <4>1 DEF Finishes
    <3>2. CASE BeginRun(h)
      <4>1. CASE exec'[h].pc = "collect"
        BY <4>1 DEF Finishes
      <4>2. CASE exec'[h].pc = "error" /\ (HoldsLease(h) => run[h[1]].status \notin Active)
        BY <1>0, <2>1, <2>3, <2>7, <4>2 DEF Finishes
      <4> QED BY <2>4, <3>2, <4>1, <4>2 DEF BeginRun, Startable
    <3>3. CASE Collect(h) \/ CollectError(h)
      <4>1. exec'[h].pc \in {"persist", "fail"}
        BY <2>5, <3>3 DEF Collect, CollectError, TypeOK, HandlerStates
      <4> QED BY <4>1 DEF Finishes
    <3>4. CASE PersistSnapshot(h)
      <4>1. CASE exec'[h].pc = "fail"
        BY <4>1 DEF Finishes
      <4>2. CASE MayPersist(h) /\ exec'[h].pc = "ok"
        <5>1. exec[h].quality \in Qualities
          BY DEF TypeOK, HandlerStates
        <5>2. StatusOf(exec[h].quality) \in Ended
          BY <5>1 DEF StatusOf, Qualities, Ended, Successful
        <5>3. run'[h[1]].status \in Ended
          BY <2>1, <3>4, <4>2, <5>2 DEF PersistSnapshot, Persisted, TypeOK, RunRows
        <5> QED BY <4>2, <5>3 DEF Finishes
      <4>3. exec' = [exec EXCEPT ![h] = [NotStarted EXCEPT !.pc = "ok"]] => exec'[h].pc = "ok"
        BY DEF TypeOK, NotStarted
      <4> QED BY <2>4, <2>5, <3>4, <4>1, <4>2, <4>3 DEF PersistSnapshot
    <3>5. CASE RetryOrFail(h)
      <4>1. exec'[h].pc = IF exec[h].permanent THEN "permanent" ELSE "error"
        BY <2>4, <3>5 DEF RetryOrFail
      <4>2. CASE ~IsTerminal(h)
        BY <4>1, <4>2 DEF Finishes, IsTerminal
      <4>3. CASE IsTerminal(h) /\ HoldsLease(h)
        <5>1. run'[h[1]].status \in Ended
          <6>1. CASE run[h[1]].status \in Active
            BY <2>1, <3>5, <4>3, <6>1 DEF RetryOrFail, Ended, TypeOK, RunRows
          <6>2. CASE run[h[1]].status \notin Active
            BY <1>0, <2>1, <2>7, <4>3, <6>2
          <6> QED BY <6>1, <6>2
        <5> QED BY <4>1, <5>1 DEF Finishes
      <4>4. CASE ~HoldsLease(h)
        BY <2>3, <4>1, <4>4 DEF Finishes
      <4> QED BY <4>2, <4>3, <4>4
    <3>6. CASE DatabaseError(h)
      <4>1. h \in hit' /\ exec'[h].pc \in {"fail", "error", "permanent"}
        BY <2>4, <2>5, <3>6 DEF DatabaseError, Fault
      <4> QED BY <4>1 DEF Finishes
    <3> QED BY <1>4, <3>1, <3>2, <3>3, <3>4, <3>5, <3>6 DEF HandlerStep
  <2> QED BY <2>2, <2>8, SayStep
<1>5. ASSUME NEW h \in Handlers, Return(h) PROVE EndInv'
  <2>1. h[1] \in Run /\ Finishes(h)
    BY DEF Handlers, EndInv
  <2>2. /\ UNCHANGED hit /\ exec'[h].pc = "gone"
        /\ \A g \in Handlers : g # h => exec'[g] = exec[g]
    BY <1>5 DEF Return, Gone, NotStarted, TypeOK
  <2>3. CASE ~HoldsLease(h)
    <3>1. UNCHANGED jobVars /\ ~HoldsLease(h)'
      BY <1>5, <2>3 DEF Return, HoldsLease
    <3>2. Finishes(h)'
      BY <2>2, <3>1 DEF Finishes
    <3> QED BY <2>2, <3>1, <3>2, SayStep
  <2>4. CASE HoldsLease(h)
    <3>1. /\ \A r \in Run : r # h[1] => phase'[r] = phase[r]
          /\ UNCHANGED tries
      BY <1>5, <2>4 DEF Return, Job!Succeed, Job!LoseAttempts, Job!FailForGood, TypeOK
    <3>2. \/ exec[h].pc = "ok" /\ phase'[h[1]] = "succeeded"
          \/ exec[h].pc = "permanent" /\ phase'[h[1]] = "dead"
          \/ exec[h].pc = "error" /\ phase'[h[1]] = "waiting"
          \/ exec[h].pc = "error" /\ phase'[h[1]] = "dead" /\ h[2] = MaxAttempts
      BY <1>5, <2>1, <2>4
         DEF Return, HoldsLease, Job!Succeed, Job!LoseAttempts, Job!AfterLostAttempt,
             Job!FailForGood, TypeOK
    <3>3. \/ phase'[h[1]] = "waiting"
          \/ run[h[1]].status \in Ended /\ phase'[h[1]] \in {"succeeded", "dead"}
          \/ phase'[h[1]] = "dead" /\ h \in hit'
      BY <2>1, <2>2, <2>4, <3>2 DEF Finishes
    <3>4. phase'[h[1]] \in {"waiting", "succeeded", "dead"} /\ hit \subseteq hit'
      BY <2>2, <3>3
    <3>5. \A g \in Handlers : exec'[g] = exec[g] \/ (exec'[g].pc = "gone" /\ g = h)
      BY <2>2
    <3>6. Loses(h)
      BY <2>4, <3>1, <3>3, <3>4, <3>5 DEF Loses
    <3> QED BY <3>6, LoseStep
  <2> QED BY <2>3, <2>4
<1>6. ASSUME NEW h \in Handlers, Crash(h) \/ CancelStalled(h) PROVE EndInv'
  <2>1. /\ UNCHANGED jobVars /\ hit \subseteq hit' /\ exec'[h].pc = "gone"
        /\ \A g \in Handlers : g # h => exec'[g] = exec[g]
        /\ h \in hit' \/ ~HoldsLease(h)
    BY <1>6 DEF Crash, CancelStalled, Fault, Gone, NotStarted, TypeOK
  <2>2. Finishes(h)'
    BY <2>1 DEF Finishes, HoldsLease
  <2> QED BY <2>1, <2>2, SayStep
<1>7. ASSUME NEW h \in Handlers, ReapDead(h) \/ ReapStalled(h) PROVE EndInv'
  <2>1. h[1] \in Run /\ Finishes(h) /\ HoldsLease(h)
    BY <1>7 DEF Handlers, EndInv, ReapDead, ReapStalled
  <2>2. UNCHANGED <<exec, tries>> /\ hit \subseteq hit' /\ h \in hit'
    BY <1>7, <2>1 DEF ReapDead, ReapStalled, Running, Finishes, Fault, Job!LoseAttempts
  <2>3. /\ \A r \in Run : r # h[1] => phase'[r] = phase[r]
        /\ phase'[h[1]] \in {"waiting", "dead"}
    BY <1>7, <2>1 DEF ReapDead, ReapStalled, Job!LoseAttempts, Job!AfterLostAttempt
  <2>4. Loses(h)
    BY <2>1, <2>2, <2>3 DEF Loses
  <2> QED BY <2>4, LoseStep
<1> QED
  BY <1>1, <1>2, <1>3, <1>4, <1>5, <1>6, <1>7
     DEF Next, vars, RequestRun, UpdateSource, Drift

\* A job that succeeded leaves no run open, and neither does one that died of
\* attempts whose last no fault hit: the handler ends the run before it tells
\* the worker so, whatever happened to the attempts before.
THEOREM RunsEndWithTheirJobs == Spec => []RunEndsWithItsJob
<1>1. Init => EndInv
  <2> SUFFICES ASSUME Init PROVE EndInv
    OBVIOUS
  <2>1. \A r \in Run : phase[r] = "absent"
    BY DEF Init, Job!ContractInit
  <2>2. \A h \in Handlers : exec[h].pc = "none" /\ ~HoldsLease(h)
    BY <2>1 DEF Init, NotStarted, HoldsLease, Handlers
  <2> QED BY <2>1, <2>2 DEF EndInv, Finishes, RunEndsWithItsJob
<1>2. TypeOK /\ EndInv /\ [Next]_vars => EndInv'
  BY EndStep
<1>3. EndInv => RunEndsWithItsJob
  BY DEF EndInv
<1> QED BY <1>1, <1>2, <1>3, Types, PTL DEF Spec

=============================================================================
