------------------------- MODULE ExternalCall_proofs ------------------------
(***************************************************************************)
(* Theorems about ExternalCall, for any keys, handlers and limits: the     *)
(* limit on concurrent executions is kept, and claims, retries, sweeps and *)
(* late handlers together implement CallContract.                          *)
(***************************************************************************)
EXTENDS ExternalCall, FiniteSetTheorems, TLAPS

\* The steps between a claim and its outcome.
Working == {"claimed", "calling", "answered", "settling"}
WorksOn(h, k) == at[h].step \in Working /\ at[h].key = k

\* What a handler that has a key rests on.
Claims(h) ==
    /\ at[h].step # "idle" => at[h].key \in Key
    /\ at[h].step \in {"leased", "refused", "ending"} => KindOf(h) = "generate"
    /\ at[h].basis <= version

\* A claim is made once, and nobody but who made it settles it with an outcome
\* that is known.  Success needs a call, whose answer came after the claim.
HasAnswer(h) == at[h].step = "answered" \/ (at[h].step = "settling" /\ at[h].says = "succeeded")
Works(h) ==
    at[h].step \in Working =>
        /\ KindOf(h) # "unused"
        /\ RowOf(h).state \in {"running", "unknown"}
        /\ at[h].step = "claimed" => calls[at[h].key] = 0
        /\ at[h].step = "calling" \/ HasAnswer(h) => calls[at[h].key] = 1
        /\ HasAnswer(h) => RowOf(h).basis <= ended[at[h].key]
        /\ KindOf(h) = "ask" =>
            /\ at[h].basis = RowOf(h).basis
            /\ at[h].step = "settling" /\ at[h].says = "succeeded" => ended[at[h].key] = RowOf(h).basis
        /\ KindOf(h) = "execute" =>
            /\ RowOf(h).state = "unknown" => RowOf(h).due = "expired"
            /\ at[h].step = "calling" => RowOf(h).due # "expired"

\* No other handler works on the key of this one.
Alone(h) == \A g \in Handler : at[g].step \in Working /\ at[h].step \in Working /\ at[g].key = at[h].key => g = h

RowIsSound(k) ==
    /\ row[k].basis <= version
    /\ ended[k] <= version
    /\ calls[k] <= 1
    /\ row[k].state \in {"new", "queued"} => calls[k] = 0
    /\ row[k].state = "new" => job[k].state = "none"
    /\ row[k].state = "succeeded" /\ kind[k] # "execute" => ended[k] = row[k].basis

JobIsSound(k) ==
    /\ job[k].state \in {"none", "ready"} => job[k].attempts < JobAttempts
    /\ job[k].state # "none" => kind[k] = "generate"
    /\ job[k].state = "none" => job[k].holder = None

\* The executions that hold a slot.
Live == {k \in Key : kind[k] = "execute" /\ row[k].state = "running" /\ row[k].due # "expired"}
SlotsAreKept == IsFiniteSet(Live) /\ Cardinality(Live) <= Limit

Inv ==
    /\ TypeOK
    /\ \A h \in Handler : Claims(h) /\ Works(h) /\ Alone(h)
    /\ \A k \in Key : RowIsSound(k) /\ JobIsSound(k)
    /\ SlotsAreKept

-----------------------------------------------------------------------------
(* What the steps of a handler make of the state.                          *)

Moved(h, p) ==
    /\ at' \in [Handler -> Positions]
    /\ at'[h] = p
    /\ \A g \in Handler : g # h => at'[g] = at[g]

LEMMA Moves ==
    ASSUME TypeOK, NEW h \in Handler
    PROVE  /\ \A s \in Steps : GoTo(h, s) =>
                Moved(h, [step |-> s, key |-> at[h].key, basis |-> at[h].basis, says |-> at[h].says])
           /\ \A r \in Settled : Settling(h, r) =>
                Moved(h, [step |-> "settling", key |-> at[h].key, basis |-> at[h].basis, says |-> r])
           /\ \A r \in Settled : EndsWith(h, r) =>
                Moved(h, [step |-> "ending", key |-> at[h].key, basis |-> at[h].basis, says |-> r])
           /\ GoIdle(h) => Moved(h, Idle)
<1>1. at[h] \in Positions
  BY DEF TypeOK
<1>2. at[h] = [step |-> at[h].step, key |-> at[h].key, basis |-> at[h].basis, says |-> at[h].says]
  BY <1>1 DEF Positions
<1>3. ASSUME NEW s \in Steps, GoTo(h, s)
      PROVE  Moved(h, [step |-> s, key |-> at[h].key, basis |-> at[h].basis, says |-> at[h].says])
  BY <1>1, <1>2, <1>3 DEF GoTo, Moved, TypeOK, Positions
<1>4. ASSUME NEW r \in Settled, Settling(h, r)
      PROVE  Moved(h, [step |-> "settling", key |-> at[h].key, basis |-> at[h].basis, says |-> r])
  BY <1>1, <1>2, <1>4 DEF Settling, Moved, TypeOK, Positions, Steps
<1>5. ASSUME NEW r \in Settled, EndsWith(h, r)
      PROVE  Moved(h, [step |-> "ending", key |-> at[h].key, basis |-> at[h].basis, says |-> r])
  BY <1>1, <1>2, <1>5 DEF EndsWith, Moved, TypeOK, Positions, Steps
<1>6. ASSUME GoIdle(h) PROVE Moved(h, Idle)
  <2>1. Idle \in Positions
    BY CallAssumption DEF Idle, Positions, Steps, Settled, Results, CallAssumption
  <2> QED BY <1>6, <2>1 DEF GoIdle, Moved, TypeOK
<1> QED BY <1>3, <1>4, <1>5, <1>6

\* A row that keeps all but its state.
SetTo(k, s) ==
    /\ row' \in [Key -> Rows]
    /\ row'[k] = [state |-> s, basis |-> row[k].basis, due |-> row[k].due]
    /\ \A j \in Key : j # k => row'[j] = row[j]

LEMMA SetsState ==
    ASSUME TypeOK, NEW k \in Key, NEW s \in {"new", "queued", "running"} \union Settled,
           row' = [row EXCEPT ![k].state = s]
    PROVE  SetTo(k, s)
<1>1. row[k] \in Rows
  BY DEF TypeOK
<1>2. [row[k] EXCEPT !.state = s] = [state |-> s, basis |-> row[k].basis, due |-> row[k].due]
  BY <1>1 DEF Rows
<1> QED BY <1>1, <1>2 DEF SetTo, Rows, TypeOK

\* A row that a sweep may have closed.
Kept(k) ==
    /\ calls'[k] = calls[k] /\ ended'[k] = ended[k]
    /\ row'[k].basis = row[k].basis /\ row'[k].due = row[k].due
    /\ row'[k].state = row[k].state \/ (IsExpired(k) /\ row'[k].state = "unknown")
    /\ job[k].state = "none" => job'[k].state = "none"

LEMMA SweptRows ==
    ASSUME TypeOK, NEW a
    PROVE  /\ Swept(a) \in [Key -> Rows]
           /\ \A k \in Key :
                /\ Swept(a)[k].basis = row[k].basis /\ Swept(a)[k].due = row[k].due
                /\ Swept(a)[k].state = IF kind[k] = a /\ IsExpired(k) THEN "unknown" ELSE row[k].state
<1>1. ASSUME NEW k \in Key
      PROVE  /\ Swept(a)[k] \in Rows
             /\ Swept(a)[k].basis = row[k].basis /\ Swept(a)[k].due = row[k].due
             /\ Swept(a)[k].state = IF kind[k] = a /\ IsExpired(k) THEN "unknown" ELSE row[k].state
  <2>1. row[k] \in Rows
    BY DEF TypeOK
  <2>2. Swept(a)[k] = IF kind[k] = a /\ IsExpired(k) THEN [row[k] EXCEPT !.state = "unknown"] ELSE row[k]
    BY DEF Swept
  <2>3. /\ [row[k] EXCEPT !.state = "unknown"] = [state |-> "unknown", basis |-> row[k].basis, due |-> row[k].due]
        /\ "unknown" \in Settled
    BY <2>1 DEF Rows, Settled
  <2> QED BY <2>1, <2>2, <2>3 DEF Rows
<1> QED BY <1>1 DEF Swept

-----------------------------------------------------------------------------
(* What a step leaves alone.                                               *)

\* A step that moves the handlers H and writes the keys K keeps the invariant
\* if it holds of them; the other keys are kept or swept.
Frame(H, K) ==
    /\ TypeOK'
    /\ UNCHANGED <<kind, version>>
    /\ \A j \in Key \ K : Kept(j)
    /\ \A k \in K : RowIsSound(k)'
    /\ \A k \in Key : JobIsSound(k)'
    /\ \A g \in Handler \ H : at'[g] = at[g]
    /\ \A h \in H : Claims(h)' /\ Works(h)' /\ Alone(h)'
    /\ \A g \in Handler \ H : at[g].step \in Working /\ at[g].key \in K => Works(g)'
    /\ SlotsAreKept'

LEMMA FrameKeeps ==
    ASSUME Inv, NEW H \in SUBSET Handler, NEW K \in SUBSET Key, Frame(H, K)
    PROVE  Inv'
<1> USE DEF Frame
<1>1. ASSUME NEW g \in Handler \ H PROVE Claims(g)' /\ Works(g)' /\ Alone(g)'
  <2>1. at'[g] = at[g] /\ Claims(g) /\ Works(g) /\ Alone(g) /\ at[g] \in Positions
    BY DEF Inv, TypeOK
  <2>2. Claims(g)'
    BY <2>1 DEF Claims, KindOf
  <2>3. Works(g)'
    <3>1. CASE at[g].step \notin Working
      BY <2>1, <3>1 DEF Works
    <3>2. CASE at[g].step \in Working /\ at[g].key \in K
      BY <3>2
    <3>3. CASE at[g].step \in Working /\ at[g].key \notin K
      <4>1. at[g].key \in Key \ K
        BY <2>1, <3>3 DEF Claims, Working
      <4>2. Kept(at[g].key)
        BY <4>1
      <4>3. IsExpired(at[g].key) => row[at[g].key].due = "expired"
        BY DEF IsExpired
      <4>4. kind' = kind /\ at'[g] = at[g]
        BY <2>1
      <4> HIDE DEF Frame
      <4>5. LET k == at[g].key
            IN  /\ calls'[k] = calls[k] /\ ended'[k] = ended[k] /\ row'[k].basis = row[k].basis /\ row'[k].due = row[k].due
                /\ row'[k].state = row[k].state \/ (row[k].due = "expired" /\ row'[k].state = "unknown")
        BY <4>2, <4>3 DEF Kept
      <4> QED BY <2>1, <3>3, <4>4, <4>5 DEF Works, KindOf, RowOf, HasAnswer
    <3> QED BY <3>1, <3>2, <3>3
  <2>4. Alone(g)'
    <3> SUFFICES ASSUME NEW f \in Handler, at'[f].step \in Working, at'[g].step \in Working,
                        at'[f].key = at'[g].key
                 PROVE  f = g
      BY DEF Alone
    <3>1. CASE f \in H
      BY <3>1 DEF Alone
    <3>2. CASE f \notin H
      BY <2>1, <3>2 DEF Alone
    <3> QED BY <3>1, <3>2
  <2> QED BY <2>2, <2>3, <2>4
<1>2. ASSUME NEW k \in Key \ K PROVE RowIsSound(k)'
  <2>1. Kept(k) /\ RowIsSound(k)
    BY DEF Inv
  <2> QED BY <2>1 DEF Kept, RowIsSound, IsExpired
<1> QED BY <1>1, <1>2 DEF Inv

\* Fewer executions hold a slot.
LEMMA FewerSlots ==
    ASSUME SlotsAreKept, CallAssumption, Live' \subseteq Live
    PROVE  SlotsAreKept'
<1>1. IsFiniteSet(Live') /\ Cardinality(Live') <= Cardinality(Live)
  BY FS_Subset DEF SlotsAreKept
<1>2. Cardinality(Live) \in Nat /\ Cardinality(Live') \in Nat
  BY <1>1, FS_CardinalityType DEF SlotsAreKept
<1> QED BY <1>1, <1>2 DEF SlotsAreKept, CallAssumption

-----------------------------------------------------------------------------
(* Steps that claim nothing and settle nothing.                            *)

\* A place where a handler works on no key.
IsAside(p) ==
    /\ p \in Positions
    /\ p.step \notin Working
    /\ p.step # "idle" => p.key \in Key
    /\ p.step \in {"leased", "refused", "ending"} => kind[p.key] = "generate"
    /\ p.basis <= version

LEMMA Aside ==
    ASSUME NEW h \in Handler, NEW p, Moved(h, p), IsAside(p), UNCHANGED <<kind, version>>
    PROVE  Claims(h)' /\ Works(h)' /\ Alone(h)'
  BY DEF Moved, IsAside, Claims, Works, Alone, KindOf

LEMMA IdleIsAside ==
    ASSUME Inv
    PROVE  IsAside(Idle)
  BY CallAssumption
     DEF Inv, TypeOK, IsAside, Idle, Positions, Steps, Settled, Results, Working, CallAssumption

\* A step from a place with a key to one beside the work on that key.
LEMMA PlaceIsAside ==
    ASSUME Inv, NEW h \in Handler, at[h].step # "idle", NEW s \in {"refused", "ending"}, NEW r \in Settled,
           KindOf(h) = "generate"
    PROVE  IsAside([step |-> s, key |-> at[h].key, basis |-> at[h].basis, says |-> r])
<1>1. at[h] \in Positions /\ Claims(h)
  BY DEF Inv, TypeOK
<1> QED BY <1>1 DEF IsAside, Positions, Steps, Working, Claims, KindOf

LEMMA AsideKeeps ==
    ASSUME Inv, NEW h \in Handler, NEW p, Moved(h, p), IsAside(p),
           UNCHANGED <<kind, row, calls, ended, version>>, job' \in [Key -> Jobs],
           \A k \in Key : JobIsSound(k)' /\ (job[k].state = "none" => job'[k].state = "none")
    PROVE  Inv'
<1>1. Claims(h)' /\ Works(h)' /\ Alone(h)'
  BY Aside
<1>2. SlotsAreKept'
  BY DEF Inv, SlotsAreKept, Live
<1>3. TypeOK'
  BY DEF Inv, TypeOK, Moved
<1>4. Frame({h}, {})
  BY <1>1, <1>2, <1>3 DEF Frame, Moved, Kept
<1> QED BY <1>4, FrameKeeps

LEMMA SoundJobs ==
    ASSUME Inv, UNCHANGED <<kind, job>>
    PROVE  /\ job' \in [Key -> Jobs]
           /\ \A k \in Key : JobIsSound(k)' /\ (job[k].state = "none" => job'[k].state = "none")
  BY DEF Inv, TypeOK, JobIsSound

\* A job that changes to j.
LEMMA ChangedJob ==
    ASSUME Inv, NEW k \in Key, NEW j \in Jobs, job' = [job EXCEPT ![k] = j], UNCHANGED kind,
           j.state # "none", j.state = "ready" => j.attempts < JobAttempts,
           kind[k] = "generate", job[k].state # "none"
    PROVE  /\ job' \in [Key -> Jobs]
           /\ \A i \in Key : JobIsSound(i)' /\ (job[i].state = "none" => job'[i].state = "none")
  BY DEF Inv, TypeOK, JobIsSound

LEMMA RequeuedJob ==
    ASSUME NEW j \in Jobs
    PROVE  /\ Requeued(j) \in Jobs
           /\ Requeued(j).state # "none"
           /\ Requeued(j).state = "ready" => Requeued(j).attempts < JobAttempts
<1>1. CASE j.attempts < JobAttempts
  <2>1. Requeued(j) = [j EXCEPT !.holder = None, !.state = "ready"]
    BY <1>1 DEF Requeued
  <2>2. Requeued(j) = [state |-> "ready", attempts |-> j.attempts, holder |-> None]
    BY <2>1 DEF Jobs
  <2> QED BY <1>1, <2>2 DEF Jobs
<1>2. CASE ~(j.attempts < JobAttempts)
  <2>1. Requeued(j) = [j EXCEPT !.holder = None, !.state = "dead"]
    BY <1>2 DEF Requeued
  <2>2. Requeued(j) = [state |-> "dead", attempts |-> j.attempts, holder |-> None]
    BY <2>1 DEF Jobs
  <2> QED BY <2>2 DEF Jobs
<1> QED BY <1>1, <1>2

\* What a free handler turns into when it takes a key.
LEMMA Taken ==
    ASSUME NEW i \in Positions, NEW s \in Steps, NEW k \in Key
    PROVE  [i EXCEPT !.step = s, !.key = k] = [step |-> s, key |-> k, basis |-> i.basis, says |-> i.says]
<1> DEFINE j == [i EXCEPT !.step = s]
<1>1. j \in Positions /\ j.step = s /\ j.basis = i.basis /\ j.says = i.says
  BY DEF Positions
<1> HIDE DEF j
<1>2. [j EXCEPT !.key = k] = [step |-> s, key |-> k, basis |-> i.basis, says |-> i.says]
  BY <1>1 DEF Positions
<1> QED BY <1>2 DEF j

LEMMA BeginStep ==
    ASSUME Inv, NEW h \in Handler, NEW k \in Key, Begin(h, k)
    PROVE  Inv'
<1> DEFINE p == [step |-> "asking", key |-> k, basis |-> version, says |-> "failed"]
<1>1. IsAside(p)
  BY DEF Inv, TypeOK, IsAside, Positions, Steps, Settled, Results, Working
<1>2. Moved(h, p)
  BY <1>1 DEF Begin, Moved, Inv, TypeOK, IsAside
<1> HIDE DEF p
<1> QED BY <1>1, <1>2, SoundJobs, AsideKeeps DEF Begin

LEMMA LeaseStep ==
    ASSUME Inv, NEW h \in Handler, NEW k \in Key, Lease(h, k)
    PROVE  Inv'
<1> DEFINE p == [step |-> "leased", key |-> k, basis |-> 0, says |-> "failed"]
           j == [state |-> "leased", attempts |-> job[k].attempts + 1, holder |-> h]
<1>1. kind[k] = "generate" /\ job[k].state # "none" /\ job[k] \in Jobs /\ job[k].attempts < JobAttempts
  BY DEF Lease, Inv, JobIsSound, TypeOK
<1>2. IsAside(p)
  BY <1>1, CallAssumption
     DEF Inv, TypeOK, IsAside, Positions, Steps, Settled, Results, Working, CallAssumption
<1>3. [Idle EXCEPT !.step = "leased", !.key = k] = p
  <2>1. Idle \in Positions /\ Idle.basis = 0 /\ Idle.says = "failed"
    BY IdleIsAside DEF IsAside, Idle
  <2>2. "leased" \in Steps
    BY DEF Steps
  <2> QED BY <2>1, <2>2, Taken, Zenon
<1>4. Moved(h, p)
  BY <1>2, <1>3 DEF Lease, Moved, Inv, TypeOK, IsAside
<1>5. j \in Jobs
  BY <1>1, CallAssumption DEF Jobs, CallAssumption
<1>6. job' = [job EXCEPT ![k] = j]
  BY DEF Lease
<1>7. j.state # "none" /\ j.state # "ready"
  OBVIOUS
<1>8. UNCHANGED <<kind, row, calls, ended, version>>
  BY DEF Lease
<1> HIDE DEF p, j
<1>9. /\ job' \in [Key -> Jobs]
      /\ \A i \in Key : JobIsSound(i)' /\ (job[i].state = "none" => job'[i].state = "none")
  BY <1>1, <1>5, <1>6, <1>7, <1>8, ChangedJob
<1> QED BY <1>2, <1>4, <1>8, <1>9, AsideKeeps

LEMMA EndJobStep ==
    ASSUME Inv, NEW h \in Handler, EndJob(h)
    PROVE  Inv'
<1> DEFINE k == at[h].key
           j == IF at[h].says = "failed" THEN Requeued(job[k]) ELSE [job[k] EXCEPT !.holder = None, !.state = "done"]
<1>1. k \in Key /\ kind[k] = "generate" /\ job[k] \in Jobs
  BY DEF EndJob, Inv, Claims, KindOf, TypeOK
<1>0. job[k].state # "none"
  BY <1>1, CallAssumption DEF EndJob, Holds, Inv, JobIsSound, CallAssumption
<1>2. job' = [job EXCEPT ![k] = j]
  BY DEF EndJob
<1>3. j \in Jobs /\ j.state # "none" /\ (j.state = "ready" => j.attempts < JobAttempts)
  <2>1. CASE at[h].says = "failed"
    BY <1>1, <2>1, RequeuedJob
  <2>2. CASE at[h].says # "failed"
    <3>1. j = [state |-> "done", attempts |-> job[k].attempts, holder |-> None]
      BY <1>1, <2>2 DEF Jobs
    <3> QED BY <1>1, <3>1 DEF Jobs
  <2> QED BY <2>1, <2>2
<1>4. Moved(h, Idle) /\ IsAside(Idle)
  BY Moves, IdleIsAside DEF EndJob, Inv
<1>5. UNCHANGED <<kind, row, calls, ended, version>>
  BY DEF EndJob
<1> HIDE DEF j, k
<1>6. /\ job' \in [Key -> Jobs]
      /\ \A i \in Key : JobIsSound(i)' /\ (job[i].state = "none" => job'[i].state = "none")
  BY <1>0, <1>1, <1>2, <1>3, <1>5, ChangedJob
<1> QED BY <1>4, <1>5, <1>6, AsideKeeps

LEMMA LoseLeaseStep ==
    ASSUME Inv, NEW k \in Key, LoseLease(k)
    PROVE  Inv'
<1>1. kind[k] = "generate" /\ job[k].state # "none" /\ job[k] \in Jobs
  BY DEF LoseLease, Inv, JobIsSound, TypeOK
<1>2. job' = [job EXCEPT ![k] = Requeued(job[k])] /\ UNCHANGED <<kind, row, at, calls, ended, version>>
  BY DEF LoseLease
<1>3. /\ job' \in [Key -> Jobs]
      /\ \A i \in Key : JobIsSound(i)' /\ (job[i].state = "none" => job'[i].state = "none")
  BY <1>1, <1>2, RequeuedJob, ChangedJob
<1>4. SlotsAreKept' /\ TypeOK'
  BY <1>2, <1>3 DEF Inv, SlotsAreKept, Live, TypeOK
<1>5. Frame({}, {})
  BY <1>2, <1>3, <1>4 DEF Frame, Kept
<1> QED BY <1>5, FrameKeeps

\* Steps that leave for good: a crash, a lease that is lost.
LEMMA LeaveStep ==
    ASSUME Inv, NEW h \in Handler, Crash(h) \/ LeaseIsLost(h)
    PROVE  Inv'
<1>1. Moved(h, Idle) /\ IsAside(Idle)
  BY Moves, IdleIsAside DEF Crash, LeaseIsLost, Inv
<1>2. UNCHANGED <<kind, row, job, calls, ended, version>>
  BY DEF Crash, LeaseIsLost
<1> QED BY <1>1, <1>2, SoundJobs, AsideKeeps

\* Where a handler goes when it leaves the work on its key.
LEMMA Leaves ==
    ASSUME Inv, NEW h \in Handler, at[h].step # "idle", NEW r \in Settled, Leave(h, r)
    PROVE  \E p : Moved(h, p) /\ IsAside(p)
<1>1. CASE KindOf(h) = "generate"
  <2> DEFINE p == [step |-> "ending", key |-> at[h].key, basis |-> at[h].basis, says |-> r]
  <2>1. Moved(h, p)
    BY <1>1, Moves DEF Leave, Inv
  <2>2. IsAside(p)
    BY <1>1, PlaceIsAside
  <2> QED BY <2>1, <2>2
<1>2. CASE KindOf(h) # "generate"
  BY <1>2, Moves, IdleIsAside DEF Leave, Inv
<1> QED BY <1>1, <1>2

LEMMA FinishFailsStep ==
    ASSUME Inv, NEW h \in Handler, FinishFails(h)
    PROVE  Inv'
<1>1. "failed" \in Settled /\ at[h].step # "idle"
  BY DEF FinishFails, Settled, Results
<1>2. PICK p : Moved(h, p) /\ IsAside(p)
  BY <1>1, Leaves DEF FinishFails
<1>3. UNCHANGED <<kind, row, job, calls, ended, version>>
  BY DEF FinishFails
<1> QED BY <1>2, <1>3, SoundJobs, AsideKeeps

-----------------------------------------------------------------------------
(* Time, requests and sweeps.                                              *)

LEMMA TimeStep ==
    ASSUME Inv, NEW k \in Key, Time(k)
    PROVE  Inv'
<1>1. PICK d \in {"overdue", "expired"} :
        /\ row' = [row EXCEPT ![k].due = d]
        /\ row[k].state = "running" /\ row[k].due # "expired"
        /\ d = "expired" => kind[k] = "generate" \/ ~InFlight(k)
        /\ UNCHANGED <<kind, job, at, calls, ended, version>>
  BY DEF Time, CallDeadlinePasses, RowDeadlinePasses
<1>2. /\ row[k] \in Rows /\ row' \in [Key -> Rows]
      /\ row'[k].state = "running" /\ row'[k].basis = row[k].basis /\ row'[k].due = d
      /\ \A j \in Key : j # k => row'[j] = row[j]
  BY <1>1 DEF Inv, TypeOK, Rows
<1>3. \A j \in Key \ {k} : Kept(j)
  BY <1>1, <1>2 DEF Kept
<1>4. ASSUME NEW g \in Handler, at[g].step \in Working, at[g].key = k
      PROVE  Works(g)'
  <2>1. Works(g)
    BY DEF Inv
  <2>2. at[g].step = "calling" => InFlight(k)
    BY <1>4 DEF InFlight
  <2>3. KindOf(g)' = kind[k] /\ RowOf(g)' = row'[k] /\ KindOf(g) = kind[k] /\ RowOf(g) = row[k]
    BY <1>1, <1>4 DEF KindOf, RowOf
  <2> QED BY <1>1, <1>2, <1>4, <2>1, <2>2, <2>3 DEF Works, HasAnswer
<1>5. RowIsSound(k)'
  BY <1>1, <1>2 DEF Inv, RowIsSound
<1>6. Live' \subseteq Live
  BY <1>1, <1>2 DEF Live
<1>7. SlotsAreKept'
  BY <1>6, CallAssumption, FewerSlots DEF Inv
<1>8. TypeOK'
  BY <1>1, <1>2 DEF Inv, TypeOK
<1>9. \A j \in Key : JobIsSound(j)'
  BY <1>1, SoundJobs
<1>10. Frame({}, {k})
  BY <1>1, <1>3, <1>4, <1>5, <1>7, <1>8, <1>9 DEF Frame
<1> QED BY <1>10, FrameKeeps

LEMMA Opened ==
    ASSUME NEW r \in Rows, NEW b \in 0..MaxChanges
    PROVE  [r EXCEPT !.state = "queued", !.basis = b] = [state |-> "queued", basis |-> b, due |-> r.due]
<1> DEFINE q == [r EXCEPT !.state = "queued"]
<1>1. q \in Rows /\ q.state = "queued" /\ q.due = r.due
  BY DEF Rows
<1> HIDE DEF q
<1>2. [q EXCEPT !.basis = b] = [state |-> "queued", basis |-> b, due |-> r.due]
  BY <1>1 DEF Rows
<1> QED BY <1>2 DEF q

LEMMA QueueStep ==
    ASSUME Inv, NEW k \in Key, Queue(k)
    PROVE  Inv'
<1>1. /\ kind[k] = "generate" /\ row[k].state = "new"
      /\ UNCHANGED <<kind, at, calls, ended, version>>
      /\ job' = [job EXCEPT ![k].state = "ready"]
  BY DEF Queue
<1>2. [New EXCEPT !.state = "queued", !.basis = version] = [state |-> "queued", basis |-> version, due |-> "fresh"]
  <2>1. New \in Rows /\ New.due = "fresh"
    BY CallAssumption DEF New, Rows, CallAssumption
  <2> QED BY <2>1, Opened, Zenon DEF Inv, TypeOK
<1>3. /\ row' \in [Key -> Rows]
      /\ row'[k].state = "queued" /\ row'[k].basis = version
      /\ \A j \in Key : j # k => row'[j] = row[j]
  BY <1>2 DEF Queue, Inv, TypeOK, Rows
<1>4. /\ job' \in [Key -> Jobs] /\ \A j \in Key : JobIsSound(j)'
      /\ \A j \in Key : j # k => job'[j] = job[j]
  <2>1. job[k] \in Jobs /\ job[k].attempts < JobAttempts
    BY <1>1 DEF Inv, TypeOK, RowIsSound, JobIsSound
  <2> QED BY <1>1, <2>1 DEF Inv, TypeOK, Jobs, JobIsSound
<1>5. \A j \in Key \ {k} : Kept(j)
  BY <1>1, <1>3, <1>4 DEF Kept
<1>6. \A g \in Handler : ~(at[g].step \in Working /\ at[g].key = k)
  BY <1>1 DEF Inv, Works, RowOf
<1>7. RowIsSound(k)'
  BY <1>1, <1>3 DEF Inv, TypeOK, RowIsSound
<1>8. TypeOK'
  BY <1>1, <1>3, <1>4 DEF Inv, TypeOK
<1>9. Live' \subseteq Live
  BY <1>1, <1>3 DEF Live
<1>10. SlotsAreKept'
  BY <1>9, CallAssumption, FewerSlots DEF Inv
<1>11. Frame({}, {k})
  BY <1>1, <1>4, <1>5, <1>6, <1>7, <1>8, <1>10 DEF Frame
<1> QED BY <1>11, FrameKeeps

LEMMA SweepStep ==
    ASSUME Inv, ExpireAskRequests \/ GetExecution
    PROVE  Inv'
<1>1. PICK a : row' = Swept(a) /\ UNCHANGED <<kind, job, at, calls, ended, version>>
  BY DEF ExpireAskRequests, GetExecution
<1>2. \A k \in Key : Kept(k)
  BY <1>1, SweptRows DEF Inv, Kept
<1>3. TypeOK'
  BY <1>1, SweptRows DEF Inv, TypeOK
<1>4. Live' \subseteq Live
  BY <1>1, <1>2 DEF Live, Kept
<1>5. SlotsAreKept'
  BY <1>4, CallAssumption, FewerSlots DEF Inv
<1>6. \A j \in Key : JobIsSound(j)'
  BY <1>1, SoundJobs
<1>7. Frame({}, {})
  BY <1>1, <1>2, <1>3, <1>5, <1>6 DEF Frame
<1> QED BY <1>7, FrameKeeps

LEMMA ChangeStep ==
    ASSUME Inv, Change
    PROVE  Inv'
<1>1. /\ UNCHANGED <<kind, row, job, at, calls, ended>>
      /\ version \in Nat /\ version' = version + 1 /\ version' \in 0..MaxChanges
  BY CallAssumption DEF Change, Inv, TypeOK, CallAssumption
<1>2. TypeOK'
  BY <1>1 DEF Inv, TypeOK
<1>3. ASSUME NEW h \in Handler PROVE Claims(h)' /\ Works(h)' /\ Alone(h)'
  <2>1. at[h].basis \in Nat
    BY DEF Inv, TypeOK, Positions
  <2> QED BY <1>1, <2>1 DEF Inv, Claims, Works, Alone, KindOf, RowOf, HasAnswer
<1>4. ASSUME NEW k \in Key PROVE RowIsSound(k)' /\ JobIsSound(k)'
  <2>1. row[k].basis \in Nat /\ ended[k] \in Nat
    BY DEF Inv, TypeOK, Rows
  <2> QED BY <1>1, <2>1 DEF Inv, RowIsSound, JobIsSound
<1>5. SlotsAreKept'
  BY <1>1 DEF Inv, SlotsAreKept, Live
<1> QED BY <1>2, <1>3, <1>4, <1>5 DEF Inv

-----------------------------------------------------------------------------
(* Claims.                                                                 *)

\* A claim of a key on which nobody works, of a row whose slot is free.
LEMMA ClaimKeeps ==
    ASSUME Inv, NEW h \in Handler, NEW k \in Key, at[h].key = k, at[h].step # "idle",
           row[k].state \in {"new", "queued"}, kind[k] \in {"ask", "execute", "generate"},
           row[k].state = "new" => kind[k] # "generate",
           NEW b \in 0..MaxChanges, b <= version,
           kind[k] = "ask" => at[h].basis = b,
           Moved(h, [step |-> "claimed", key |-> k, basis |-> at[h].basis, says |-> at[h].says]),
           row' \in [Key -> Rows], row'[k] = [state |-> "running", basis |-> b, due |-> "fresh"],
           \A j \in Key : j # k => Kept(j),
           kind[k] = "execute" => Cardinality(Live) < Limit,
           UNCHANGED <<kind, job, calls, ended, version>>
    PROVE  Inv'
<1> DEFINE p == [step |-> "claimed", key |-> k, basis |-> at[h].basis, says |-> at[h].says]
<1>1. at'[h] = p /\ at' \in [Handler -> Positions] /\ \A g \in Handler : g # h => at'[g] = at[g]
  BY DEF Moved
<1>2. \A g \in Handler : ~(at[g].step \in Working /\ at[g].key = k)
  BY DEF Inv, Works, RowOf
<1>3. calls[k] = 0 /\ ended[k] <= version /\ at[h].basis <= version
  BY DEF Inv, RowIsSound, Claims
<1>4. Claims(h)'
  BY <1>1, <1>3 DEF Claims
<1>5. Works(h)'
  <2>1. KindOf(h)' = kind[k] /\ RowOf(h)' = row'[k]
    BY <1>1 DEF KindOf, RowOf
  <2> QED BY <1>1, <1>3, <2>1 DEF Works, HasAnswer
<1>6. Alone(h)'
  BY <1>1, <1>2 DEF Alone
<1>7. RowIsSound(k)'
  BY <1>3 DEF RowIsSound
<1>8. TypeOK'
  BY <1>1 DEF Inv, TypeOK
<1>9. SlotsAreKept'
  <2>1. CASE kind[k] # "execute"
    <3>1. Live' \subseteq Live
      BY <2>1 DEF Live, Kept
    <3> QED BY <3>1, CallAssumption, FewerSlots DEF Inv
  <2>2. CASE kind[k] = "execute"
    <3>1. Live' = Live \union {k}
      BY <2>2 DEF Live, Kept, IsExpired
    <3>2. k \notin Live
      BY DEF Live
    <3>3. IsFiniteSet(Live) /\ Cardinality(Live) < Limit /\ Limit \in Nat
      BY <2>2, CallAssumption DEF Inv, SlotsAreKept, CallAssumption
    <3>4. /\ IsFiniteSet(Live \union {k})
          /\ Cardinality(Live \union {k}) = Cardinality(Live) + 1
          /\ Cardinality(Live) \in Nat
      BY <3>2, <3>3, FS_AddElement, FS_CardinalityType
    <3> QED BY <3>1, <3>3, <3>4 DEF SlotsAreKept
  <2> QED BY <2>1, <2>2
<1>10. \A j \in Key : JobIsSound(j)'
  BY SoundJobs
<1>11. Frame({h}, {k})
  BY <1>1, <1>2, <1>4, <1>5, <1>6, <1>7, <1>8, <1>9, <1>10 DEF Frame
<1> QED BY <1>11, FrameKeeps

LEMMA ClaimAskStep ==
    ASSUME Inv, NEW h \in Handler, ClaimAsk(h)
    PROVE  Inv'
<1> DEFINE k == at[h].key
<1>1. k \in Key /\ kind[k] = "ask" /\ at[h] \in Positions /\ at[h].basis <= version
  BY DEF ClaimAsk, Inv, TypeOK, Claims, KindOf
<1>2. CASE IsTaken(k)
  <2>1. Moved(h, Idle) /\ IsAside(Idle) /\ UNCHANGED <<kind, row, job, calls, ended, version>>
    BY <1>2, Moves, IdleIsAside DEF ClaimAsk, Inv
  <2> QED BY <2>1, SoundJobs, AsideKeeps
<1>3. CASE ~IsTaken(k)
  <2> DEFINE b == at[h].basis
  <2>1. /\ row[k].state = "new" /\ b \in 0..MaxChanges
        /\ row' = [row EXCEPT ![k] = Running(b)] /\ GoTo(h, "claimed")
        /\ UNCHANGED <<kind, job, calls, ended, version>>
    BY <1>1, <1>3 DEF ClaimAsk, IsTaken, Positions
  <2>2. /\ row' \in [Key -> Rows] /\ row'[k] = [state |-> "running", basis |-> b, due |-> "fresh"]
        /\ \A j \in Key : j # k => row'[j] = row[j]
    BY <1>1, <2>1 DEF Running, Inv, TypeOK, Rows
  <2>3. Moved(h, [step |-> "claimed", key |-> k, basis |-> at[h].basis, says |-> at[h].says])
    BY <2>1, Moves DEF Inv, Steps
  <2>4. \A j \in Key : j # k => Kept(j)
    BY <2>1, <2>2 DEF Kept
  <2>5. at[h].step # "idle"
    BY DEF ClaimAsk
  <2> QED BY <1>1, <2>1, <2>2, <2>3, <2>4, <2>5, ClaimKeeps
<1> QED BY <1>2, <1>3

LEMMA ClaimExecutionStep ==
    ASSUME Inv, NEW h \in Handler, ClaimExecution(h)
    PROVE  Inv'
<1> DEFINE k == at[h].key
<1>1. k \in Key /\ kind[k] = "execute" /\ at[h] \in Positions /\ at[h].basis <= version
  BY DEF ClaimExecution, Inv, TypeOK, Claims, KindOf
<1>2. Moved(h, Idle) \/ Moved(h, [step |-> "claimed", key |-> k, basis |-> at[h].basis, says |-> at[h].says])
  BY Moves DEF ClaimExecution, Inv, Steps
<1>3. UNCHANGED <<kind, job, calls, ended, version>> /\ at[h].step # "idle"
  BY DEF ClaimExecution
<1>4. CASE ClaimRefused(h)
  <2>1. Moved(h, Idle) /\ IsAside(Idle) /\ UNCHANGED row
    BY <1>4, Moves, IdleIsAside DEF ClaimExecution, Inv
  <2> QED BY <1>3, <2>1, SoundJobs, AsideKeeps
<1>5. CASE ~ClaimRefused(h) /\ IsTaken(k)
  <2>1. Moved(h, Idle) /\ IsAside(Idle) /\ row' = Swept("execute")
    BY <1>5, Moves, IdleIsAside DEF ClaimExecution, Inv
  <2>2. Claims(h)' /\ Works(h)' /\ Alone(h)'
    BY <1>3, <2>1, Aside
  <2>3. \A j \in Key : Kept(j)
    BY <1>3, <2>1, SweptRows DEF Inv, Kept
  <2>4. TypeOK'
    BY <1>3, <2>1, SweptRows DEF Inv, TypeOK, Moved
  <2>5. Live' \subseteq Live
    BY <1>3, <2>3 DEF Live, Kept
  <2>6. SlotsAreKept'
    BY <2>5, CallAssumption, FewerSlots DEF Inv
  <2>7. \A j \in Key : JobIsSound(j)'
    BY <1>3, SoundJobs
  <2>8. Frame({h}, {})
    BY <1>3, <2>1, <2>2, <2>3, <2>4, <2>6, <2>7 DEF Frame, Moved
  <2> QED BY <2>8, FrameKeeps
<1>6. CASE ~ClaimRefused(h) /\ ~IsTaken(k)
  <2>1. /\ row[k].state = "new" /\ at[h].basis = version
        /\ ~(Cardinality(RunningIn(Swept("execute"))) >= Limit)
        /\ row' = [Swept("execute") EXCEPT ![k] = Running(version)] /\ GoTo(h, "claimed")
    BY <1>6 DEF ClaimExecution, ClaimRefused, IsTaken
  <2>2. RunningIn(Swept("execute")) = Live
    <3>1. ASSUME NEW j \in Key, kind[j] = "execute"
          PROVE  Swept("execute")[j].state = "running" <=> row[j].state = "running" /\ row[j].due # "expired"
      BY <3>1, SweptRows DEF Inv, IsExpired
    <3> QED BY <3>1 DEF RunningIn, Live
  <2>3. Cardinality(Live) < Limit
    BY <2>1, <2>2, CallAssumption, FS_CardinalityType DEF Inv, SlotsAreKept, CallAssumption
  <2>4. /\ row' \in [Key -> Rows] /\ row'[k] = [state |-> "running", basis |-> version, due |-> "fresh"]
        /\ \A j \in Key : j # k => row'[j] = Swept("execute")[j]
    <3> DEFINE new == [state |-> "running", basis |-> version, due |-> "fresh"]
               old == Swept("execute")
    <3>1. new \in Rows /\ Running(version) = new /\ old \in [Key -> Rows]
      BY SweptRows DEF Inv, TypeOK, Rows, Running
    <3>2. row' = [old EXCEPT ![k] = new]
      BY <2>1, <3>1
    <3> HIDE DEF new, old
    <3>3. row' \in [Key -> Rows] /\ row'[k] = new /\ \A j \in Key : j # k => row'[j] = old[j]
      BY <1>1, <3>1, <3>2
    <3> QED BY <3>3 DEF new, old
  <2>5. \A j \in Key : j # k => Kept(j)
    BY <1>3, <2>4, SweptRows DEF Inv, Kept
  <2>6. Moved(h, [step |-> "claimed", key |-> k, basis |-> at[h].basis, says |-> at[h].says])
    BY <2>1, Moves DEF Inv, Steps
  <2>7. version \in 0..MaxChanges /\ version <= version
    BY DEF Inv, TypeOK
  <2> QED BY <1>1, <1>3, <2>1, <2>3, <2>4, <2>5, <2>6, <2>7, ClaimKeeps
<1> QED BY <1>4, <1>5, <1>6

-----------------------------------------------------------------------------
(* The row of a generation that is given up or refused.                    *)

\* A handler steps aside and sets the state of its key, on which nobody works
\* unless the new state is "unknown".
LEMMA ClosesKeeps ==
    ASSUME Inv, NEW h \in Handler, NEW k \in Key, NEW p, Moved(h, p), IsAside(p),
           NEW s \in {"unknown", "failed"}, SetTo(k, s), kind[k] = "generate",
           row[k].state \in {"queued", "running"},
           s = "failed" => row[k].state = "queued",
           UNCHANGED <<kind, job, calls, ended, version>>
    PROVE  Inv'
<1>1. Claims(h)' /\ Works(h)' /\ Alone(h)'
  BY Aside
<1>2. /\ row' \in [Key -> Rows] /\ row'[k].state = s /\ row'[k].basis = row[k].basis /\ row'[k].due = row[k].due
      /\ \A j \in Key : j # k => row'[j] = row[j]
  BY DEF SetTo
<1>3. ASSUME NEW g \in Handler \ {h}, at[g].step \in Working, at[g].key = k
      PROVE  Works(g)'
  <2>1. Works(g) /\ at'[g] = at[g]
    BY DEF Inv, Moved
  <2>2. KindOf(g)' = kind[k] /\ RowOf(g)' = row'[k] /\ KindOf(g) = kind[k] /\ RowOf(g) = row[k]
    BY <1>3, <2>1 DEF KindOf, RowOf
  <2>3. s = "unknown"
    BY <1>3, <2>1, <2>2 DEF Works
  <2> QED BY <1>2, <1>3, <2>1, <2>2, <2>3 DEF Works, HasAnswer
<1>4. RowIsSound(k)'
  BY <1>2 DEF Inv, RowIsSound
<1>5. \A j \in Key \ {k} : Kept(j)
  BY <1>2 DEF Kept
<1>6. Live' \subseteq Live
  BY <1>2 DEF Live
<1>7. SlotsAreKept'
  BY <1>6, CallAssumption, FewerSlots DEF Inv
<1>8. TypeOK'
  BY <1>2 DEF Inv, TypeOK, Moved
<1>9. \A j \in Key : JobIsSound(j)'
  BY SoundJobs
<1>10. Frame({h}, {k})
  BY <1>1, <1>3, <1>4, <1>5, <1>7, <1>8, <1>9 DEF Frame, Moved
<1> QED BY <1>10, FrameKeeps

\* A handler steps aside and changes nothing else.
LEMMA GoesAside ==
    ASSUME Inv, NEW h \in Handler, at[h].step # "idle", KindOf(h) = "generate",
           \/ GoTo(h, "refused")
           \/ \E r \in Settled : EndsWith(h, r)
    PROVE  \E p : Moved(h, p) /\ IsAside(p)
<1>1. at[h].says \in Settled
  BY DEF Inv, TypeOK, Positions
<1>2. CASE GoTo(h, "refused")
  <2> DEFINE p == [step |-> "refused", key |-> at[h].key, basis |-> at[h].basis, says |-> at[h].says]
  <2>1. Moved(h, p)
    BY <1>2, Moves DEF Inv, Steps
  <2>2. IsAside(p)
    BY <1>1, PlaceIsAside
  <2> QED BY <2>1, <2>2
<1>3. ASSUME NEW r \in Settled, EndsWith(h, r) PROVE \E p : Moved(h, p) /\ IsAside(p)
  <2> DEFINE p == [step |-> "ending", key |-> at[h].key, basis |-> at[h].basis, says |-> r]
  <2>1. Moved(h, p)
    BY <1>3, Moves DEF Inv
  <2>2. IsAside(p)
    BY PlaceIsAside
  <2> QED BY <2>1, <2>2
<1> QED BY <1>2, <1>3

LEMMA ClaimGenerationStep ==
    ASSUME Inv, NEW h \in Handler, ClaimGeneration(h)
    PROVE  Inv'
<1> DEFINE k == at[h].key
<1>1. k \in Key /\ kind[k] = "generate" /\ KindOf(h) = "generate" /\ at[h].step # "idle"
  BY DEF ClaimGeneration, Inv, Claims, KindOf
<1>2. UNCHANGED <<kind, job, calls, ended, version>>
  BY DEF ClaimGeneration
<1>3. "succeeded" \in Settled /\ "failed" \in Settled /\ "unknown" \in Settled
  BY DEF Settled, Results
<1>4. CASE row' = [row EXCEPT ![k].state = "unknown"] /\ GivesUp(RowOf(h).state) /\ EndsWith(h, "succeeded")
  <2>1. SetTo(k, "unknown") /\ row[k].state = "running"
    BY <1>1, <1>3, <1>4, SetsState DEF Inv, GivesUp, RowOf
  <2>2. PICK p : Moved(h, p) /\ IsAside(p)
    BY <1>1, <1>3, <1>4, GoesAside
  <2> QED BY <1>1, <1>2, <2>1, <2>2, ClosesKeeps
<1>5. CASE UNCHANGED row /\ (GoTo(h, "refused") \/ EndsWith(h, "succeeded") \/ EndsWith(h, "failed"))
  <2>1. PICK p : Moved(h, p) /\ IsAside(p)
    BY <1>1, <1>3, <1>5, GoesAside
  <2> QED BY <1>2, <1>5, <2>1, SoundJobs, AsideKeeps
<1>6. CASE RowOf(h).state = "queued" /\ row' = [row EXCEPT ![k] = Running(@.basis)] /\ GoTo(h, "claimed")
  <2> DEFINE b == row[k].basis
  <2>1. row[k] \in Rows /\ row[k].state = "queued" /\ b \in 0..MaxChanges /\ b <= version
    BY <1>1, <1>6 DEF Inv, TypeOK, Rows, RowIsSound, RowOf
  <2>2. /\ row' \in [Key -> Rows] /\ row'[k] = [state |-> "running", basis |-> b, due |-> "fresh"]
        /\ \A j \in Key : j # k => row'[j] = row[j]
    BY <1>1, <1>6, <2>1 DEF Running, Inv, TypeOK, Rows
  <2>3. Moved(h, [step |-> "claimed", key |-> k, basis |-> at[h].basis, says |-> at[h].says])
    BY <1>6, Moves DEF Inv, Steps
  <2>4. \A j \in Key : j # k => Kept(j)
    BY <1>2, <2>2 DEF Kept
  <2> QED BY <1>1, <1>2, <2>1, <2>2, <2>3, <2>4, ClaimKeeps
<1> QED BY <1>4, <1>5, <1>6 DEF ClaimGeneration

LEMMA FinishRefusedStep ==
    ASSUME Inv, NEW h \in Handler, FinishRefused(h)
    PROVE  Inv'
<1> DEFINE k == at[h].key
<1>1. k \in Key /\ kind[k] = "generate" /\ KindOf(h) = "generate" /\ at[h].step # "idle"
  BY DEF FinishRefused, Inv, Claims, KindOf
<1>2. UNCHANGED <<kind, job, calls, ended, version>>
  BY DEF FinishRefused
<1>3. "succeeded" \in Settled /\ "failed" \in Settled
  BY DEF Settled, Results
<1>4. PICK p : Moved(h, p) /\ IsAside(p)
  BY <1>1, <1>3, GoesAside DEF FinishRefused
<1>5. CASE UNCHANGED row
  BY <1>2, <1>4, <1>5, SoundJobs, AsideKeeps
<1>6. CASE RowOf(h).state = "queued" /\ row' = [row EXCEPT ![k].state = "failed"]
  <2>1. SetTo(k, "failed") /\ row[k].state = "queued"
    BY <1>1, <1>3, <1>6, SetsState DEF Inv, RowOf
  <2> QED BY <1>1, <1>2, <1>4, <2>1, ClosesKeeps
<1> QED BY <1>5, <1>6 DEF FinishRefused

-----------------------------------------------------------------------------
(* The call and its outcome.                                               *)

\* A handler that goes on with the work on its key, writing at most the call
\* and the time of its answer.
LEMMA WorkKeeps ==
    ASSUME Inv, NEW h \in Handler, at[h].step \in Working,
           NEW s \in Working, NEW r \in Settled,
           Moved(h, [step |-> s, key |-> at[h].key, basis |-> at[h].basis, says |-> r]),
           Works(h)',
           calls' \in [Key -> 0..2], ended' \in [Key -> 0..MaxChanges],
           calls'[at[h].key] <= 1, ended'[at[h].key] <= version,
           \A j \in Key : j # at[h].key => calls'[j] = calls[j] /\ ended'[j] = ended[j],
           UNCHANGED <<kind, row, job, version>>
    PROVE  Inv'
<1>0. PICK k : k = at[h].key
  OBVIOUS
<1>1. k \in Key /\ Works(h) /\ Claims(h) /\ Alone(h) /\ RowOf(h) = row[k]
  BY <1>0 DEF Inv, Claims, Working, RowOf
<1>2. /\ at'[h].step = s /\ at'[h].key = k /\ at'[h].basis = at[h].basis
      /\ \A g \in Handler : g # h => at'[g] = at[g]
  BY <1>0 DEF Moved
<1>3. Claims(h)'
  BY <1>0, <1>1, <1>2 DEF Claims, Working
<1>4. Alone(h)'
  BY <1>0, <1>1, <1>2 DEF Alone
<1>5. \A g \in Handler \ {h} : ~(at[g].step \in Working /\ at[g].key = k)
  BY <1>0, <1>1 DEF Alone
<1>6. RowIsSound(k)'
  <2>1. row[k].state \in {"running", "unknown"}
    BY <1>0, <1>1 DEF Works
  <2> QED BY <1>0, <1>1, <2>1 DEF Inv, RowIsSound
<1>7. \A j \in Key \ {k} : Kept(j)
  BY <1>0 DEF Kept
<1>8. SlotsAreKept'
  BY DEF Inv, SlotsAreKept, Live
<1>9. TypeOK'
  BY DEF Inv, TypeOK, Moved
<1>10. \A j \in Key : JobIsSound(j)'
  BY SoundJobs
<1>11. \A g \in Handler \ {h} : at'[g] = at[g]
  BY <1>2
<1>12. \A g \in {h} : Claims(g)' /\ Works(g)' /\ Alone(g)'
  BY <1>3, <1>4
<1>13. \A g \in Handler \ {h} : at[g].step \in Working /\ at[g].key \in {k} => Works(g)'
  BY <1>5
<1>14. UNCHANGED <<kind, version>>
  OBVIOUS
<1>15. Frame({h}, {k})
  BY ONLY <1>6, <1>7, <1>8, <1>9, <1>10, <1>11, <1>12, <1>13, <1>14 DEF Frame
<1> QED BY <1>1, <1>15, FrameKeeps

\* What one that works knows.
LEMMA Worker ==
    ASSUME Inv, NEW h \in Handler, at[h].step \in Working
    PROVE  /\ at[h].key \in Key /\ KindOf(h) \in {"ask", "execute", "generate"}
           /\ KindOf(h) = kind[at[h].key] /\ RowOf(h) = row[at[h].key]
           /\ at[h].says \in Settled /\ at[h].basis \in Nat /\ row[at[h].key].basis \in Nat
           /\ row[at[h].key].basis <= version
           /\ ended[at[h].key] \in Nat /\ ended[at[h].key] <= version /\ version \in 0..MaxChanges
           /\ calls[at[h].key] \in 0..1
<1>1. Claims(h) /\ at[h].key \in Key
  BY DEF Inv, Claims, Working
<1>2. kind[at[h].key] \in Kinds
  BY <1>1, CallAssumption DEF Inv, TypeOK, CallAssumption
<1>3. KindOf(h) \in {"ask", "execute", "generate"}
  BY <1>2 DEF Inv, Works, KindOf, Kinds
<1> QED BY <1>1, <1>3 DEF Inv, TypeOK, Positions, Rows, RowIsSound, KindOf, RowOf

LEMMA DoWithoutStep ==
    ASSUME Inv, NEW h \in Handler, DoWithout(h)
    PROVE  Inv'
<1>1. at[h].step = "claimed" /\ at[h].step \in Working /\ UNCHANGED <<kind, row, job, calls, ended, version>>
  BY DEF DoWithout, Working
<1>2. PICK r \in WithoutCall(KindOf(h)) : Settling(h, r)
  BY DEF DoWithout
<1>3. r \in Settled /\ r # "succeeded"
  BY <1>1, Worker DEF WithoutCall, Settled, Results
<1>4. Moved(h, [step |-> "settling", key |-> at[h].key, basis |-> at[h].basis, says |-> r])
  BY <1>2, <1>3, Moves DEF Inv
<1>5. Works(h)'
  BY <1>1, <1>3, <1>4 DEF Inv, Works, HasAnswer, Moved, KindOf, RowOf, Working
<1> QED BY <1>1, <1>3, <1>4, <1>5, Worker, WorkKeeps DEF Inv, TypeOK, Working

LEMMA CallStep ==
    ASSUME Inv, NEW h \in Handler, Call(h)
    PROVE  Inv'
<1> DEFINE k == at[h].key
<1>1. at[h].step = "claimed" /\ at[h].step \in Working /\ UNCHANGED <<kind, row, job, ended, version>>
  BY DEF Call, Working
<1>2. calls[k] = 0 /\ k \in Key
  BY <1>1, Worker DEF Inv, Works
<1>3. calls' \in [Key -> 0..2] /\ calls'[k] = 1 /\ \A j \in Key : j # k => calls'[j] = calls[j]
  BY <1>2 DEF Call, Inv, TypeOK
<1>4. Moved(h, [step |-> "calling", key |-> k, basis |-> at[h].basis, says |-> at[h].says])
  BY Moves DEF Call, Inv, Steps
<1>5. KindOf(h) = "execute" => row[k].due = "fresh"
  BY DEF Call, MayCall, RowOf
<1>6. Works(h)'
  BY <1>1, <1>3, <1>4, <1>5 DEF Inv, Works, HasAnswer, Moved, KindOf, RowOf, Working
<1> QED BY <1>1, <1>3, <1>4, <1>6, Worker, WorkKeeps DEF Inv, TypeOK, Working

LEMMA AnswerStep ==
    ASSUME Inv, NEW h \in Handler, Answer(h)
    PROVE  Inv'
<1> DEFINE k == at[h].key
<1>1. at[h].step = "calling" /\ at[h].step \in Working /\ UNCHANGED <<kind, row, job, calls, version>>
  BY DEF Answer, Working
<1>2. ended' \in [Key -> 0..MaxChanges] /\ ended'[k] = version /\ \A j \in Key : j # k => ended'[j] = ended[j]
  BY <1>1, Worker DEF Answer, Inv, TypeOK
<1>3. PICK s \in {"answered", "settling"}, r \in Settled :
        /\ Moved(h, [step |-> s, key |-> k, basis |-> at[h].basis, says |-> r])
        /\ s = "settling" => r # "succeeded"
  <2>1. CASE GoTo(h, "answered")
    BY <1>1, <2>1, Moves, Worker DEF Inv, Steps
  <2>2. ASSUME NEW r \in Interrupted(KindOf(h)), Settling(h, r)
        PROVE  /\ r \in Settled /\ r # "succeeded"
               /\ Moved(h, [step |-> "settling", key |-> k, basis |-> at[h].basis, says |-> r])
    <3>1. r \in Settled /\ r # "succeeded"
      BY <1>1, Worker DEF Interrupted, Settled, Results
    <3> QED BY <2>2, <3>1, Moves DEF Inv
  <2> QED BY <2>1, <2>2 DEF Answer
<1>4. Works(h)'
  <2>1. Works(h) /\ row[k].basis <= version /\ version <= version
    BY <1>1, Worker DEF Inv
  <2> QED BY <1>1, <1>2, <1>3, <2>1 DEF Works, HasAnswer, Moved, KindOf, RowOf, Working
<1>5. s \in Working
  BY DEF Working
<1> QED BY <1>1, <1>2, <1>3, <1>4, <1>5, Worker, WorkKeeps DEF Inv, TypeOK

LEMMA JudgeStep ==
    ASSUME Inv, NEW h \in Handler, Judge(h)
    PROVE  Inv'
<1> DEFINE k == at[h].key
<1>1. at[h].step = "answered" /\ at[h].step \in Working /\ UNCHANGED <<kind, row, job, calls, ended, version>>
  BY DEF Judge, Working
<1>2. PICK r \in Verdicts(h) : Settling(h, r)
  BY DEF Judge
<1>3. r \in Settled /\ (r = "succeeded" /\ KindOf(h) = "ask" => at[h].basis = version)
  BY <1>1, Worker DEF Verdicts, Settled, Results
<1>4. Moved(h, [step |-> "settling", key |-> k, basis |-> at[h].basis, says |-> r])
  BY <1>2, <1>3, Moves DEF Inv
<1>5. HasAnswer(h) /\ Works(h)
  BY <1>1 DEF HasAnswer, Inv
<1>6. r = "succeeded" /\ kind[k] = "ask" => ended[k] = row[k].basis
  BY <1>1, <1>3, <1>5, Worker DEF Works
<1>7. Works(h)'
  BY <1>1, <1>4, <1>5, <1>6 DEF Works, HasAnswer, Moved, KindOf, RowOf, Working
<1> QED BY <1>1, <1>3, <1>4, <1>7, Worker, WorkKeeps DEF Inv, TypeOK, Working

\* What Finish writes is an outcome, and success only of an answer that came
\* while what the request rests on was the same.
LEMMA WhatIsWritten ==
    ASSUME Inv, NEW h \in Handler, at[h].step = "settling"
    PROVE  LET k == at[h].key
               w == Written(k, at[h].says)
           IN  /\ w \in Settled
               /\ row[k].state # "running" => w = row[k].state
               /\ w = "succeeded" =>
                    /\ row[k].state = "running" /\ calls[k] = 1
                    /\ kind[k] # "execute" => ended[k] = row[k].basis
<1> DEFINE k == at[h].key
           w == Written(k, at[h].says)
<1>1. at[h].step \in Working /\ Works(h)
  BY DEF Working, Inv
<1>2. row[k].state \in {"running", "unknown"} /\ KindOf(h) = kind[k] /\ RowOf(h) = row[k]
  BY <1>1, Worker DEF Works
<1>3. Recorded(k, at[h].says) \in {"unknown", "failed", at[h].says}
  BY DEF Recorded
<1>4. w \in Settled
  BY <1>1, <1>2, <1>3, Worker DEF Written, Settled, Results
<1>5. ASSUME w = "succeeded"
      PROVE  /\ row[k].state = "running" /\ calls[k] = 1
             /\ kind[k] # "execute" => ended[k] = row[k].basis
  <2>1. row[k].state = "running" /\ Recorded(k, at[h].says) = "succeeded"
    BY <1>2, <1>5 DEF Written
  <2>2. at[h].says = "succeeded" /\ ~IsStale(k)
    BY <2>1 DEF Recorded
  <2>3. HasAnswer(h)
    BY <2>2 DEF HasAnswer
  <2>4. calls[k] = 1 /\ row[k].basis <= ended[k]
    BY <1>1, <1>2, <2>3 DEF Works
  <2>5. CASE kind[k] = "ask"
    BY <1>1, <1>2, <2>1, <2>2, <2>4, <2>5 DEF Works
  <2>6. CASE kind[k] = "generate"
    <3>1. row[k].basis = version
      BY <2>2, <2>6 DEF IsStale
    <3>2. ended[k] = row[k].basis
      BY <1>1, <2>4, <3>1, Worker
    <3> QED BY <2>1, <2>4, <3>2
  <2> QED BY <1>1, <2>1, <2>4, <2>5, <2>6, Worker
<1> QED BY <1>4, <1>5 DEF Written

LEMMA FinishStep ==
    ASSUME Inv, NEW h \in Handler, Finish(h)
    PROVE  Inv'
<1>0. PICK k : k = at[h].key
  OBVIOUS
<1> DEFINE w == Written(k, at[h].says)
<1>1. at[h].step = "settling" /\ at[h].step \in Working /\ UNCHANGED <<kind, job, calls, ended, version>>
  BY DEF Finish, Working
<1>2. k \in Key /\ Alone(h)
  BY <1>0, <1>1, Worker DEF Inv
<1>3. PICK p : Moved(h, p) /\ IsAside(p)
  BY <1>1, Leaves DEF Finish, Settled, Results
<1>4. Claims(h)' /\ Works(h)' /\ Alone(h)'
  BY <1>1, <1>3, Aside
<1>5. /\ w \in Settled
      /\ row[k].state # "running" => w = row[k].state
      /\ w = "succeeded" /\ kind[k] # "execute" => ended[k] = row[k].basis
  BY <1>0, <1>1, WhatIsWritten
<1> HIDE DEF w
<1>6. SetTo(k, w)
  <2>1. row' = [row EXCEPT ![k].state = w]
    BY <1>0 DEF Finish, w
  <2> QED BY <1>2, <1>5, <2>1, SetsState DEF Inv
<1>7. /\ row' \in [Key -> Rows] /\ row'[k].state = w /\ row'[k].basis = row[k].basis /\ row'[k].due = row[k].due
      /\ \A j \in Key : j # k => row'[j] = row[j]
  BY <1>6 DEF SetTo
<1>8. \A g \in Handler \ {h} : ~(at[g].step \in Working /\ at[g].key = k)
  BY <1>0, <1>1, <1>2 DEF Alone
<1>9. RowIsSound(k)'
  <2>1. w \notin {"new", "queued"}
    BY <1>5 DEF Settled, Results
  <2> QED BY <1>1, <1>2, <1>5, <1>7, <2>1 DEF Inv, RowIsSound
<1>10. \A j \in Key \ {k} : Kept(j)
  BY <1>1, <1>7 DEF Kept
<1>11. Live' \subseteq Live
  BY <1>1, <1>5, <1>7 DEF Live
<1>12. SlotsAreKept'
  BY <1>11, CallAssumption, FewerSlots DEF Inv
<1>13. TypeOK'
  BY <1>1, <1>3, <1>7 DEF Inv, TypeOK, Moved
<1>14. \A j \in Key : JobIsSound(j)'
  BY <1>1, SoundJobs
<1>15. \A g \in Handler \ {h} : at'[g] = at[g]
  BY <1>3 DEF Moved
<1>16. Frame({h}, {k})
  BY <1>1, <1>4, <1>8, <1>9, <1>10, <1>12, <1>13, <1>14, <1>15 DEF Frame
<1> QED BY <1>2, <1>16, FrameKeeps

-----------------------------------------------------------------------------
(* The invariant, and what it says.                                        *)

LEMMA InitInv == Init => Inv
<1> SUFFICES ASSUME Init PROVE Inv
  OBVIOUS
<1> USE CallAssumption DEF CallAssumption
<1>1. TypeOK
  <2>1. Idle \in Positions /\ New \in Rows /\ NoJob \in Jobs
    BY DEF Idle, Positions, Steps, Settled, Results, New, Rows, NoJob, Jobs
  <2> QED BY <2>1 DEF Init, TypeOK
<1>2. \A h \in Handler : Claims(h) /\ Works(h) /\ Alone(h)
  BY DEF Init, Idle, Claims, Works, Alone, Working
<1>3. \A k \in Key : RowIsSound(k) /\ JobIsSound(k)
  BY DEF Init, New, NoJob, RowIsSound, JobIsSound
<1>4. SlotsAreKept
  <2>1. Live = {}
    BY DEF Init, New, Live
  <2> QED BY <2>1, FS_EmptySet DEF SlotsAreKept
<1> QED BY <1>1, <1>2, <1>3, <1>4 DEF Inv

LEMMA NextInv ==
    ASSUME Inv, [Next]_vars
    PROVE  Inv'
<1>1. CASE UNCHANGED vars
  BY <1>1 DEF vars, Inv, TypeOK, Claims, Works, Alone, KindOf, RowOf, HasAnswer, RowIsSound, JobIsSound,
              SlotsAreKept, Live
<1>2. ASSUME NEW k \in Key, Time(k) \/ Queue(k) \/ LoseLease(k) PROVE Inv'
  BY <1>2, TimeStep, QueueStep, LoseLeaseStep
<1>3. ASSUME NEW h \in Handler, Proceed(h) PROVE Inv'
  BY <1>3, ClaimAskStep, ClaimExecutionStep, ClaimGenerationStep, LeaveStep, FinishRefusedStep, EndJobStep,
     DoWithoutStep, CallStep, AnswerStep, JudgeStep, FinishStep, FinishFailsStep DEF Proceed
<1>4. ASSUME NEW h \in Handler, Crash(h) \/ \E k \in Key : Begin(h, k) \/ Lease(h, k) PROVE Inv'
  BY <1>4, LeaveStep, BeginStep, LeaseStep
<1>5. ASSUME ExpireAskRequests \/ GetExecution \/ Change PROVE Inv'
  BY <1>5, SweepStep, ChangeStep
<1> QED BY <1>1, <1>2, <1>3, <1>4, <1>5 DEF Next

LEMMA Invariance == Spec => []Inv
<1>1. Init => Inv
  BY InitInv
<1>2. Inv /\ [Next]_vars => Inv'
  BY NextInv
<1> QED BY <1>1, <1>2, PTL DEF Spec

\* Every row, job and handler has its type in every state; no job is attempted
\* more often than its attempts allow.
THEOREM Types == Spec => []TypeOK
<1>1. Inv => TypeOK
  BY DEF Inv
<1> QED BY <1>1, Invariance, PTL

\* However many handlers there are, and whatever they lose or leave behind, no
\* more queries of the workspace run at once than the limit says: each has a
\* key of its own whose row still holds a slot.
THEOREM LimitIsKept == Spec => []WithinTheLimit
<1>1. Inv => WithinTheLimit
  <2> SUFFICES ASSUME Inv PROVE WithinTheLimit
    OBVIOUS
  <2> DEFINE H == {h \in Handler : at[h].step = "calling" /\ KindOf(h) = "execute"}
             keyOf == [h \in H |-> at[h].key]
  <2>1. ASSUME NEW h \in H PROVE at[h].key \in Live
    <3>1. at[h].step \in Working /\ Works(h)
      BY DEF Working, Inv
    <3> QED BY <3>1, Worker DEF Works, Live
  <2>2. \A g, h \in H : at[g].key = at[h].key => g = h
    BY DEF Inv, Alone, Working
  <2>3. keyOf \in Injection(H, Live)
    BY <2>1, <2>2 DEF Injection, IsInjective
  <2>4. IsFiniteSet(Live) /\ Cardinality(Live) <= Limit
    BY DEF Inv, SlotsAreKept
  <2> HIDE DEF H, keyOf
  <2>5. IsFiniteSet(H) /\ Cardinality(H) <= Cardinality(Live)
    BY <2>3, <2>4, FS_Injection DEF ExistsInjection
  <2>6. Cardinality(H) \in Nat /\ Cardinality(Live) \in Nat /\ Limit \in Nat
    BY <2>4, <2>5, FS_CardinalityType, CallAssumption DEF CallAssumption
  <2>7. Cardinality(H) <= Limit
    BY <2>4, <2>5, <2>6
  <2> QED BY <2>7 DEF H, WithinTheLimit
<1> QED BY <1>1, Invariance, PTL

-----------------------------------------------------------------------------
(* The refinement of CallContract.                                         *)

\* The contract's variables, as Contract maps them.
Outcome(k) == IF row[k].state \in {"queued", "running"} THEN "open" ELSE row[k].state
outcomes == [k \in Key |-> Outcome(k)]
called == [k \in Key |-> calls[k] > 0]

\* A step the contract does not see.
Unseen == (\A k \in Key : row'[k].state = row[k].state) /\ UNCHANGED calls

LEMMA UnseenMaps ==
    ASSUME Unseen
    PROVE  UNCHANGED Contract!contractVars
<1>1. \A k \in Key : Outcome(k)' = Outcome(k)
  BY DEF Unseen, Outcome
<1>2. outcomes' = outcomes /\ called' = called
  BY <1>1 DEF outcomes, called, Unseen
<1> QED BY <1>2 DEF outcomes, called, Outcome, Contract!contractVars

LEMMA OpenMaps ==
    ASSUME NEW k \in Key, row[k].state = "new", row'[k].state \in {"queued", "running"},
           \A j \in Key : j # k => row'[j].state = row[j].state, UNCHANGED calls
    PROVE  Contract!Open(k)
<1>1. Outcome(k) = "new" /\ Outcome(k)' = "open" /\ \A j \in Key : j # k => Outcome(j)' = Outcome(j)
  BY DEF Outcome
<1>2. outcomes[k] = "new" /\ outcomes' = [outcomes EXCEPT ![k] = "open"] /\ called' = called
  BY <1>1 DEF outcomes, called
<1> QED BY <1>2 DEF outcomes, called, Outcome, Contract!Open

LEMMA CallMaps ==
    ASSUME NEW k \in Key, row[k].state \in {"queued", "running", "unknown"}, calls[k] = 0, calls'[k] = 1,
           \A j \in Key : j # k => calls'[j] = calls[j], UNCHANGED row
    PROVE  Contract!Call(k)
<1>1. Outcome(k) \in {"open", "unknown"}
  BY DEF Outcome
<1>2. outcomes[k] \in {"open", "unknown"} /\ outcomes' = outcomes
  BY <1>1 DEF outcomes, Outcome
<1>3. ~called[k]
  <2>1. ~(calls[k] > 0)
    OBVIOUS
  <2> QED BY <2>1, Zenon DEF called
<1>4. called' = [called EXCEPT ![k] = TRUE]
  <2>1. \A j \in Key : (calls'[j] > 0) = (IF j = k THEN TRUE ELSE calls[j] > 0)
    <3>1. calls'[k] > 0 /\ \A j \in Key : j # k => calls'[j] = calls[j]
      OBVIOUS
    <3>2. (calls'[k] > 0) = TRUE
      BY <3>1
    <3> QED BY <3>1, <3>2, Zenon
  <2>2. called' = [j \in Key |-> IF j = k THEN TRUE ELSE calls[j] > 0]
    BY <2>1, Zenon DEF called
  <2>3. [called EXCEPT ![k] = TRUE] = [j \in Key |-> IF j = k THEN TRUE ELSE calls[j] > 0]
    BY Zenon DEF called
  <2> QED BY <2>2, <2>3
<1> QED BY <1>2, <1>3, <1>4, Zenon DEF outcomes, called, Outcome, Contract!Call

LEMMA GiveUpMaps ==
    ASSUME NEW K \in SUBSET Key, \A k \in K : row[k].state \in {"queued", "running"} /\ row'[k].state = "unknown",
           \A j \in Key \ K : row'[j].state = row[j].state, UNCHANGED calls
    PROVE  Contract!GiveUp(K)
<1>1. /\ \A k \in K : Outcome(k) = "open" /\ Outcome(k)' = "unknown"
      /\ \A j \in Key \ K : Outcome(j)' = Outcome(j)
  BY DEF Outcome
<1>2. /\ \A k \in K : outcomes[k] = "open"
      /\ outcomes' = [k \in Key |-> IF k \in K THEN "unknown" ELSE outcomes[k]]
      /\ called' = called
  BY <1>1 DEF outcomes, called
<1> QED BY <1>2 DEF outcomes, called, Outcome, Contract!GiveUp

LEMMA SettleMaps ==
    ASSUME NEW k \in Key, NEW result \in Contract!Known, row[k].state \in {"queued", "running"},
           row'[k].state = result, result = "succeeded" => calls[k] = 1,
           \A j \in Key : j # k => row'[j].state = row[j].state, UNCHANGED calls
    PROVE  Contract!Settle(k, result)
<1>1. Outcome(k) = "open" /\ Outcome(k)' = result /\ \A j \in Key : j # k => Outcome(j)' = Outcome(j)
  BY DEF Outcome, Contract!Known
<1>2. outcomes[k] = "open" /\ outcomes' = [outcomes EXCEPT ![k] = result] /\ called' = called
  BY <1>1 DEF outcomes, called
<1>3. result = "succeeded" => called[k]
  <2>1. result = "succeeded" => calls[k] > 0
    OBVIOUS
  <2> QED BY <2>1, Zenon DEF called
<1> QED BY <1>2, <1>3, Zenon DEF outcomes, called, Outcome, Contract!Settle

LEMMA GiveUpAndOpenMaps ==
    ASSUME NEW K \in SUBSET Key, NEW k \in Key, row[k].state = "new", row'[k].state \in {"queued", "running"},
           \A j \in K : row[j].state \in {"queued", "running"} /\ row'[j].state = "unknown",
           \A j \in Key : j # k /\ j \notin K => row'[j].state = row[j].state, UNCHANGED calls
    PROVE  Contract!GiveUpAndOpen(K, k)
<1>1. /\ Outcome(k) = "new" /\ Outcome(k)' = "open"
      /\ \A j \in K : Outcome(j) = "open" /\ Outcome(j)' = "unknown"
      /\ \A j \in Key : j # k /\ j \notin K => Outcome(j)' = Outcome(j)
  BY DEF Outcome
<1>2. /\ \A j \in K : outcomes[j] = "open"
      /\ outcomes[k] = "new"
      /\ outcomes' = [j \in Key |-> CASE j = k -> "open" [] j \in K -> "unknown" [] OTHER -> outcomes[j]]
      /\ called' = called
  BY <1>1 DEF outcomes, called
<1> QED BY <1>2 DEF outcomes, called, Outcome, Contract!GiveUpAndOpen

\* A sweep gives up what is expired.
LEMMA SweepMaps ==
    ASSUME Inv, NEW a, row' = Swept(a), UNCHANGED calls
    PROVE  \E K \in SUBSET Key : Contract!GiveUp(K)
<1>1. PICK K \in SUBSET Key : K = {k \in Key : kind[k] = a /\ IsExpired(k)}
  OBVIOUS
<1>2. \A k \in K : row[k].state \in {"queued", "running"} /\ row'[k].state = "unknown"
  BY <1>1, SweptRows DEF Inv, IsExpired
<1>3. \A j \in Key \ K : row'[j].state = row[j].state
  BY <1>1, SweptRows DEF Inv
<1>4. Contract!GiveUp(K)
  BY <1>2, <1>3, GiveUpMaps
<1> QED BY <1>4

Mapped == Contract!ContractNext \/ UNCHANGED Contract!contractVars

LEMMA ClaimExecutionMaps ==
    ASSUME Inv, NEW h \in Handler, ClaimExecution(h)
    PROVE  Mapped
<1>0. PICK k : k = at[h].key
  OBVIOUS
<1>1. k \in Key /\ kind[k] = "execute" /\ UNCHANGED calls
  BY <1>0 DEF ClaimExecution, Inv, Claims, KindOf
<1>2. CASE UNCHANGED row
  <2>1. Unseen
    BY <1>1, <1>2 DEF Unseen
  <2> QED BY <2>1, UnseenMaps DEF Mapped
<1>3. CASE row' = Swept("execute")
  BY <1>1, <1>3, SweepMaps DEF Mapped, Contract!ContractNext
<1>4. CASE ~IsTaken(k) /\ row' = [Swept("execute") EXCEPT ![k] = Running(version)]
  <2> DEFINE K == {j \in Key : kind[j] = "execute" /\ IsExpired(j)}
  <2>1. row[k].state = "new" /\ k \notin K
    BY <1>4 DEF IsTaken, IsExpired
  <2>2. row'[k].state = "running" /\ \A j \in Key : j # k => row'[j] = Swept("execute")[j]
    <3> DEFINE old == Swept("execute")
    <3>1. old \in [Key -> Rows] /\ row' = [old EXCEPT ![k] = Running(version)]
      BY <1>4, SweptRows DEF Inv
    <3> HIDE DEF old
    <3>2. row'[k] = Running(version) /\ \A j \in Key : j # k => row'[j] = old[j]
      BY <1>1, <3>1
    <3> QED BY <3>2 DEF old, Running
  <2>3. /\ \A j \in K : row[j].state \in {"queued", "running"} /\ row'[j].state = "unknown"
        /\ \A j \in Key : j # k /\ j \notin K => row'[j].state = row[j].state
    BY <2>1, <2>2, SweptRows DEF Inv, IsExpired
  <2>4. K \in SUBSET Key
    OBVIOUS
  <2> HIDE DEF K
  <2>5. Contract!GiveUpAndOpen(K, k)
    BY <1>1, <2>1, <2>2, <2>3, <2>4, GiveUpAndOpenMaps
  <2> QED BY <1>1, <2>4, <2>5 DEF Mapped, Contract!ContractNext
<1> QED BY <1>0, <1>2, <1>3, <1>4 DEF ClaimExecution

\* One key is set to a state, or left as it is.
LEMMA SetToMaps ==
    ASSUME Inv, NEW k \in Key, NEW s \in Settled, SetTo(k, s), UNCHANGED calls,
           row[k].state \in {"queued", "running"} \/ row[k].state = s,
           row[k].state # s /\ s = "succeeded" => calls[k] = 1
    PROVE  Mapped
<1>1. row'[k].state = s /\ \A j \in Key : j # k => row'[j].state = row[j].state
  BY DEF SetTo
<1>2. CASE row[k].state = s
  <2>1. Unseen
    BY <1>1, <1>2 DEF Unseen
  <2> QED BY <2>1, UnseenMaps DEF Mapped
<1>3. CASE row[k].state # s /\ s = "unknown"
  <2>1. Contract!GiveUp({k})
    BY <1>1, <1>3, GiveUpMaps
  <2> QED BY <2>1 DEF Mapped, Contract!ContractNext
<1>4. CASE row[k].state # s /\ s # "unknown"
  <2>1. s \in Contract!Known
    BY <1>4 DEF Contract!Known, Settled, Results
  <2>2. Contract!Settle(k, s)
    BY <1>1, <1>4, <2>1, SettleMaps
  <2> QED BY <2>1, <2>2 DEF Mapped, Contract!ContractNext
<1> QED BY <1>2, <1>3, <1>4

LEMMA StepMaps ==
    ASSUME Inv, [Next]_vars
    PROVE  Mapped
<1>1. ASSUME Unseen PROVE Mapped
  BY <1>1, UnseenMaps DEF Mapped
<1>2. CASE UNCHANGED <<row, calls>>
  BY <1>1, <1>2 DEF Unseen
<1>3. ASSUME NEW k \in Key, Time(k) PROVE Mapped
  <2>1. Unseen
    BY <1>3 DEF Time, CallDeadlinePasses, RowDeadlinePasses, Unseen, Inv, TypeOK, Rows
  <2> QED BY <1>1, <2>1
<1>4. ASSUME NEW k \in Key, Queue(k) PROVE Mapped
  <2>1. row'[k].state = "queued" /\ \A j \in Key : j # k => row'[j] = row[j]
    <3>1. [New EXCEPT !.state = "queued", !.basis = version].state = "queued"
      BY DEF New
    <3> QED BY <1>4, <3>1 DEF Queue, Inv, TypeOK
  <2>2. Contract!Open(k)
    BY <1>4, <2>1, OpenMaps DEF Queue
  <2> QED BY <2>2 DEF Mapped, Contract!ContractNext
<1>5. CASE ExpireAskRequests \/ GetExecution
  BY <1>5, SweepMaps DEF ExpireAskRequests, GetExecution, Mapped, Contract!ContractNext
<1>6. ASSUME NEW h \in Handler, ClaimAsk(h), row' # row PROVE Mapped
  <2>0. PICK k : k = at[h].key
    OBVIOUS
  <2>1. /\ k \in Key /\ row[k].state = "new" /\ row' = [row EXCEPT ![k] = Running(at[h].basis)]
        /\ UNCHANGED calls
    BY <1>6, <2>0 DEF ClaimAsk, IsTaken, Inv, Claims
  <2>2. row'[k].state = "running" /\ \A j \in Key : j # k => row'[j] = row[j]
    BY <2>1 DEF Running, Inv, TypeOK
  <2>3. Contract!Open(k)
    BY <2>1, <2>2, OpenMaps
  <2> QED BY <2>1, <2>3 DEF Mapped, Contract!ContractNext
<1>7. ASSUME NEW h \in Handler, ClaimExecution(h) PROVE Mapped
  BY <1>7, ClaimExecutionMaps
<1>8. ASSUME NEW h \in Handler, ClaimGeneration(h), row' # row PROVE Mapped
  <2>0. PICK k : k = at[h].key
    OBVIOUS
  <2>1. k \in Key /\ UNCHANGED calls /\ RowOf(h) = row[k]
    BY <1>8, <2>0 DEF ClaimGeneration, Inv, Claims, RowOf
  <2>2. CASE GivesUp(row[k].state) /\ row' = [row EXCEPT ![k].state = "unknown"]
    <3>1. SetTo(k, "unknown") /\ "unknown" \in Settled
      BY <2>1, <2>2, SetsState DEF Inv, Settled
    <3> QED BY <2>1, <2>2, <3>1, SetToMaps DEF GivesUp
  <2>3. CASE row[k].state = "queued" /\ row' = [row EXCEPT ![k] = Running(@.basis)]
    <3>1. Unseen \/ Mapped
      <4>1. row'[k].state = "running" /\ \A j \in Key : j # k => row'[j] = row[j]
        BY <2>1, <2>3 DEF Running, Inv, TypeOK
      <4>2. Outcome(k)' = Outcome(k) /\ \A j \in Key : j # k => Outcome(j)' = Outcome(j)
        BY <2>3, <4>1 DEF Outcome
      <4>3. outcomes' = outcomes /\ called' = called
        BY <2>1, <4>2 DEF outcomes, called
      <4> QED BY <4>3 DEF outcomes, called, Outcome, Contract!contractVars, Mapped
    <3> QED BY <1>1, <3>1
  <2> QED BY <1>8, <2>0, <2>1, <2>2, <2>3 DEF ClaimGeneration
<1>9. ASSUME NEW h \in Handler, FinishRefused(h), row' # row PROVE Mapped
  <2>0. PICK k : k = at[h].key
    OBVIOUS
  <2>1. /\ k \in Key /\ UNCHANGED calls /\ row[k].state = "queued"
        /\ row' = [row EXCEPT ![k].state = "failed"] /\ "failed" \in Settled
    BY <1>9, <2>0 DEF FinishRefused, Inv, Claims, RowOf, Settled, Results
  <2>2. SetTo(k, "failed")
    BY <2>1, SetsState DEF Inv
  <2> QED BY <2>1, <2>2, SetToMaps
<1>10. ASSUME NEW h \in Handler, Call(h) PROVE Mapped
  <2>0. PICK k : k = at[h].key
    OBVIOUS
  <2>1. /\ k \in Key /\ calls' = [calls EXCEPT ![k] = @ + 1] /\ UNCHANGED row
        /\ calls[k] = 0 /\ row[k].state \in {"running", "unknown"}
    BY <1>10, <2>0 DEF Call, Inv, Works, Working, Claims, RowOf
  <2>2. calls'[k] = 1 /\ \A j \in Key : j # k => calls'[j] = calls[j]
    BY <2>1 DEF Inv, TypeOK
  <2>3. Contract!Call(k)
    BY <2>1, <2>2, CallMaps
  <2> QED BY <2>1, <2>3 DEF Mapped, Contract!ContractNext
<1>11. ASSUME NEW h \in Handler, Finish(h) PROVE Mapped
  <2>0. PICK k : k = at[h].key
    OBVIOUS
  <2> DEFINE w == Written(k, at[h].says)
  <2>1. k \in Key /\ UNCHANGED calls /\ row' = [row EXCEPT ![k].state = w]
    BY <1>11, <2>0 DEF Finish, Inv, Claims
  <2>2. /\ w \in Settled
        /\ row[k].state # "running" => w = row[k].state
        /\ w = "succeeded" => calls[k] = 1
    BY <1>11, <2>0, WhatIsWritten DEF Finish
  <2> HIDE DEF w
  <2>3. SetTo(k, w)
    BY <2>1, <2>2, SetsState DEF Inv
  <2> QED BY <2>1, <2>2, <2>3, SetToMaps
<1> QED
  BY <1>2, <1>3, <1>4, <1>5, <1>6, <1>7, <1>8, <1>9, <1>10, <1>11
     DEF Next, vars, LoseLease, Proceed, LeaseIsLost, EndJob, DoWithout, Answer, Judge, FinishFails, Crash,
         Begin, Lease, Change, ClaimAsk, ClaimGeneration, FinishRefused

\* Whatever its handlers, leases, jobs and sweeps do, a request keeps the
\* contract: it is called for at most once, its outcome is written once and is
\* no success without the call, no call follows an outcome that is known, and
\* an answer of a model counts only on the basis it was asked on.
THEOREM CallsKeepTheirPromise == Spec => KeepsItsPromise
<1>1. Init => Contract!ContractInit
  <2> SUFFICES ASSUME Init PROVE Contract!ContractInit
    OBVIOUS
  <2>1. \A k \in Key : Outcome(k) = "new" /\ ~(calls[k] > 0)
    BY DEF Init, New, Outcome
  <2>2. outcomes = [k \in Key |-> "new"]
    BY <2>1 DEF outcomes
  <2>3. called = [k \in Key |-> FALSE]
    <3>1. \A k \in Key : (calls[k] > 0) = FALSE
      BY <2>1
    <3> QED BY <3>1, Zenon DEF called
  <2> QED BY <2>2, <2>3, Zenon DEF outcomes, called, Outcome, Contract!ContractInit
<1>2. Inv /\ [Next]_vars => [Contract!ContractNext]_(Contract!contractVars)
  BY StepMaps DEF Mapped
<1>3. Inv => CallsOnce /\ SucceededOnItsBasis
  BY DEF Inv, RowIsSound, CallsOnce, SucceededOnItsBasis
<1> QED BY <1>1, <1>2, <1>3, Invariance, PTL DEF Spec, KeepsItsPromise, Contract!ContractSpec

=============================================================================
