-------------------------- MODULE Production_proofs -------------------------
(***************************************************************************)
(* Theorems about Production, for any operations, people, identities and   *)
(* bounds: what is released is entitled to it, rollbacks are exact, the    *)
(* registry follows the manifest and verdicts are final.                   *)
(***************************************************************************)
EXTENDS Production, TLAPS

\* An operation that was submitted exists, and one that has a verdict or waits
\* for it was submitted.
Begun(o) ==
    /\ operation[o].frozen => operation[o].version > 0
    /\ operation[o].status # "none" => operation[o].frozen /\ operation[o].attempt > 0

\* What is part of an operation is reserved, and whoever reserved it is known.
Drawn(t) ==
    /\ \A o \in Operation : operation[o].members[t] # "none" => reservation[t].owner # None
    /\ reservation[t].owner # None => reservation[t].creation # None

\* An operation that nothing changes any more: the manifest has moved on from
\* its base, and nothing of it is left to be decided.
IsPublished(o) ==
    /\ operation[o].frozen /\ operation[o].status = "succeeded" /\ operation[o].base < Latest
    /\ \A t \in Target : operation[o].members[t] \in {"none", "released"}

\* What a release follows from: it pins what the release before it does but
\* for the targets of a published operation, and a rollback follows a release
\* of the same operation.
Line(n) ==
    /\ releases[n].kind # "ordinary" =>
        /\ releases[n].op \in Operation /\ IsPublished(releases[n].op)
        /\ \A t \in Target \ Targets(releases[n].op) : Pins(n)[t] = Pins(n - 1)[t]
    /\ releases[n].kind = "applied" => releases[n].root = n
    /\ releases[n].kind = "rollback" =>
        /\ n > 1 /\ releases[n].root \in 1 .. n - 1
        /\ releases[n - 1].kind # "ordinary" /\ releases[n - 1].op = releases[n].op
        /\ releases[n - 1].root = releases[n].root

Pinned(t) == {n \in DOMAIN releases : Pins(n)[t] # None}
IsNewestPin(n, t) == n \in Pinned(t) /\ \A m \in Pinned(t) : m <= n
HasNewestPin(t) == Pinned(t) = {} \/ \E n \in Pinned(t) : IsNewestPin(n, t)

\* An object keeps the content it had in the newest release that pins it.
ObjectKeeps(t) == \A n \in Pinned(t) : IsNewestPin(n, t) => registry[t] = Pins(n)[t]

Authored == (\A o \in Operation : Begun(o)) /\ (\A t \in Target : Drawn(t))
History == (\A n \in DOMAIN releases : Line(n)) /\ (\A t \in Target : HasNewestPin(t))
Registered == RegistryFollowsManifest /\ \A t \in Object : ObjectKeeps(t)

Inv == TypeOK /\ Authored /\ History /\ ReleaseIsEntitled /\ RollbackIsExact /\ Registered

-----------------------------------------------------------------------------
(* Manifests.                                                              *)

LEMMA Manifests ==
    ASSUME TypeOK
    PROVE  /\ Latest \in 0..MaxReleases /\ DOMAIN releases = 1..Latest
           /\ \A n \in 1..Latest : releases[n] \in ReleaseRows
           /\ \A n \in 0..Latest : Pins(n) \in [Target -> Holders]
<1>1. releases \in Seq(ReleaseRows) /\ Latest <= MaxReleases
  BY DEF TypeOK
<1>2. Latest \in Nat /\ DOMAIN releases = 1..Latest /\ \A n \in 1..Latest : releases[n] \in ReleaseRows
  BY <1>1 DEF Latest
<1>3. ASSUME NEW n \in 0..Latest PROVE Pins(n) \in [Target -> Holders]
  <2>1. CASE n = 0
    BY <2>1 DEF Pins, Holders
  <2>2. CASE n # 0
    BY <1>2, <2>2 DEF Pins, ReleaseRows
  <2> QED BY <2>1, <2>2
<1> QED BY <1>1, <1>2, <1>3, ProductionAssumption DEF ProductionAssumption

-----------------------------------------------------------------------------
(* Rows of operations.                                                     *)

\* A row that keeps all but its members, and one that keeps all but its
\* members and its verdict.
SameBut(new, old) ==
    /\ new.version = old.version /\ new.base = old.base /\ new.frozen = old.frozen
    /\ new.supersedes = old.supersedes /\ new.attempt = old.attempt

LEMMA MembersRow ==
    ASSUME NEW row \in OperationRows, NEW m \in [Target -> MemberStates]
    PROVE  LET new == [row EXCEPT !.members = m] IN
           new \in OperationRows /\ SameBut(new, row) /\ new.status = row.status /\ new.members = m
  BY DEF OperationRows, SameBut

SealedAs(row, v, m) == [row EXCEPT !.status = v, !.members = m]

LEMMA SealedRow ==
    ASSUME NEW row \in OperationRows, NEW m \in [Target -> MemberStates], NEW v \in Ended
    PROVE  LET new == SealedAs(row, v, m) IN
           new \in OperationRows /\ SameBut(new, row) /\ new.status = v /\ new.members = m
<1> DEFINE r1 == [row EXCEPT !.status = v]
<1>1. r1 \in OperationRows /\ SameBut(r1, row) /\ r1.status = v
  BY DEF OperationRows, SameBut
<1> HIDE DEF r1
<1>2. LET new == [r1 EXCEPT !.members = m] IN
      new \in OperationRows /\ SameBut(new, r1) /\ new.status = r1.status /\ new.members = m
  BY <1>1, MembersRow
<1>3. LET new == [r1 EXCEPT !.members = m] IN
      new \in OperationRows /\ SameBut(new, row) /\ new.status = v /\ new.members = m
  BY <1>1, <1>2 DEF SameBut
<1> QED BY <1>3 DEF r1, SealedAs

LEMMA QueuedRow ==
    ASSUME NEW row \in OperationRows, NEW m \in [Target -> MemberStates]
    PROVE  LET new == [row EXCEPT !.frozen = TRUE, !.members = m, !.attempt = row.attempt + 1, !.status = "queued"] IN
           /\ new \in OperationRows
           /\ new.version = row.version /\ new.base = row.base /\ new.supersedes = row.supersedes
           /\ new.frozen = TRUE /\ new.members = m /\ new.attempt = row.attempt + 1 /\ new.status = "queued"
<1> DEFINE r1 == [row EXCEPT !.frozen = TRUE, !.members = m]
<1>1. /\ r1 \in OperationRows
      /\ r1.version = row.version /\ r1.base = row.base /\ r1.supersedes = row.supersedes
      /\ r1.frozen = TRUE /\ r1.members = m
  BY DEF OperationRows
<1> DEFINE n == row.attempt + 1
<1>2. n \in Nat
  BY DEF OperationRows
<1> HIDE DEF r1, n
<1>3. LET new == [r1 EXCEPT !.attempt = n, !.status = "queued"] IN
           /\ new \in OperationRows
           /\ new.version = r1.version /\ new.base = r1.base /\ new.supersedes = r1.supersedes
           /\ new.frozen = r1.frozen /\ new.members = r1.members /\ new.attempt = n /\ new.status = "queued"
  BY <1>1, <1>2 DEF OperationRows
<1>4. LET new == [r1 EXCEPT !.attempt = n, !.status = "queued"] IN
           /\ new \in OperationRows
           /\ new.version = row.version /\ new.base = row.base /\ new.supersedes = row.supersedes
           /\ new.frozen = TRUE /\ new.members = m /\ new.attempt = n /\ new.status = "queued"
  BY <1>1, <1>3
<1> QED BY <1>4 DEF r1, n

DrawnAs(row, v, b, m) ==
    [row EXCEPT !.version = v, !.base = b, !.members = m, !.frozen = FALSE, !.attempt = 0, !.status = "none"]

IsDraftRow(new, v, m) ==
    new \in OperationRows /\ new.version = v /\ new.frozen = FALSE /\ new.members = m /\ new.status = "none"

LEMMA DrawnRow ==
    ASSUME NEW row \in OperationRows, NEW v \in Nat, NEW b \in 0..MaxReleases, NEW m \in [Target -> MemberStates]
    PROVE  IsDraftRow(DrawnAs(row, v, b, m), v, m)
<1> DEFINE r1 == [row EXCEPT !.version = v, !.base = b]
<1>1. r1 \in OperationRows /\ r1.version = v
  BY DEF OperationRows
<1> HIDE DEF r1
<1> DEFINE r2 == [r1 EXCEPT !.members = m, !.frozen = FALSE]
<1>2. r2 \in OperationRows /\ r2.version = v /\ r2.members = m /\ r2.frozen = FALSE
  BY <1>1 DEF OperationRows
<1> HIDE DEF r2
<1> DEFINE r3 == [r2 EXCEPT !.attempt = 0, !.status = "none"]
<1>3. r3 \in OperationRows /\ r3.version = v /\ r3.frozen = FALSE /\ r3.members = m /\ r3.status = "none"
  BY <1>2 DEF OperationRows
<1> QED BY <1>3 DEF r1, r2, r3, DrawnAs, IsDraftRow

CreatedAs(b, q, m) == [NoOperation EXCEPT !.version = 1, !.base = b, !.supersedes = q, !.members = m]

LEMMA CreatedRow ==
    ASSUME NEW b \in 0..MaxReleases, NEW q \in Holders, NEW m \in [Target -> MemberStates]
    PROVE  LET new == CreatedAs(b, q, m) IN
           /\ new \in OperationRows
           /\ new.version = 1 /\ new.frozen = FALSE /\ new.members = m /\ new.status = "none"
<1> DEFINE row == NoOperation
<1>1. row \in OperationRows /\ row.frozen = FALSE /\ row.status = "none"
  BY ProductionAssumption DEF ProductionAssumption, NoOperation, OperationRows, MemberStates, Holders
<1> HIDE DEF row
<1> DEFINE r1 == [row EXCEPT !.version = 1, !.base = b]
<1>2. r1 \in OperationRows /\ r1.version = 1 /\ r1.frozen = FALSE /\ r1.status = "none"
  BY <1>1 DEF OperationRows
<1> HIDE DEF r1
<1> DEFINE r2 == [r1 EXCEPT !.supersedes = q, !.members = m]
<1>3. r2 \in OperationRows /\ r2.version = 1 /\ r2.frozen = FALSE /\ r2.members = m /\ r2.status = "none"
  BY <1>2 DEF OperationRows
<1> QED BY <1>3 DEF row, r1, r2, CreatedAs

-----------------------------------------------------------------------------
(* Commands that leave the manifests and the registry alone.               *)

\* What nothing changes about a published operation: its row and its authors
\* stay, and its reviews are kept.
Stays(o) ==
    /\ operation'[o] = operation[o] /\ contributors'[o] = contributors[o]
    /\ approvals[o] \subseteq approvals'[o]
PublishedStays == \A o \in Operation : IsPublished(o) => Stays(o)
Undisturbed == UNCHANGED <<registry, releases>> /\ PublishedStays

\* What VerdictIsFinal says of a step.
Judged(o) ==
    LET old == operation[o]
        new == operation'[o]
    IN  /\ old.status \in Ended /\ <<new.status, new.members>> # <<old.status, old.members>> =>
            \/ new.status = "queued" /\ new.attempt = old.attempt + 1
            \/ new.status = old.status /\ \A t \in Target : new.members[t] \in {old.members[t], "released", "rejected"}
        /\ old.status = "queued" /\ new.status # "queued" =>
            \E w \in Worker :
                /\ working[w] # None /\ working[w].op = o /\ working[w].attempt = old.attempt
                /\ new.status = "succeeded" => working[w].passes /\ old.base = Latest

AllJudged == \A o \in Operation : Judged(o)

LEMMA NoRowChanges ==
    ASSUME TypeOK, UNCHANGED operation
    PROVE  AllJudged
<1>1. ASSUME NEW o \in Operation PROVE Judged(o)
  BY DEF Judged
<1> QED BY <1>1 DEF AllJudged

\* A step that changes one row of operations, but for what it judges.
OneRow(o, new) ==
    /\ operation' = [operation EXCEPT ![o] = new]
    /\ UNCHANGED <<contributors, reservation, registry, releases>>
    /\ \A q \in Operation : approvals[q] \subseteq approvals'[q]
    /\ new.frozen => new.version > 0
    /\ new.status # "none" => new.frozen /\ new.attempt > 0
    /\ \A t \in Target : new.members[t] # "none" => operation[o].members[t] # "none"
    /\ IsPublished(o) => new = operation[o]

LEMMA OneRowChanges ==
    ASSUME TypeOK, Authored, NEW o \in Operation, NEW new \in OperationRows, OneRow(o, new)
    PROVE  /\ operation' \in [Operation -> OperationRows]
           /\ operation'[o] = new /\ \A q \in Operation \ {o} : operation'[q] = operation[q]
           /\ Authored' /\ Undisturbed
<1>1. /\ operation' \in [Operation -> OperationRows]
      /\ operation'[o] = new /\ \A q \in Operation \ {o} : operation'[q] = operation[q]
  BY DEF OneRow, TypeOK
<1>2. ASSUME NEW q \in Operation PROVE Begun(q)'
  <2>1. Begun(q)
    BY DEF Authored
  <2> QED BY <1>1, <2>1 DEF Begun, OneRow
<1>3. ASSUME NEW t \in Target PROVE Drawn(t)'
  <2>1. Drawn(t) /\ reservation' = reservation
    BY DEF Authored, OneRow
  <2>2. ASSUME NEW q \in Operation, operation'[q].members[t] # "none" PROVE operation[q].members[t] # "none"
    BY <1>1, <2>2 DEF OneRow
  <2> QED BY <2>1, <2>2 DEF Drawn
<1>4. Undisturbed
  BY <1>1 DEF Undisturbed, PublishedStays, Stays, OneRow
<1> QED BY <1>1, <1>2, <1>3, <1>4 DEF Authored

LEMMA Loses ==
    ASSUME Inv, NEW w \in Worker, Lose(w)
    PROVE  TypeOK' /\ Authored' /\ Undisturbed /\ AllJudged
<1>1. TypeOK /\ Authored
  BY DEF Inv
<1>2. TypeOK'
  BY <1>1 DEF TypeOK, Lose, Latest
<1>3. Authored'
  BY <1>1 DEF Authored, Begun, Drawn, Lose
<1>4. Undisturbed
  BY DEF Undisturbed, PublishedStays, Stays, Lose
<1> QED BY <1>1, <1>2, <1>3, <1>4, NoRowChanges DEF Lose

LEMMA Evaluates ==
    ASSUME Inv, NEW w \in Worker, NEW o \in Operation, NEW passes \in BOOLEAN, Evaluate(w, o, passes)
    PROVE  TypeOK' /\ Authored' /\ Undisturbed /\ AllJudged
<1>1. TypeOK /\ Authored
  BY DEF Inv
<1> DEFINE work == [op |-> o, version |-> operation[o].version, attempt |-> operation[o].attempt,
                    passes |-> passes /\ BaselineHolds(o), last |-> job[o] = 1]
<1>2. work \in Works
  <2>1. operation[o] \in OperationRows /\ Begun(o) /\ operation[o].status = "queued"
    BY <1>1 DEF TypeOK, Authored, Evaluate
  <2>2. operation[o].version \in Nat \ {0} /\ operation[o].attempt \in Nat \ {0}
    BY <2>1 DEF OperationRows, Begun
  <2> QED BY <2>2 DEF Works, BaselineHolds
<1>3. TypeOK'
  <2>1. working' \in [Worker -> Works \union {None}]
    BY <1>1, <1>2 DEF TypeOK, Evaluate
  <2>2. job' \in [Operation -> 0..JobAttempts]
    <3>1. job \in [Operation -> 0..JobAttempts] /\ job[o] > 0 /\ JobAttempts \in Nat
      BY <1>1, ProductionAssumption DEF TypeOK, Evaluate, ProductionAssumption
    <3>2. job[o] - 1 \in 0..JobAttempts
      BY <3>1
    <3> QED BY <3>1, <3>2 DEF Evaluate
  <2>3. retries' \in 0..MaxRetries
    BY <1>1, ProductionAssumption DEF TypeOK, Evaluate, ProductionAssumption
  <2> QED BY <1>1, <2>1, <2>2, <2>3 DEF TypeOK, Evaluate, Latest
<1>4. Authored'
  BY <1>1 DEF Authored, Begun, Drawn, Evaluate
<1>5. Undisturbed
  BY DEF Undisturbed, PublishedStays, Stays, Evaluate
<1> QED BY <1>1, <1>3, <1>4, <1>5, NoRowChanges DEF Evaluate

LEMMA Queues ==
    ASSUME Inv, NEW o \in Operation, NEW m \in [Target -> MemberStates], QueueAttempt(o, m),
           operation[o].version > 0, ~IsPublished(o), operation[o].status # "queued",
           \A t \in Target : m[t] # "none" => operation[o].members[t] # "none"
    PROVE  TypeOK' /\ Authored' /\ Undisturbed /\ AllJudged
<1>1. TypeOK /\ Authored /\ operation[o] \in OperationRows
  BY DEF Inv, TypeOK
<1> DEFINE new == [operation[o] EXCEPT !.frozen = TRUE, !.members = m, !.attempt = operation[o].attempt + 1, !.status = "queued"]
<1>2. /\ new \in OperationRows /\ new.version > 0
      /\ new.frozen = TRUE /\ new.members = m /\ new.attempt = operation[o].attempt + 1 /\ new.status = "queued"
  BY <1>1, QueuedRow, ZenonT(60)
<1>3. operation' = [operation EXCEPT ![o] = new]
  BY <1>1 DEF QueueAttempt, TypeOK
<1> HIDE DEF new
<1>4. operation[o].attempt \in Nat
  BY <1>1 DEF OperationRows
<1>5. OneRow(o, new)
  <2>1. UNCHANGED <<contributors, reservation, registry, releases, approvals>>
    BY DEF QueueAttempt
  <2>2. new.attempt > 0
    BY <1>2, <1>4
  <2> QED BY <1>2, <1>3, <2>1, <2>2 DEF OneRow
<1>6. /\ operation' \in [Operation -> OperationRows]
      /\ operation'[o] = new /\ \A q \in Operation \ {o} : operation'[q] = operation[q]
      /\ Authored' /\ Undisturbed
  BY <1>1, <1>2, <1>5, OneRowChanges
<1>7. TypeOK'
  <2>1. job' \in [Operation -> 0..JobAttempts]
    BY <1>1, ProductionAssumption DEF TypeOK, QueueAttempt, ProductionAssumption
  <2> QED BY <1>1, <1>6, <2>1 DEF TypeOK, QueueAttempt, Latest
<1>8. ASSUME NEW q \in Operation PROVE Judged(q)
  <2>1. CASE q = o
    BY <1>2, <1>6, <2>1 DEF Judged
  <2>2. CASE q # o
    BY <1>6, <2>2 DEF Judged
  <2> QED BY <2>1, <2>2
<1> QED BY <1>6, <1>7, <1>8 DEF AllJudged

LEMMA Submits ==
    ASSUME Inv, NEW o \in Operation, Submit(o)
    PROVE  TypeOK' /\ Authored' /\ Undisturbed /\ AllJudged
<1> DEFINE m == [t \in Target |-> IF t \in Targets(o) THEN "validating" ELSE "none"]
<1>1. m \in [Target -> MemberStates] /\ \A t \in Target : m[t] # "none" => operation[o].members[t] # "none"
  BY DEF MemberStates, Targets
<1>2. operation[o] \in OperationRows /\ Begun(o)
  BY DEF Inv, TypeOK, Authored
<1>3. operation[o].version > 0 /\ operation[o].status # "queued" /\ ~IsPublished(o)
  BY <1>2 DEF Submit, Begun, IsPublished
<1>4. QueueAttempt(o, m)
  BY DEF Submit
<1> QED BY <1>1, <1>3, <1>4, Queues

LEMMA ValidatesAgain ==
    ASSUME Inv, NEW o \in Operation, Validate(o)
    PROVE  TypeOK' /\ Authored' /\ Undisturbed /\ AllJudged
<1> DEFINE m == operation[o].members
<1>1. operation[o] \in OperationRows /\ Begun(o)
  BY DEF Inv, TypeOK, Authored
<1>2. m \in [Target -> MemberStates]
  BY <1>1 DEF OperationRows
<1>3. operation[o].version > 0 /\ operation[o].status # "queued"
  BY <1>1 DEF Validate, Begun, Ended
<1>4. ~IsPublished(o)
  BY Manifests DEF Validate, BaselineHolds, IsPublished, Inv
<1> QED BY <1>2, <1>3, <1>4, Queues DEF Validate

LEMMA Seals ==
    ASSUME Inv, NEW w \in Worker, working[w] # None, NEW verdict \in Ended, Seal(working[w], verdict),
           verdict = "succeeded" => Passes(working[w]),
           working' = [working EXCEPT ![w] = None],
           UNCHANGED <<contributors, approvals, reservation, registry, releases, job, retries>>
    PROVE  TypeOK' /\ Authored' /\ Undisturbed /\ AllJudged
<1>1. TypeOK /\ Authored /\ working[w] \in Works
  BY DEF Inv, TypeOK
<1>2. PICK o \in Operation : o = working[w].op
  BY <1>1 DEF Works
<1>3. working' \in [Worker -> Works \union {None}]
  BY <1>1 DEF TypeOK
<1>4. CASE ~IsOpen(working[w])
  <2>1. operation' = operation
    BY <1>4 DEF Seal
  <2>2. TypeOK'
    BY <1>1, <1>3, <2>1 DEF TypeOK, Latest
  <2>3. Authored'
    BY <1>1, <2>1 DEF Authored, Begun, Drawn
  <2>4. Undisturbed
    BY <2>1 DEF Undisturbed, PublishedStays, Stays
  <2> QED BY <1>1, <2>1, <2>2, <2>3, <2>4, NoRowChanges
<1>5. CASE IsOpen(working[w])
  <2> DEFINE m == InReview(operation[o].members)
             new == SealedAs(operation[o], verdict, m)
  <2>1. operation[o] \in OperationRows /\ Begun(o) /\ operation[o].status = "queued"
        /\ operation[o].attempt = working[w].attempt
    BY <1>1, <1>2, <1>5 DEF TypeOK, Authored, IsOpen
  <2>2. m \in [Target -> MemberStates] /\ \A t \in Target : m[t] # "none" => operation[o].members[t] # "none"
    BY <2>1 DEF OperationRows, InReview, MemberStates
  <2>3. operation' = [operation EXCEPT ![o] = new]
    BY <1>1, <1>2, <1>5 DEF Seal, TypeOK, SealedAs
  <2> HIDE DEF m
  <2>4. new \in OperationRows /\ SameBut(new, operation[o]) /\ new.status = verdict /\ new.members = m
    BY <2>1, <2>2, SealedRow
  <2> HIDE DEF new
  <2>5. OneRow(o, new)
    <3>1. ~IsPublished(o)
      BY <2>1 DEF IsPublished
    <3>2. new.frozen /\ new.version > 0 /\ new.attempt > 0
      BY <2>1, <2>4 DEF Begun, SameBut
    <3> QED BY <2>2, <2>3, <2>4, <3>1, <3>2 DEF OneRow
  <2>6. /\ operation' \in [Operation -> OperationRows]
        /\ operation'[o] = new /\ \A q \in Operation \ {o} : operation'[q] = operation[q]
        /\ Authored' /\ Undisturbed
    BY <1>1, <2>4, <2>5, OneRowChanges
  <2>7. TypeOK'
    BY <1>1, <1>3, <2>6 DEF TypeOK, Latest
  <2>8. ASSUME NEW q \in Operation PROVE Judged(q)
    <3>1. CASE q = o
      <4>1. verdict = "succeeded" => working[w].passes /\ operation[o].base = Latest
        BY <1>2 DEF Passes, BaselineHolds
      <4> QED BY <1>2, <2>1, <2>4, <2>6, <3>1, <4>1 DEF Judged, Ended
    <3>2. CASE q # o
      BY <2>6, <3>2 DEF Judged
    <3> QED BY <3>1, <3>2
  <2> QED BY <2>6, <2>7, <2>8 DEF AllJudged
<1> QED BY <1>4, <1>5

LEMMA Completes ==
    ASSUME Inv, NEW w \in Worker, Complete(w)
    PROVE  TypeOK' /\ Authored' /\ Undisturbed /\ AllJudged
<1>1. PICK verdict \in Ended : verdict = IF Passes(working[w]) THEN "succeeded" ELSE "failed"
  BY DEF Ended
<1>2. Seal(working[w], verdict)
  BY <1>1 DEF Complete
<1>3. verdict = "succeeded" => Passes(working[w])
  BY <1>1
<1> QED BY <1>2, <1>3, Seals DEF Complete

LEMMA FailsLast ==
    ASSUME Inv, NEW w \in Worker, FailLast(w)
    PROVE  TypeOK' /\ Authored' /\ Undisturbed /\ AllJudged
<1>1. PICK verdict \in Ended : verdict = "failed"
  BY DEF Ended
<1>2. Seal(working[w], verdict) /\ (verdict = "succeeded" => Passes(working[w]))
  BY <1>1 DEF FailLast
<1> QED BY <1>2, Seals DEF FailLast

LEMMA Approves ==
    ASSUME Inv, NEW p \in Reviewer, NEW o \in Operation, NEW T \in SUBSET Targets(o), Approve(p, o, T)
    PROVE  TypeOK' /\ Authored' /\ Undisturbed /\ AllJudged
<1>1. TypeOK /\ Authored /\ operation[o] \in OperationRows /\ Begun(o)
  BY DEF Inv, TypeOK, Authored
<1> DEFINE new == {<<p, t, operation[o].attempt>> : t \in T}
<1>2. new \subseteq Principal \X Target \X (Nat \ {0})
  <2>1. p \in Principal /\ T \subseteq Target
    BY ProductionAssumption DEF ProductionAssumption, Targets
  <2>2. operation[o].attempt \in Nat \ {0}
    BY <1>1 DEF Approve, Gate, Begun, OperationRows
  <2> QED BY <2>1, <2>2
<1>3. approvals' = [approvals EXCEPT ![o] = approvals[o] \union new] /\ UNCHANGED <<operation, contributors>>
  BY DEF Approve
<1> HIDE DEF new
<1>4. approvals' \in [Operation -> SUBSET (Principal \X Target \X (Nat \ {0}))]
      /\ \A q \in Operation : approvals[q] \subseteq approvals'[q]
  BY <1>1, <1>2, <1>3 DEF TypeOK
<1>5. TypeOK'
  BY <1>1, <1>4 DEF TypeOK, Approve, Latest
<1>6. Authored'
  BY <1>1 DEF Authored, Begun, Drawn, Approve
<1>7. Undisturbed
  BY <1>3, <1>4 DEF Undisturbed, PublishedStays, Stays, Approve
<1> QED BY <1>1, <1>3, <1>5, <1>6, <1>7, NoRowChanges

LEMMA Rejects ==
    ASSUME Inv, NEW p \in Reviewer, NEW o \in Operation, NEW T \in (SUBSET Targets(o)) \ {{}}, Reject(p, o, T)
    PROVE  TypeOK' /\ Authored' /\ Undisturbed /\ AllJudged
<1>1. TypeOK /\ Authored /\ operation[o] \in OperationRows /\ Begun(o)
  BY DEF Inv, TypeOK, Authored
<1> DEFINE m == [t \in Target |-> IF t \in T THEN "rejected" ELSE operation[o].members[t]]
           new == [operation[o] EXCEPT !.members = m]
<1>2. m \in [Target -> MemberStates] /\ \A t \in Target : m[t] # "none" => operation[o].members[t] # "none"
  BY <1>1 DEF OperationRows, MemberStates, Targets
<1>3. operation' = [operation EXCEPT ![o] = new]
  BY <1>1 DEF Reject, TypeOK
<1>4. \A t \in Target : m[t] \in {operation[o].members[t], "released", "rejected"}
  OBVIOUS
<1> HIDE DEF m
<1>5. new \in OperationRows /\ SameBut(new, operation[o]) /\ new.status = operation[o].status /\ new.members = m
  BY <1>1, <1>2, MembersRow
<1> HIDE DEF new
<1>6. OneRow(o, new)
  <2>1. ~IsPublished(o)
    <3>1. T # {} /\ T \subseteq Target
      BY DEF Targets
    <3>2. PICK t \in T : TRUE
      BY <3>1
    <3>3. operation[o].members[t] = "in_review"
      BY <3>2 DEF Reject, MayReview
    <3> QED BY <3>1, <3>2, <3>3 DEF IsPublished
  <2> QED BY <1>1, <1>2, <1>3, <1>5, <2>1 DEF OneRow, SameBut, Begun, Reject
<1>7. /\ operation' \in [Operation -> OperationRows]
      /\ operation'[o] = new /\ \A q \in Operation \ {o} : operation'[q] = operation[q]
      /\ Authored' /\ Undisturbed
  BY <1>1, <1>5, <1>6, OneRowChanges
<1>8. TypeOK'
  BY <1>1, <1>7 DEF TypeOK, Reject, Latest
<1>9. ASSUME NEW q \in Operation PROVE Judged(q)
  <2>1. CASE q = o
    BY <1>4, <1>5, <1>7, <2>1 DEF Judged
  <2>2. CASE q # o
    BY <1>7, <2>2 DEF Judged
  <2> QED BY <2>1, <2>2
<1> QED BY <1>7, <1>8, <1>9 DEF AllJudged

-----------------------------------------------------------------------------
(* Authoring.                                                              *)

LEMMA Reserves ==
    ASSUME TypeOK, Authored, NEW o \in Operation, NEW q \in Holders, NEW T \in SUBSET Target
    PROVE  /\ Reserved(o, q, T) \in [Target -> [creation: Holders, owner: Holders]]
           /\ \A t \in Target :
                /\ t \in T \/ reservation[t].owner # None => Reserved(o, q, T)[t].owner # None
                /\ Reserved(o, q, T)[t].owner # None => Reserved(o, q, T)[t].creation # None
<1>1. o # None /\ o \in Holders
  BY ProductionAssumption DEF ProductionAssumption, Holders
<1> DEFINE row(t) == Reserved(o, q, T)[t]
<1>2. ASSUME NEW t \in Target
      PROVE  /\ row(t) \in [creation: Holders, owner: Holders]
             /\ t \in T \/ reservation[t].owner # None => row(t).owner # None
             /\ row(t).owner # None => row(t).creation # None
  <2>1. reservation[t] \in [creation: Holders, owner: Holders] /\ (reservation[t].owner # None => reservation[t].creation # None)
    BY DEF TypeOK, Authored, Drawn
  <2>2. \/ row(t) = reservation[t] /\ (t \in T => reservation[t].owner # None)
        \/ row(t) = [creation |-> o, owner |-> o]
        \/ row(t) = [reservation[t] EXCEPT !.owner = o] /\ reservation[t].owner # None
    BY DEF Reserved
  <2> QED BY <1>1, <2>1, <2>2
<1>3. Reserved(o, q, T) \in [Target -> [creation: Holders, owner: Holders]]
  <2>1. \E f : Reserved(o, q, T) = [t \in Target |-> f[t]]
    <3> DEFINE f == Reserved(o, q, T)
    <3>1. f = [t \in Target |-> f[t]]
      BY DEF Reserved
    <3> QED BY <3>1
  <2> QED BY <1>2, <2>1
<1> QED BY <1>2, <1>3

LEMMA InheritedPrincipals ==
    ASSUME Inv, NEW T \in SUBSET Target
    PROVE  Inherited(T) \subseteq Principal
<1>1. /\ TypeOK /\ Latest \in Nat /\ DOMAIN releases = 1..Latest
      /\ \A n \in 1..Latest : releases[n] \in ReleaseRows
  BY Manifests DEF Inv
<1>2. ASSUME NEW t \in T, NEW c \in AbsenceProof(t)
      PROVE  releases[c].op \in Operation /\ reservation[t].creation \in Operation
  <2>1. /\ c \in DOMAIN releases /\ releases[c].kind = "applied" /\ t \in Target
        /\ Pins(c - 1)[t] # Pins(c)[t]
    BY DEF AbsenceProof
  <2>2. Line(c) /\ Drawn(t)
    BY <2>1 DEF Inv, History, Authored
  <2>3. releases[c].op \in Operation /\ t \in Targets(releases[c].op)
    BY <2>1, <2>2 DEF Line
  <2>4. reservation[t].creation # None
    BY <2>2, <2>3 DEF Drawn, Targets
  <2>5. reservation[t].creation \in Holders
    BY <1>1, <2>1 DEF TypeOK
  <2> QED BY <2>3, <2>4, <2>5 DEF Holders
<1>3. ASSUME NEW x \in Inherited(T) PROVE x \in Principal
  <2> DEFINE again == Reintroduced(T)
             by == {reservation[t].creation : t \in again}
                     \union {releases[c].op : c \in UNION {AbsenceProof(t) : t \in again}}
  <2>1. PICK o \in by : x \in contributors[o]
    BY <1>3 DEF Inherited
  <2>2. o \in Operation
    <3>1. CASE \E t \in again : o = reservation[t].creation
      <4>1. PICK t \in T : AbsenceProof(t) # {} /\ o = reservation[t].creation
        BY <3>1 DEF Reintroduced
      <4> QED BY <1>2, <4>1
    <3>2. CASE \E t \in again : \E c \in AbsenceProof(t) : o = releases[c].op
      BY <1>2, <3>2 DEF Reintroduced
    <3> QED BY <2>1, <3>1, <3>2
  <2> QED BY <1>1, <2>1, <2>2 DEF TypeOK
<1> QED BY <1>3

LEMMA DrawsRows ==
    ASSUME TypeOK, Authored, NEW o \in Operation, NEW q \in Holders, NEW T \in SUBSET Target, NEW new \in OperationRows,
           new.frozen = FALSE, new.status = "none", new.members = Draft(T), reservation' = Reserved(o, q, T),
           operation' \in [Operation -> OperationRows], operation'[o] = new,
           \A r \in Operation \ {o} : operation'[r].frozen = operation[r].frozen /\ operation'[r].version = operation[r].version
                /\ operation'[r].status = operation[r].status /\ operation'[r].attempt = operation[r].attempt
                /\ \A t \in Target : operation'[r].members[t] # "none" => operation[r].members[t] # "none"
    PROVE  Authored'
<1>1. ASSUME NEW r \in Operation PROVE Begun(r)'
  BY DEF Authored, Begun
<1>2. ASSUME NEW t \in Target PROVE Drawn(t)'
  <2>1. /\ t \in T \/ reservation[t].owner # None => reservation'[t].owner # None
        /\ reservation'[t].owner # None => reservation'[t].creation # None
    BY Reserves
  <2>2. ASSUME NEW r \in Operation, operation'[r].members[t] # "none" PROVE reservation'[t].owner # None
    <3>1. CASE r = o
      BY <2>1, <2>2, <3>1 DEF Draft
    <3>2. CASE r # o
      <4>1. operation[r].members[t] # "none" /\ Drawn(t)
        BY <2>2, <3>2 DEF Authored
      <4> QED BY <2>1, <4>1 DEF Drawn
    <3> QED BY <3>1, <3>2
  <2> QED BY <2>1, <2>2 DEF Drawn
<1> QED BY <1>1, <1>2 DEF Authored

LEMMA Drafts ==
    ASSUME NEW T \in SUBSET Target
    PROVE  Draft(T) \in [Target -> MemberStates]
  BY DEF Draft, MemberStates

LEMMA ReplacesDraft ==
    ASSUME Inv, NEW p \in Author, NEW o \in Operation, NEW T \in Proposed, ReplaceDraft(p, o, T)
    PROVE  TypeOK' /\ Authored' /\ Undisturbed /\ AllJudged
<1>1. TypeOK /\ Authored /\ operation[o] \in OperationRows /\ Begun(o)
  BY DEF Inv, TypeOK, Authored
<1>2. T \in SUBSET Target /\ p \in Principal /\ None \in Holders
  BY ProductionAssumption DEF ProductionAssumption, Holders
<1>3. Latest \in 0..MaxReleases /\ operation[o].version + 1 \in Nat /\ Draft(T) \in [Target -> MemberStates]
  BY <1>1, <1>2, Manifests, Drafts DEF OperationRows
<1> DEFINE new == DrawnAs(operation[o], operation[o].version + 1, Latest, Draft(T))
<1>4. operation' = [operation EXCEPT ![o] = new]
  BY <1>1 DEF ReplaceDraft, TypeOK, DrawnAs
<1>5. new \in OperationRows /\ new.frozen = FALSE /\ new.members = Draft(T) /\ new.status = "none"
  <2>1. PICK row \in OperationRows, v \in Nat, b \in 0..MaxReleases, m \in [Target -> MemberStates] :
          row = operation[o] /\ v = operation[o].version + 1 /\ b = Latest /\ m = Draft(T)
    BY <1>1, <1>3
  <2>2. IsDraftRow(DrawnAs(row, v, b, m), v, m)
    BY DrawnRow
  <2> QED BY <2>1, <2>2 DEF IsDraftRow
<1> HIDE DEF new
<1>6. /\ operation' \in [Operation -> OperationRows]
      /\ operation'[o] = new /\ \A r \in Operation \ {o} : operation'[r] = operation[r]
  BY <1>1, <1>4, <1>5 DEF TypeOK
<1>7. reservation' = Reserved(o, None, T) /\ contributors' = [contributors EXCEPT ![o] = contributors[o] \union {p}]
      /\ UNCHANGED <<approvals, registry, releases, job, retries, working>>
  BY DEF ReplaceDraft
<1>8. Authored'
  BY <1>1, <1>2, <1>5, <1>6, <1>7, DrawsRows
<1>9. TypeOK'
  <2>1. reservation' \in [Target -> [creation: Holders, owner: Holders]]
    BY <1>1, <1>2, <1>7, Reserves
  <2>2. contributors' \in [Operation -> SUBSET Principal]
    BY <1>1, <1>2, <1>7 DEF TypeOK
  <2> QED BY <1>1, <1>6, <1>7, <2>1, <2>2 DEF TypeOK, Latest
<1>10. Undisturbed
  <2>1. ~IsPublished(o)
    BY DEF IsPublished, ReplaceDraft, IsDraft
  <2> QED BY <1>1, <1>6, <1>7, <2>1 DEF Undisturbed, PublishedStays, Stays, TypeOK
<1>11. ASSUME NEW r \in Operation PROVE Judged(r)
  <2>1. CASE r = o
    BY <1>1, <2>1 DEF Judged, Begun, ReplaceDraft, IsDraft, Ended
  <2>2. CASE r # o
    BY <1>6, <2>2 DEF Judged
  <2> QED BY <2>1, <2>2
<1> QED BY <1>8, <1>9, <1>10, <1>11 DEF AllJudged

LEMMA RejectedMembers ==
    ASSUME NEW m \in [Target -> MemberStates]
    PROVE  /\ Rejected(m) \in [Target -> MemberStates]
           /\ \A t \in Target : Rejected(m)[t] \in {m[t], "rejected"} /\ (Rejected(m)[t] # "none" => m[t] # "none")
           /\ (\A t \in Target : m[t] \in {"none", "released"}) => Rejected(m) = m
  BY DEF Rejected, MemberStates, Terminal

LEMMA Creates ==
    ASSUME Inv, NEW p \in Author, NEW o \in Operation, NEW q \in Operation \union {None}, NEW T \in Proposed, Create(p, o, q, T)
    PROVE  TypeOK' /\ Authored' /\ Undisturbed /\ AllJudged
<1>1. TypeOK /\ Authored /\ operation[o] \in OperationRows /\ Begun(o) /\ operation[o].version = 0 /\ (q # None => q # o)
  BY DEF Inv, TypeOK, Authored, Create
<1>2. T \in SUBSET Target /\ p \in Principal /\ q \in Holders /\ o # None
  BY ProductionAssumption DEF ProductionAssumption, Holders
<1>3. Latest \in 0..MaxReleases /\ Draft(T) \in [Target -> MemberStates]
  BY <1>1, <1>2, Manifests, Drafts DEF OperationRows
<1> DEFINE new == CreatedAs(Latest, q, Draft(T))
           gone(r) == [operation[r] EXCEPT !.members = Rejected(operation[r].members)]
<1>4. new \in OperationRows /\ new.frozen = FALSE /\ new.members = Draft(T) /\ new.status = "none"
  BY <1>2, <1>3, CreatedRow
<1> HIDE DEF new
<1>5. operation' = [r \in Operation |-> IF r = o THEN new ELSE IF r = q THEN gone(r) ELSE operation[r]]
  BY DEF Create, new, CreatedAs
<1>6. ASSUME NEW r \in Operation
      PROVE  /\ gone(r) \in OperationRows /\ SameBut(gone(r), operation[r]) /\ gone(r).status = operation[r].status
             /\ \A t \in Target : gone(r).members[t] \in {operation[r].members[t], "rejected"}
                                    /\ (gone(r).members[t] # "none" => operation[r].members[t] # "none")
             /\ IsPublished(r) => gone(r) = operation[r]
  <2> DEFINE row == operation[r]
             m == Rejected(row.members)
  <2>1. row \in OperationRows /\ row.members \in [Target -> MemberStates]
    BY <1>1 DEF TypeOK, OperationRows
  <2>2. /\ m \in [Target -> MemberStates]
        /\ \A t \in Target : m[t] \in {row.members[t], "rejected"} /\ (m[t] # "none" => row.members[t] # "none")
        /\ IsPublished(r) => m = row.members
    BY <2>1, RejectedMembers DEF IsPublished
  <2> HIDE DEF m
  <2>3. LET n == [row EXCEPT !.members = m] IN
           n \in OperationRows /\ SameBut(n, row) /\ n.status = row.status /\ n.members = m
    BY <2>1, <2>2, MembersRow
  <2>4. m = row.members => [row EXCEPT !.members = m] = row
    BY <2>1 DEF OperationRows
  <2>5. gone(r) = [row EXCEPT !.members = m]
    BY DEF m
  <2> HIDE DEF row, gone
  <2> QED BY <2>2, <2>3, <2>4, <2>5 DEF row
<1> HIDE DEF gone
<1>7. /\ operation' \in [Operation -> OperationRows] /\ operation'[o] = new
      /\ \A r \in Operation \ {o} : operation'[r] = operation[r] \/ operation'[r] = gone(r)
  BY <1>1, <1>4, <1>5, <1>6 DEF TypeOK
<1>8. /\ reservation' = Reserved(o, q, T) /\ contributors' = [contributors EXCEPT ![o] = {p} \union Inherited(T)]
      /\ UNCHANGED <<approvals, registry, releases, job, retries, working>>
  BY DEF Create
<1>9. Authored'
  <2>1. \A r \in Operation \ {o} :
          /\ operation'[r].frozen = operation[r].frozen /\ operation'[r].version = operation[r].version
          /\ operation'[r].status = operation[r].status /\ operation'[r].attempt = operation[r].attempt
          /\ \A t \in Target : operation'[r].members[t] # "none" => operation[r].members[t] # "none"
    BY <1>6, <1>7 DEF SameBut
  <2> QED BY <1>1, <1>2, <1>4, <1>7, <1>8, <2>1, DrawsRows
<1>10. TypeOK'
  <2>1. reservation' \in [Target -> [creation: Holders, owner: Holders]]
    BY <1>1, <1>2, <1>8, Reserves
  <2>2. contributors' \in [Operation -> SUBSET Principal]
    BY <1>1, <1>2, <1>8, InheritedPrincipals DEF TypeOK
  <2> QED BY <1>1, <1>7, <1>8, <2>1, <2>2 DEF TypeOK, Latest
<1>11. Undisturbed
  <2>1. ~IsPublished(o)
    BY <1>1 DEF IsPublished, Begun
  <2>2. ASSUME NEW r \in Operation, IsPublished(r) PROVE Stays(r)
    BY <1>1, <1>6, <1>7, <1>8, <2>1, <2>2 DEF Stays, TypeOK
  <2> QED BY <1>8, <2>2 DEF Undisturbed, PublishedStays
<1>12. ASSUME NEW r \in Operation PROVE Judged(r)
  <2>1. CASE r = o
    BY <1>1, <2>1 DEF Judged, Begun, Ended
  <2>2. CASE r # o
    BY <1>6, <1>7, <2>2 DEF Judged
  <2> QED BY <2>1, <2>2
<1> QED BY <1>9, <1>10, <1>11, <1>12 DEF AllJudged

-----------------------------------------------------------------------------
(* Commands that release nothing keep what was released.                   *)

\* Release n is what operation o is entitled to.
EntitledTo(n, o) ==
    /\ operation[o].base = n - 1
    /\ operation[o].attempt = releases[n].attempt /\ operation[o].status = "succeeded"
    /\ \A t \in Target : operation[o].members[t] \in {"none", "released"}
    /\ \A t \in Targets(o) : \E p \in releases[n].reviewers : <<p, t, releases[n].attempt>> \in approvals[o]
    /\ releases[n].reviewers \intersect contributors[o] = {}
    /\ releases[n].by \notin contributors[o] \union releases[n].reviewers
    /\ \A t \in Target : releases[n].pins[t] = IF t \in Targets(o) THEN o ELSE Pins(n - 1)[t]

LEMMA Undisturbs ==
    ASSUME Inv, TypeOK', Authored', Undisturbed
    PROVE  Inv'
<1>1. releases' = releases /\ registry' = registry /\ Latest' = Latest /\ \A n : Pins(n)' = Pins(n)
  BY DEF Undisturbed, Latest, Pins
<1>2. ASSUME NEW o \in Operation, IsPublished(o)
      PROVE  Stays(o) /\ IsPublished(o)' /\ Targets(o)' = Targets(o)
  BY <1>1, <1>2 DEF Undisturbed, PublishedStays, Stays, IsPublished, Targets
<1>3. ASSUME NEW n \in DOMAIN releases PROVE Line(n)'
  <2>1. Line(n)
    BY DEF Inv, History
  <2> QED BY <1>1, <1>2, <2>1 DEF Line
<1>4. ASSUME NEW t \in Target PROVE HasNewestPin(t)'
  <2>1. HasNewestPin(t) /\ Pinned(t)' = Pinned(t)
    BY <1>1 DEF Inv, History, Pinned
  <2> QED BY <2>1 DEF HasNewestPin, IsNewestPin
<1>5. ReleaseIsEntitled'
  <2>1. ASSUME NEW n \in DOMAIN releases, releases[n].kind = "applied"
        PROVE  \E o \in Operation : o = releases[n].op /\ EntitledTo(n, o)'
    <3>1. Line(n)
      BY DEF Inv, History
    <3>2. PICK o \in Operation : o = releases[n].op /\ IsPublished(o)
      BY <2>1, <3>1 DEF Line
    <3>3. Stays(o) /\ Targets(o)' = Targets(o)
      BY <1>2, <3>2
    <3>4. EntitledTo(n, o)
      BY <2>1, <3>2 DEF Inv, ReleaseIsEntitled, EntitledTo
    <3> QED BY <1>1, <3>2, <3>3, <3>4 DEF Stays, EntitledTo
  <2>2. ASSUME NEW n \in DOMAIN releases', releases'[n].kind = "applied"
        PROVE  \E o \in Operation : o = releases'[n].op /\ EntitledTo(n, o)'
    BY <1>1, <2>1, <2>2
  <2> QED BY <2>2, ZenonT(60) DEF ReleaseIsEntitled, EntitledTo
<1>6. RollbackIsExact'
  BY <1>1 DEF Inv, RollbackIsExact
<1>7. RegistryFollowsManifest'
  <2>1. \A t : CarriedBack(t)' <=> CarriedBack(t)
    BY <1>1 DEF CarriedBack
  <2> QED BY <1>1, <2>1 DEF Inv, Registered, RegistryFollowsManifest
<1>8. ASSUME NEW t \in Object PROVE ObjectKeeps(t)'
  <2>1. ObjectKeeps(t) /\ Pinned(t)' = Pinned(t)
    BY <1>1 DEF Inv, Registered, Pinned
  <2> QED BY <1>1, <2>1 DEF ObjectKeeps, IsNewestPin
<1> QED BY <1>3, <1>4, <1>5, <1>6, <1>7, <1>8, <1>1 DEF Inv, History, Registered

-----------------------------------------------------------------------------
(* A release.                                                              *)

Entitled(n) == releases[n].kind = "applied" => \E o \in Operation : o = releases[n].op /\ EntitledTo(n, o)
Exact(n) ==
    releases[n].kind = "rollback" =>
        LET root == releases[n].root
        IN  releases[n].pins = IF (n - root) % 2 = 1 THEN Pins(root - 1) ELSE Pins(root)

\* A step after which r is release L + 1.
Releases(L, r) == L = Latest /\ L < MaxReleases /\ releases' = Append(releases, r) /\ PublishedStays

LEMMA Appends ==
    ASSUME TypeOK, NEW L \in Nat, NEW r \in ReleaseRows, Releases(L, r)
    PROVE  /\ releases' \in Seq(ReleaseRows) /\ Latest' = L + 1 /\ DOMAIN releases' = 1 .. L + 1 /\ DOMAIN releases = 1..L
           /\ releases'[L + 1] = r /\ \A n \in 1..L : releases'[n] = releases[n]
           /\ Pins(L + 1)' = r.pins /\ \A n \in 0..L : Pins(n)' = Pins(n)
<1>1. releases \in Seq(ReleaseRows) /\ L = Len(releases) /\ releases' = Append(releases, r)
  BY DEF TypeOK, Releases, Latest
<1>2. /\ releases' \in Seq(ReleaseRows) /\ Len(releases') = L + 1 /\ DOMAIN releases' = 1 .. L + 1 /\ DOMAIN releases = 1..L
      /\ releases'[L + 1] = r /\ \A n \in 1..L : releases'[n] = releases[n]
  BY <1>1
<1>3. Pins(L + 1)' = r.pins /\ \A n \in 0..L : Pins(n)' = Pins(n)
  BY <1>2 DEF Pins
<1> QED BY <1>2, <1>3 DEF Latest

LEMMA EarlierReleases ==
    ASSUME Inv, NEW L \in Nat, NEW r \in ReleaseRows, Releases(L, r)
    PROVE  /\ \A o \in Operation : IsPublished(o) => IsPublished(o)' /\ Targets(o)' = Targets(o)
           /\ \A n \in 1..L : Line(n)' /\ Entitled(n)' /\ Exact(n)'
<1>1. /\ Latest' = L + 1 /\ DOMAIN releases = 1..L /\ L = Latest
      /\ \A n \in 1..L : releases'[n] = releases[n]
      /\ \A n \in 0..L : Pins(n)' = Pins(n)
  BY Appends DEF Inv, Releases
<1>2. ASSUME NEW o \in Operation, IsPublished(o)
      PROVE  Stays(o) /\ IsPublished(o)' /\ Targets(o)' = Targets(o)
  <2>1. Stays(o) /\ operation[o].base \in Nat
    BY <1>2 DEF Releases, PublishedStays, Inv, TypeOK, OperationRows
  <2> QED BY <1>1, <1>2, <2>1 DEF Stays, IsPublished, Targets
<1>3. ASSUME NEW n \in 1..L PROVE Line(n)' /\ Entitled(n)' /\ Exact(n)'
  <2>1. Line(n) /\ n \in DOMAIN releases
    BY <1>1 DEF Inv, History
  <2>2. releases'[n] = releases[n] /\ Pins(n)' = Pins(n) /\ Pins(n - 1)' = Pins(n - 1)
    BY <1>1
  <2>3. releases[n].kind = "rollback" => releases[n].root \in 1..L /\ n > 1 /\ releases'[n - 1] = releases[n - 1]
    BY <1>1, <2>1 DEF Line
  <2>4. Line(n)'
    BY <1>2, <2>1, <2>2, <2>3 DEF Line
  <2>5. Entitled(n)'
    <3> SUFFICES ASSUME releases[n].kind = "applied" PROVE Entitled(n)'
      BY <2>2 DEF Entitled
    <3>1. PICK o \in Operation : o = releases[n].op /\ IsPublished(o)
      BY <2>1 DEF Line
    <3>2. Stays(o) /\ Targets(o)' = Targets(o)
      BY <1>2, <3>1
    <3>3. EntitledTo(n, o)
      BY <2>1, <3>1 DEF Inv, ReleaseIsEntitled, EntitledTo
    <3>4. EntitledTo(n, o)'
      BY <2>2, <3>1, <3>2, <3>3 DEF Stays, EntitledTo
    <3> QED BY <2>2, <3>1, <3>4 DEF Entitled
  <2>6. Exact(n)'
    <3> SUFFICES ASSUME releases[n].kind = "rollback" PROVE Exact(n)'
      BY <2>2 DEF Exact
    <3>1. PICK root \in 1..L : root = releases[n].root
      BY <2>3
    <3>2. Pins(root - 1)' = Pins(root - 1) /\ Pins(root)' = Pins(root)
      BY <1>1
    <3>3. releases[n].pins = IF (n - root) % 2 = 1 THEN Pins(root - 1) ELSE Pins(root)
      BY <2>1, <3>1 DEF Inv, RollbackIsExact
    <3> QED BY <2>2, <3>1, <3>2, <3>3 DEF Exact
  <2> QED BY <2>4, <2>5, <2>6
<1> QED BY <1>2, <1>3

LEMMA NewestPins ==
    ASSUME Inv, NEW L \in Nat, NEW r \in ReleaseRows, Releases(L, r), NEW t \in Target
    PROVE  /\ HasNewestPin(t)'
           /\ r.pins[t] # None => \A n : IsNewestPin(n, t)' => n = L + 1
           /\ r.pins[t] = None => \A n : IsNewestPin(n, t)' => IsNewestPin(n, t) /\ n \in 1..L
<1>1. /\ DOMAIN releases' = 1 .. L + 1 /\ DOMAIN releases = 1..L
      /\ Pins(L + 1)' = r.pins /\ \A n \in 0..L : Pins(n)' = Pins(n)
  BY Appends DEF Inv
<1>2. HasNewestPin(t)
  BY DEF Inv, History
<1>3. Pinned(t)' = IF r.pins[t] = None THEN Pinned(t) ELSE Pinned(t) \union {L + 1}
  BY <1>1 DEF Pinned
<1>4. Pinned(t) \subseteq 1..L
  BY <1>1 DEF Pinned
<1>5. CASE r.pins[t] = None
  BY <1>2, <1>3, <1>4, <1>5 DEF HasNewestPin, IsNewestPin
<1>6. CASE r.pins[t] # None
  <2>1. IsNewestPin(L + 1, t)'
    BY <1>3, <1>4, <1>6 DEF IsNewestPin
  <2>2. ASSUME NEW n, IsNewestPin(n, t)' PROVE n = L + 1
    BY <1>3, <1>4, <1>6, <2>2 DEF IsNewestPin
  <2> QED BY <1>6, <2>1, <2>2 DEF HasNewestPin, IsNewestPin
<1> QED BY <1>5, <1>6

LEMMA Released ==
    ASSUME Inv, NEW L \in Nat, NEW r \in ReleaseRows, Releases(L, r),
           TypeOK', Authored', Line(L + 1)', Entitled(L + 1)', Exact(L + 1)', Registered'
    PROVE  Inv'
<1>1. DOMAIN releases' = 1 .. L + 1
  BY Appends DEF Inv
<1>2. ASSUME NEW n \in DOMAIN releases' PROVE Line(n)' /\ Entitled(n)' /\ Exact(n)'
  BY <1>1, EarlierReleases
<1>3. History'
  BY <1>2, NewestPins DEF History
<1>4. ReleaseIsEntitled'
  <2>1. ASSUME NEW n \in DOMAIN releases', releases'[n].kind = "applied"
        PROVE  \E o \in Operation : o = releases'[n].op /\ EntitledTo(n, o)'
    BY <1>2, <2>1 DEF Entitled
  <2> QED BY <2>1, ZenonT(60) DEF ReleaseIsEntitled, EntitledTo
<1>5. RollbackIsExact'
  BY <1>2 DEF RollbackIsExact, Exact
<1> QED BY <1>3, <1>4, <1>5 DEF Inv

\* What a release does to the registry.
Follows(L, r) ==
    /\ \A t \in Asset :
        \/ registry'[t] = r.pins[t]
        \/ registry'[t] = None /\ (CarriedBack(t) \/ (r.kind = "ordinary" /\ r.pins[t] # None /\ Pins(L)[t] = None))
    /\ \A t \in Object : registry'[t] = IF r.pins[t] # None THEN r.pins[t] ELSE registry[t]

LEMMA RegistryFollows ==
    ASSUME Inv, NEW L \in Nat, NEW r \in ReleaseRows, Releases(L, r), Follows(L, r)
    PROVE  Registered'
<1>1. /\ DOMAIN releases' = 1 .. L + 1 /\ DOMAIN releases = 1..L /\ Latest' = L + 1
      /\ releases'[L + 1] = r /\ \A n \in 1..L : releases'[n] = releases[n]
      /\ Pins(L + 1)' = r.pins /\ \A n \in 0..L : Pins(n)' = Pins(n)
  BY Appends DEF Inv
<1>2. Pins(Latest)' = r.pins
  BY <1>1 DEF Pins
<1>3. ASSUME NEW t \in Asset PROVE registry'[t] = Pins(Latest)'[t] \/ (registry'[t] = None /\ CarriedBack(t)')
  <2>1. ASSUME CarriedBack(t) PROVE CarriedBack(t)'
    <3>1. PICK n \in 1..L : releases[n].kind = "ordinary" /\ Pins(n)[t] # None /\ Pins(n - 1)[t] = None
      BY <1>1, <2>1 DEF CarriedBack
    <3>2. n \in DOMAIN releases' /\ releases'[n] = releases[n] /\ Pins(n)' = Pins(n) /\ Pins(n - 1)' = Pins(n - 1)
      BY <1>1
    <3> QED BY <3>1, <3>2 DEF CarriedBack
  <2>2. ASSUME r.kind = "ordinary", r.pins[t] # None, Pins(L)[t] = None PROVE CarriedBack(t)'
    <3>1. PICK n \in 1 .. L + 1 : n = L + 1 /\ n - 1 = L
      OBVIOUS
    <3>2. n \in DOMAIN releases' /\ releases'[n] = r /\ Pins(n)' = r.pins /\ Pins(n - 1)' = Pins(L)
      BY <1>1, <3>1
    <3> QED BY <2>2, <3>2 DEF CarriedBack
  <2> QED BY <1>2, <2>1, <2>2 DEF Follows
<1>4. ASSUME NEW t \in Object PROVE Pins(Latest)'[t] # None => registry'[t] = Pins(Latest)'[t]
  BY <1>2 DEF Follows
<1>5. ASSUME NEW t \in Object PROVE ObjectKeeps(t)'
  <2>1. t \in Target /\ ObjectKeeps(t) /\ Pinned(t) \subseteq 1..L
    BY <1>1 DEF Target, Inv, Registered, Pinned
  <2>2. CASE r.pins[t] # None
    BY <1>1, <2>1, <2>2, NewestPins DEF ObjectKeeps, Follows
  <2>3. CASE r.pins[t] = None
    <3>1. ASSUME NEW n, IsNewestPin(n, t)' PROVE registry'[t] = Pins(n)'[t]
      <4>1. IsNewestPin(n, t) /\ n \in 1..L
        BY <2>1, <2>3, <3>1, NewestPins
      <4>2. registry[t] = Pins(n)[t]
        BY <2>1, <4>1 DEF ObjectKeeps, IsNewestPin
      <4> QED BY <1>1, <2>3, <4>1, <4>2 DEF Follows
    <3> QED BY <3>1 DEF ObjectKeeps
  <2> QED BY <2>2, <2>3
<1> QED BY <1>3, <1>4, <1>5 DEF Registered, RegistryFollowsManifest

LEMMA CarriedPin ==
    ASSUME Inv, NEW t \in Target
    PROVE  \/ Pinned(t) = {} /\ Carried(t) = None
           \/ \E n \in Pinned(t) : IsNewestPin(n, t) /\ Carried(t) = Pins(n)[t]
<1>1. HasNewestPin(t) /\ Pinned(t) \subseteq Nat
  BY Manifests DEF Inv, History, Pinned
<1>2. Carried(t) = IF Pinned(t) = {} THEN None ELSE Pins(CHOOSE n \in Pinned(t) : \A m \in Pinned(t) : m <= n)[t]
  BY DEF Carried, Pinned
<1>3. ASSUME NEW n \in Pinned(t), IsNewestPin(n, t)
      PROVE  (CHOOSE k \in Pinned(t) : \A m \in Pinned(t) : m <= k) = n
  <2> DEFINE c == CHOOSE k \in Pinned(t) : \A m \in Pinned(t) : m <= k
  <2>1. c \in Pinned(t) /\ \A m \in Pinned(t) : m <= c
    BY <1>3 DEF IsNewestPin
  <2> HIDE DEF c
  <2>2. c = n
    BY <1>1, <1>3, <2>1 DEF IsNewestPin
  <2> QED BY <2>2 DEF c
<1>4. CASE Pinned(t) = {}
  BY <1>2, <1>4
<1>5. CASE Pinned(t) # {}
  <2>1. PICK n \in Pinned(t) : IsNewestPin(n, t)
    BY <1>1, <1>5 DEF HasNewestPin
  <2>2. Carried(t) = Pins(n)[t]
    BY <1>2, <1>3, <1>5, <2>1
  <2> QED BY <2>1, <2>2
<1> QED BY <1>4, <1>5

LEMMA PublishesOrdinary ==
    ASSUME Inv, PublishOrdinary
    PROVE  Inv' /\ AllJudged
<1>1. PICK L \in 0..MaxReleases : L = Latest
  BY Manifests DEF Inv
<1>2. /\ L \in Nat /\ L < MaxReleases /\ DOMAIN releases = 1..L /\ Latest = L
      /\ \A n \in 0..L : Pins(n) \in [Target -> Holders]
      /\ TypeOK /\ Authored /\ MaxReleases \in Nat
  BY <1>1, Manifests, ProductionAssumption DEF Inv, PublishOrdinary, ProductionAssumption
<1> DEFINE r == [kind |-> "ordinary", op |-> None, attempt |-> 0, by |-> None, reviewers |-> {}, root |-> 0,
                 pins |-> [t \in Target |-> Carried(t)]]
<1>3. ASSUME NEW t \in Target PROVE Carried(t) \in Holders
  <2>1. CASE Carried(t) = None
    BY <2>1 DEF Holders
  <2>2. CASE \E n \in Pinned(t) : Carried(t) = Pins(n)[t]
    BY <1>2, <2>2 DEF Pinned
  <2> QED BY <2>1, <2>2, CarriedPin
<1>4. r \in ReleaseRows
  BY <1>2, <1>3 DEF ReleaseRows, Holders
<1>5. /\ r.kind = "ordinary" /\ \A t \in Target : r.pins[t] = Carried(t)
  OBVIOUS
<1>6. releases' = Append(releases, r) /\ UNCHANGED <<operation, contributors, approvals, reservation, registry, job, retries, working>>
  BY DEF PublishOrdinary
<1> HIDE DEF r
<1>7. Releases(L, r)
  BY <1>1, <1>2, <1>6 DEF Releases, PublishedStays, Stays
<1>8. releases' \in Seq(ReleaseRows) /\ Latest' = L + 1 /\ releases'[L + 1] = r
  BY <1>2, <1>4, <1>7, Appends
<1>9. TypeOK' /\ Authored'
  <2>1. TypeOK'
    BY <1>2, <1>6, <1>8 DEF TypeOK
  <2>2. Authored'
    BY <1>2, <1>6 DEF Authored, Begun, Drawn
  <2> QED BY <2>1, <2>2
<1>10. Line(L + 1)' /\ Entitled(L + 1)' /\ Exact(L + 1)'
  BY <1>5, <1>8 DEF Line, Entitled, Exact
<1>11. Follows(L, r)
  <2>1. ASSUME NEW t \in Asset
        PROVE  \/ registry'[t] = r.pins[t]
               \/ registry'[t] = None /\ (CarriedBack(t) \/ (r.kind = "ordinary" /\ r.pins[t] # None /\ Pins(L)[t] = None))
    <3>1. t \in Target /\ (registry[t] = Pins(L)[t] \/ (registry[t] = None /\ CarriedBack(t)))
      BY <1>2 DEF Target, Inv, Registered, RegistryFollowsManifest
    <3>2. CASE Pins(L)[t] = None
      BY <1>5, <1>6, <3>1, <3>2
    <3>3. CASE Pins(L)[t] # None
      <4>1. L \in Pinned(t)
        <5>1. L # 0
          BY <3>1, <3>3 DEF Pins
        <5> QED BY <1>2, <3>3, <5>1 DEF Pinned
      <4>2. Carried(t) = Pins(L)[t]
        <5>1. PICK n \in Pinned(t) : IsNewestPin(n, t) /\ Carried(t) = Pins(n)[t]
          BY <3>1, <4>1, CarriedPin
        <5>2. n \in 1..L /\ L <= n
          BY <1>2, <4>1, <5>1 DEF IsNewestPin, Pinned
        <5> QED BY <5>1, <5>2
      <4> QED BY <1>5, <1>6, <3>1, <4>2
    <3> QED BY <3>2, <3>3
  <2>2. ASSUME NEW t \in Object PROVE registry'[t] = IF r.pins[t] # None THEN r.pins[t] ELSE registry[t]
    <3>1. t \in Target /\ ObjectKeeps(t)
      BY DEF Target, Inv, Registered
    <3>2. Carried(t) # None => registry[t] = Carried(t)
      BY <3>1, CarriedPin DEF ObjectKeeps
    <3> QED BY <1>5, <1>6, <3>1, <3>2
  <2> QED BY <2>1, <2>2 DEF Follows
<1>12. Registered'
  BY <1>2, <1>4, <1>7, <1>11, RegistryFollows
<1>13. Inv'
  BY <1>2, <1>4, <1>7, <1>9, <1>10, <1>12, Released
<1> QED BY <1>2, <1>6, <1>13, NoRowChanges

UndoneAs(row, p, pins) == [row EXCEPT !.kind = "rollback", !.by = p, !.pins = pins]

LEMMA UndoneRow ==
    ASSUME NEW row \in ReleaseRows, NEW p \in Principal, NEW pins \in [Target -> Holders]
    PROVE  LET new == UndoneAs(row, p, pins) IN
           new \in ReleaseRows /\ new.kind = "rollback" /\ new.op = row.op /\ new.root = row.root /\ new.pins = pins
  BY DEF ReleaseRows, UndoneAs

\* Undoing the last release gives what RollbackIsExact says of it.
LEMMA RestoresExactly ==
    ASSUME Inv, NEW L \in Nat, L = Latest, L > 0, releases[L].kind # "ordinary",
           NEW root, root = releases[L].root
    PROVE  Pins(L - 1) = IF (L + 1 - root) % 2 = 1 THEN Pins(root - 1) ELSE Pins(root)
<1>1. DOMAIN releases = 1..L /\ L \in DOMAIN releases /\ Line(L) /\ releases[L] \in ReleaseRows
  BY Manifests DEF Inv, History
<1>2. CASE releases[L].kind = "applied"
  <2>1. root = L /\ (L + 1 - root) % 2 = 1
    BY <1>1, <1>2 DEF Line
  <2> QED BY <2>1
<1>3. CASE releases[L].kind = "rollback"
  <2>1. L > 1 /\ root \in 1 .. L - 1 /\ releases[L - 1].kind # "ordinary" /\ releases[L - 1].root = root
    BY <1>1, <1>3 DEF Line
  <2>2. L - 1 \in DOMAIN releases /\ Line(L - 1) /\ releases[L - 1] \in ReleaseRows
    BY <1>1, <2>1, Manifests DEF Inv, History
  <2>3. CASE releases[L - 1].kind = "applied"
    <3>1. root = L - 1 /\ (L + 1 - root) % 2 = 0
      BY <2>1, <2>2, <2>3 DEF Line
    <3> QED BY <3>1
  <2>4. CASE releases[L - 1].kind = "rollback"
    <3>1. releases[L - 1].pins = IF (L - 1 - root) % 2 = 1 THEN Pins(root - 1) ELSE Pins(root)
      BY <2>1, <2>2, <2>4 DEF Inv, RollbackIsExact
    <3>2. Pins(L - 1) = releases[L - 1].pins
      BY <2>1 DEF Pins
    <3>3. (L - 1 - root) % 2 = (L + 1 - root) % 2
      <4>1. PICK k \in Nat : k = L - 1 - root
        BY <2>1
      <4>2. k % 2 = (k + 2) % 2
        BY <4>1
      <4>3. L + 1 - root = k + 2
        BY <2>1, <4>1
      <4> QED BY <4>1, <4>2, <4>3
    <3> QED BY <3>1, <3>2, <3>3
  <2> QED BY <2>1, <2>2, <2>3, <2>4 DEF ReleaseRows
<1> QED BY <1>1, <1>2, <1>3 DEF ReleaseRows

LEMMA RollsBack ==
    ASSUME Inv, NEW p \in Publisher, Rollback(p)
    PROVE  Inv' /\ AllJudged
<1>1. PICK L \in 0..MaxReleases : L = Latest
  BY Manifests DEF Inv
<1>2. /\ L \in Nat \ {0} /\ L < MaxReleases /\ DOMAIN releases = 1..L /\ releases[L] \in ReleaseRows /\ Latest = L
      /\ \A n \in 0..L : Pins(n) \in [Target -> Holders]
      /\ TypeOK /\ Authored /\ MaxReleases \in Nat
  BY <1>1, Manifests, ProductionAssumption DEF Inv, Rollback, ProductionAssumption
<1>3. releases[L].kind # "ordinary" /\ Line(L) /\ p \in Principal
  BY <1>1, <1>2, ProductionAssumption DEF Rollback, Inv, History, ProductionAssumption
<1>4. PICK o \in Operation : o = releases[L].op /\ IsPublished(o) /\ \A t \in Target \ Targets(o) : Pins(L)[t] = Pins(L - 1)[t]
  BY <1>3 DEF Line
<1>5. PICK before \in [Target -> Holders] : before = Pins(L - 1)
  BY <1>2
<1> DEFINE r == UndoneAs(releases[L], p, before)
<1>6. r \in ReleaseRows /\ r.kind = "rollback" /\ r.op = o /\ r.root = releases[L].root /\ r.pins = before
  BY <1>2, <1>3, <1>4, UndoneRow
<1>7. /\ releases' = Append(releases, r) /\ registry' = Restored(Targets(o), before)
      /\ UNCHANGED <<operation, contributors, approvals, reservation, job, retries, working>>
  BY <1>1, <1>4, <1>5 DEF Rollback, Before, UndoneAs
<1> HIDE DEF r
<1>8. Releases(L, r)
  BY <1>1, <1>2, <1>7 DEF Releases, PublishedStays, Stays
<1>9. /\ releases' \in Seq(ReleaseRows) /\ Latest' = L + 1 /\ releases'[L + 1] = r /\ releases'[L] = releases[L]
      /\ Pins(L + 1)' = before /\ \A n \in 0..L : Pins(n)' = Pins(n)
  BY <1>2, <1>6, <1>8, Appends
<1>10. TypeOK' /\ Authored'
  <2>1. registry' \in [Target -> Holders]
    BY <1>2, <1>7 DEF Restored, TypeOK
  <2>2. TypeOK'
    BY <1>2, <1>7, <1>9, <2>1 DEF TypeOK
  <2>3. Authored'
    BY <1>2, <1>7 DEF Authored, Begun, Drawn
  <2> QED BY <2>2, <2>3
<1>11. releases[L].root \in 1..L /\ (releases[L].kind = "applied" => releases[L].root = L)
  BY <1>2, <1>3 DEF Line, ReleaseRows
<1>12. Line(L + 1)'
  <2>1. IsPublished(o)' /\ Targets(o)' = Targets(o)
    BY <1>2, <1>4, <1>6, <1>8, EarlierReleases
  <2>2. ASSUME NEW t \in Target \ Targets(o)' PROVE Pins(L + 1)'[t] = Pins(L)'[t]
    BY <1>2, <1>4, <1>5, <1>9, <2>1, <2>2
  <2>3. PICK n \in 2 .. L + 1 : n = L + 1 /\ n - 1 = L
    BY <1>2
  <2>4. Line(n)'
    BY <1>3, <1>4, <1>6, <1>9, <1>11, <2>1, <2>2, <2>3 DEF Line
  <2> QED BY <2>3, <2>4
<1>13. Entitled(L + 1)'
  BY <1>6, <1>9 DEF Entitled
<1>14. Exact(L + 1)'
  <2>1. PICK root \in 1..L : root = releases[L].root
    BY <1>11
  <2>2. before = IF (L + 1 - root) % 2 = 1 THEN Pins(root - 1) ELSE Pins(root)
    BY <1>2, <1>3, <1>5, <2>1, RestoresExactly
  <2>3. Pins(root - 1)' = Pins(root - 1) /\ Pins(root)' = Pins(root)
    BY <1>9
  <2>4. releases'[L + 1].root = root /\ releases'[L + 1].pins = before
    BY <1>6, <1>9, <2>1
  <2>5. before = IF (L + 1 - root) % 2 = 1 THEN Pins(root - 1)' ELSE Pins(root)'
    BY <2>2, <2>3
  <2> QED BY <2>4, <2>5 DEF Exact
<1>15. Follows(L, r)
  <2>1. ASSUME NEW t \in Target, t \notin Targets(o) PROVE registry'[t] = registry[t] /\ before[t] = Pins(L)[t]
    BY <1>4, <1>5, <1>7, <2>1 DEF Restored
  <2>2. ASSUME NEW t \in Asset PROVE registry'[t] = before[t] \/ (registry'[t] = None /\ CarriedBack(t))
    <3>1. t \in Target /\ (registry[t] = Pins(L)[t] \/ (registry[t] = None /\ CarriedBack(t)))
      BY <1>2 DEF Target, Inv, Registered, RegistryFollowsManifest
    <3> QED BY <1>7, <2>1, <3>1 DEF Restored
  <2>3. ASSUME NEW t \in Object PROVE registry'[t] = IF before[t] # None THEN before[t] ELSE registry[t]
    <3>1. t \in Target /\ t \notin Asset /\ (Pins(L)[t] # None => registry[t] = Pins(L)[t])
      BY <1>2, ProductionAssumption DEF Target, ProductionAssumption, Inv, Registered, RegistryFollowsManifest
    <3> QED BY <1>7, <2>1, <3>1 DEF Restored
  <2> QED BY <1>6, <2>2, <2>3 DEF Follows
<1>16. Registered'
  BY <1>2, <1>6, <1>8, <1>15, RegistryFollows
<1>17. Inv'
  BY <1>2, <1>6, <1>8, <1>10, <1>12, <1>13, <1>14, <1>16, Released
<1> QED BY <1>2, <1>7, <1>17, NoRowChanges

LEMMA ReviewersOf ==
    ASSUME TypeOK, NEW o \in Operation
    PROVE  /\ Reviewers(o) \subseteq Principal
           /\ \A r \in Adopted(o) : r[1] \in Reviewers(o) /\ r = <<r[1], r[2], operation[o].attempt>> /\ r \in approvals[o]
<1>1. approvals[o] \subseteq Principal \X Target \X (Nat \ {0})
  BY DEF TypeOK
<1>2. ASSUME NEW r \in Adopted(o)
      PROVE  r[1] \in Principal /\ r = <<r[1], r[2], operation[o].attempt>> /\ r \in approvals[o]
  BY <1>1 DEF Adopted
<1> QED BY <1>2 DEF Reviewers

LEMMA Publishes ==
    ASSUME Inv, NEW p \in Publisher, NEW o \in Operation, Publish(p, o)
    PROVE  Inv' /\ AllJudged
<1>1. PICK L \in 0..MaxReleases : L = Latest
  BY Manifests DEF Inv
<1>2. /\ L \in Nat /\ L < MaxReleases /\ DOMAIN releases = 1..L /\ Latest = L
      /\ \A n \in 0..L : Pins(n) \in [Target -> Holders]
      /\ TypeOK /\ Authored /\ MaxReleases \in Nat
      /\ operation[o] \in OperationRows /\ o \in Holders /\ p \in Principal
  BY <1>1, Manifests, ProductionAssumption DEF Inv, Publish, ProductionAssumption, TypeOK, Holders
<1>3. /\ operation[o].frozen /\ operation[o].status = "succeeded" /\ operation[o].base = L
      /\ \A t \in Targets(o) : operation[o].members[t] = "in_review"
      /\ p \notin contributors[o] \union Reviewers(o)
      /\ Reviewers(o) \intersect contributors[o] = {}
      /\ \A t \in Targets(o) : \E v \in Adopted(o) : v[2] = t
  BY <1>2 DEF Publish, Gate, BaselineHolds, IsIndependent
<1>4. PICK before \in [Target -> Holders] : before = Pins(L)
  BY <1>2
<1> DEFINE pins == [t \in Target |-> IF t \in Targets(o) THEN o ELSE before[t]]
           r == [kind |-> "applied", op |-> o, attempt |-> operation[o].attempt, by |-> p, reviewers |-> Reviewers(o),
                 root |-> L + 1, pins |-> pins]
           m == [t \in Target |-> IF operation[o].members[t] = "none" THEN "none" ELSE "released"]
           new == [operation[o] EXCEPT !.members = m]
<1>5. /\ pins \in [Target -> Holders]
      /\ \A t \in Target : pins[t] = IF t \in Targets(o) THEN o ELSE Pins(L)[t]
  BY <1>2, <1>4
<1>6. /\ m \in [Target -> MemberStates]
      /\ \A t \in Target : m[t] \in {"none", "released"} /\ (m[t] # "none" <=> operation[o].members[t] # "none")
  BY DEF MemberStates
<1>7. /\ releases' = Append(releases, r)
      /\ registry' = [t \in Target |-> IF t \in Targets(o) THEN o ELSE registry[t]]
      /\ operation' = [operation EXCEPT ![o] = new]
      /\ UNCHANGED <<contributors, approvals, reservation, job, retries, working>>
  BY <1>2, <1>4 DEF Publish, TypeOK
<1> HIDE DEF pins, m
<1>8. new \in OperationRows /\ SameBut(new, operation[o]) /\ new.status = operation[o].status /\ new.members = m
  BY <1>2, <1>6, MembersRow
<1>9. r \in ReleaseRows
  BY <1>2, <1>5, ReviewersOf DEF ReleaseRows, OperationRows
<1>10. /\ r.kind = "applied" /\ r.op = o /\ r.attempt = operation[o].attempt /\ r.by = p /\ r.reviewers = Reviewers(o)
       /\ r.root = L + 1 /\ r.pins = pins
  OBVIOUS
<1> HIDE DEF new, r
<1>11. /\ operation' \in [Operation -> OperationRows] /\ operation'[o] = new
       /\ \A q \in Operation \ {o} : operation'[q] = operation[q]
  BY <1>2, <1>7, <1>8 DEF TypeOK
<1>12. Releases(L, r)
  <2>1. ~IsPublished(o)
    BY <1>2, <1>3 DEF IsPublished
  <2> QED BY <1>2, <1>7, <1>11, <2>1 DEF Releases, PublishedStays, Stays
<1>13. /\ releases' \in Seq(ReleaseRows) /\ Latest' = L + 1 /\ releases'[L + 1] = r
       /\ Pins(L + 1)' = pins /\ \A n \in 0..L : Pins(n)' = Pins(n)
  BY <1>2, <1>9, <1>10, <1>12, Appends
<1>14. Targets(o)' = Targets(o)
  BY <1>6, <1>8, <1>11 DEF Targets
<1>15. TypeOK'
  <2>1. registry' \in [Target -> Holders]
    BY <1>2, <1>7 DEF TypeOK
  <2> QED BY <1>2, <1>7, <1>11, <1>13, <2>1 DEF TypeOK
<1>16. Authored'
  <2>1. ASSUME NEW q \in Operation PROVE Begun(q)'
    <3>1. Begun(q)
      BY <1>2 DEF Authored
    <3> QED BY <1>8, <1>11, <3>1 DEF Begun, SameBut
  <2>2. ASSUME NEW t \in Target PROVE Drawn(t)'
    <3>1. Drawn(t) /\ reservation' = reservation
      BY <1>2, <1>7 DEF Authored
    <3>2. ASSUME NEW q \in Operation, operation'[q].members[t] # "none" PROVE operation[q].members[t] # "none"
      BY <1>6, <1>8, <1>11, <3>2
    <3> QED BY <3>1, <3>2 DEF Drawn
  <2> QED BY <2>1, <2>2 DEF Authored
<1>17. IsPublished(o)'
  <2>1. operation'[o].frozen /\ operation'[o].status = "succeeded" /\ operation'[o].base = L
    BY <1>3, <1>8, <1>11 DEF SameBut
  <2>2. \A t \in Target : operation'[o].members[t] \in {"none", "released"}
    BY <1>6, <1>8, <1>11
  <2>3. L < L + 1
    BY <1>2
  <2> QED BY <1>13, <2>1, <2>2, <2>3 DEF IsPublished
<1>18. Line(L + 1)'
  <2>1. ASSUME NEW t \in Target \ Targets(o)' PROVE Pins(L + 1)'[t] = Pins(L)'[t]
    BY <1>2, <1>5, <1>13, <1>14, <2>1
  <2>2. PICK n \in 1 .. L + 1 : n = L + 1 /\ n - 1 = L
    BY <1>2
  <2>3. Line(n)'
    BY <1>10, <1>13, <1>17, <2>1, <2>2 DEF Line
  <2> QED BY <2>2, <2>3
<1>19. Entitled(L + 1)'
  <2>1. PICK n \in 1 .. L + 1 : n = L + 1 /\ n - 1 = L
    BY <1>2
  <2>2. releases'[n] = r /\ Pins(n - 1)' = Pins(L)
    BY <1>2, <1>13, <2>1
  <2>3. \A t \in Targets(o) : \E v \in Reviewers(o) : <<v, t, operation[o].attempt>> \in approvals[o]
    <3>1. ASSUME NEW t \in Targets(o) PROVE \E v \in Reviewers(o) : <<v, t, operation[o].attempt>> \in approvals[o]
      <4>1. PICK v \in Adopted(o) : v[2] = t
        BY <1>3
      <4>2. v[1] \in Reviewers(o) /\ v = <<v[1], v[2], operation[o].attempt>> /\ v \in approvals[o]
        BY <1>2, ReviewersOf
      <4> QED BY <4>1, <4>2
    <3> QED BY <3>1
  <2>4. operation'[o].base = n - 1 /\ operation'[o].attempt = r.attempt /\ operation'[o].status = "succeeded"
        /\ \A t \in Target : operation'[o].members[t] \in {"none", "released"}
    BY <1>3, <1>6, <1>8, <1>10, <1>11, <2>1 DEF SameBut
  <2>5. \A t \in Target : r.pins[t] = IF t \in Targets(o) THEN o ELSE Pins(n - 1)'[t]
    BY <1>5, <1>10, <2>2
  <2>6. r.reviewers \intersect contributors'[o] = {} /\ r.by \notin contributors'[o] \union r.reviewers
        /\ \A t \in Targets(o) : \E v \in r.reviewers : <<v, t, r.attempt>> \in approvals'[o]
    <3>1. contributors' = contributors /\ approvals' = approvals
      BY <1>7
    <3>2. r.attempt = operation[o].attempt /\ r.by = p /\ r.reviewers = Reviewers(o)
      BY <1>10
    <3>3. Reviewers(o) \intersect contributors[o] = {} /\ p \notin contributors[o] \union Reviewers(o)
      BY <1>3
    <3>4. r.reviewers \intersect contributors'[o] = {} /\ r.by \notin contributors'[o] \union r.reviewers
      BY <3>1, <3>2, <3>3
    <3>5. \A t \in Targets(o) : \E v \in r.reviewers : <<v, t, r.attempt>> \in approvals'[o]
      BY <2>3, <3>1, <3>2, Zenon
    <3> QED BY <3>4, <3>5
  <2>7. EntitledTo(n, o)'
    BY <1>14, <2>2, <2>4, <2>5, <2>6 DEF EntitledTo
  <2>8. Entitled(n)'
    BY <1>10, <2>2, <2>7 DEF Entitled
  <2> QED BY <2>1, <2>8
<1>20. Exact(L + 1)'
  BY <1>10, <1>13 DEF Exact
<1>21. Follows(L, r)
  <2>1. ASSUME NEW t \in Asset PROVE registry'[t] = pins[t] \/ (registry'[t] = None /\ CarriedBack(t))
    <3>1. t \in Target /\ (registry[t] = Pins(L)[t] \/ (registry[t] = None /\ CarriedBack(t)))
      BY <1>2 DEF Target, Inv, Registered, RegistryFollowsManifest
    <3> QED BY <1>5, <1>7, <3>1
  <2>2. ASSUME NEW t \in Object PROVE registry'[t] = IF pins[t] # None THEN pins[t] ELSE registry[t]
    <3>1. t \in Target /\ (Pins(L)[t] # None => registry[t] = Pins(L)[t]) /\ o # None
      BY <1>2, ProductionAssumption DEF Target, ProductionAssumption, Inv, Registered, RegistryFollowsManifest
    <3> QED BY <1>5, <1>7, <3>1
  <2> QED BY <1>10, <2>1, <2>2 DEF Follows
<1>22. Registered'
  BY <1>2, <1>9, <1>12, <1>21, RegistryFollows
<1>23. Inv'
  BY <1>2, <1>9, <1>12, <1>15, <1>16, <1>18, <1>19, <1>20, <1>22, Released
<1>24. ASSUME NEW q \in Operation PROVE Judged(q)
  <2>1. CASE q = o
    BY <1>3, <1>6, <1>8, <1>11, <2>1 DEF Judged, Ended
  <2>2. CASE q # o
    BY <1>11, <2>2 DEF Judged
  <2> QED BY <2>1, <2>2
<1> QED BY <1>23, <1>24 DEF AllJudged

-----------------------------------------------------------------------------
(* The theorems.                                                           *)

LEMMA InvInit ==
    ASSUME Init
    PROVE  Inv
<1>1. NoOperation \in OperationRows /\ None \in Holders /\ None \notin Operation
  BY ProductionAssumption DEF ProductionAssumption, NoOperation, OperationRows, MemberStates, Holders
<1>2. releases = <<>> /\ Latest = 0 /\ DOMAIN releases = {} /\ releases \in Seq(ReleaseRows)
  BY DEF Init, Latest
<1>3. TypeOK
  <2>1. operation \in [Operation -> OperationRows]
    BY <1>1 DEF Init
  <2>2. reservation \in [Target -> [creation: Holders, owner: Holders]] /\ registry \in [Target -> Holders]
    BY <1>1 DEF Init
  <2>3. job \in [Operation -> 0..JobAttempts] /\ retries \in 0..MaxRetries
    BY ProductionAssumption DEF ProductionAssumption, Init
  <2> QED BY <1>2, <2>1, <2>2, <2>3, ProductionAssumption DEF TypeOK, Init, ProductionAssumption
<1>4. \A o \in Operation : ~operation[o].frozen /\ operation[o].status = "none" /\ \A t \in Target : operation[o].members[t] = "none"
  BY DEF Init, NoOperation
<1>5. Authored
  BY <1>4 DEF Authored, Begun, Drawn, Init
<1>6. History /\ ReleaseIsEntitled /\ RollbackIsExact
  BY <1>2 DEF History, HasNewestPin, Pinned, ReleaseIsEntitled, RollbackIsExact
<1>7. Registered
  BY <1>2 DEF Registered, RegistryFollowsManifest, ObjectKeeps, Pinned, Pins, Init, Target
<1> QED BY <1>3, <1>5, <1>6, <1>7 DEF Inv

LEMMA InvNext ==
    ASSUME Inv, [Next]_vars
    PROVE  Inv' /\ AllJudged
<1>1. ASSUME TypeOK' /\ Authored' /\ Undisturbed /\ AllJudged PROVE Inv' /\ AllJudged
  BY <1>1, Undisturbs
<1>2. ASSUME NEW p \in Author, NEW o \in Operation, Draw(p, o) PROVE Inv' /\ AllJudged
  BY <1>1, <1>2, Creates, ReplacesDraft DEF Draw
<1>3. ASSUME NEW o \in Operation, Submit(o) \/ Validate(o) PROVE Inv' /\ AllJudged
  BY <1>1, <1>3, Submits, ValidatesAgain
<1>4. ASSUME NEW w \in Worker, Work(w) PROVE Inv' /\ AllJudged
  BY <1>1, <1>4, Evaluates, Completes, FailsLast, Loses DEF Work
<1>5. ASSUME NEW p \in Reviewer, NEW o \in Operation, Review(p, o) PROVE Inv' /\ AllJudged
  <2>1. PICK T \in (SUBSET Targets(o)) \ {{}} : Approve(p, o, T) \/ Reject(p, o, T)
    BY <1>5 DEF Review
  <2> QED BY <1>1, <2>1, Approves, Rejects
<1>6. CASE UNCHANGED vars
  <2>1. TypeOK /\ Authored
    BY DEF Inv
  <2>2. TypeOK'
    BY <1>6, <2>1 DEF TypeOK, vars, Latest
  <2>3. Authored'
    BY <1>6, <2>1 DEF Authored, Begun, Drawn, vars
  <2>4. Undisturbed
    BY <1>6 DEF Undisturbed, PublishedStays, Stays, vars
  <2> QED BY <1>1, <1>6, <2>1, <2>2, <2>3, <2>4, NoRowChanges DEF vars
<1> QED BY <1>2, <1>3, <1>4, <1>5, <1>6, Publishes, RollsBack, PublishesOrdinary DEF Next

LEMMA SpecInv == Spec => []Inv
<1>1. Init => Inv
  BY InvInit
<1>2. Inv /\ [Next]_vars => Inv'
  BY InvNext
<1> QED BY <1>1, <1>2, PTL DEF Spec

\* Every table holds what it may hold.
THEOREM Types == Spec => []TypeOK
<1>1. Inv => TypeOK
  BY DEF Inv
<1> QED BY <1>1, SpecInv, PTL

\* A released operation was drafted against the manifest it replaces and
\* approved for its active attempt by somebody who wrote none of it, and
\* published by a third person (production_publish.go).
THEOREM ReleasesAreEntitled == Spec => []ReleaseIsEntitled
<1>1. Inv => ReleaseIsEntitled
  BY DEF Inv
<1> QED BY <1>1, SpecInv, PTL

\* Any number of rollbacks alternates between two manifests
\* (production_rollback.go).
THEOREM RollbacksAreExact == Spec => []RollbackIsExact
<1>1. Inv => RollbackIsExact
  BY DEF Inv
<1> QED BY <1>1, SpecInv, PTL

\* The registry holds what the latest release pins, but for the assets that an
\* ordinary release carried back (production_rollback_restore.go,
\* release_publishing.go).
THEOREM RegistryFollowsReleases == Spec => []RegistryFollowsManifest
<1>1. Inv => RegistryFollowsManifest
  BY DEF Inv, Registered
<1> QED BY <1>1, SpecInv, PTL

\* A validation attempt ends once, by a worker that evaluated it, and no late
\* or repeated execution changes its verdict (production_validation_worker.go).
THEOREM VerdictsAreFinal == Spec => VerdictIsFinal
<1>1. Inv /\ [Next]_vars =>
        [\A o \in Operation :
            LET old == operation[o]
                new == operation'[o]
            IN  /\ old.status \in Ended /\ <<new.status, new.members>> # <<old.status, old.members>> =>
                    \/ new.status = "queued" /\ new.attempt = old.attempt + 1
                    \/ new.status = old.status /\ \A t \in Target : new.members[t] \in {old.members[t], "released", "rejected"}
                /\ old.status = "queued" /\ new.status # "queued" =>
                    \E w \in Worker :
                        /\ working[w] # None /\ working[w].op = o /\ working[w].attempt = old.attempt
                        /\ new.status = "succeeded" => working[w].passes /\ old.base = Latest]_vars
  BY InvNext DEF AllJudged, Judged
<1> QED BY <1>1, SpecInv, PTL DEF Spec, VerdictIsFinal

=============================================================================
