------------------------- MODULE Ingestion_proofs --------------------------
(***************************************************************************)
(* Theorems about the two models of ingestion.                             *)
(*                                                                         *)
(* Schedule, for any clocks, expressions, lanes, clients and bounds: the   *)
(* minutes of a schedule are taken up once, in order, and none is lost.    *)
(*                                                                         *)
(* Artifacts, for any contents, uploads, sources, quota and deadlines:     *)
(* what is referred to is in the store, and what is stored is accounted    *)
(* for.                                                                    *)
(***************************************************************************)
EXTENDS Schedule, Artifacts, TLAPS, WellFoundedInduction, FiniteSetTheorems

-----------------------------------------------------------------------------
(* The calendar.                                                           *)

\* A set of minutes has a first one.
LEMMA FirstOne ==
    ASSUME NEW S \in SUBSET Nat, S # {}
    PROVE  Min(S) \in S /\ \A m \in S : Min(S) <= m
<1> DEFINE R == OpToRel(<, Nat)
<1>1. \A x, y \in Nat : y < x => <<y, x>> \in R
  <2> SUFFICES ASSUME NEW x \in Nat, NEW y \in Nat, y < x PROVE <<y, x>> \in R
    OBVIOUS
  <2> DEFINE p == <<y, x>>
  <2>1. p \in Nat \X Nat /\ p[1] < p[2]
    OBVIOUS
  <2> HIDE DEF p
  <2>2. p \in R
    BY <2>1 DEF OpToRel
  <2> QED BY <2>2 DEF p
<1>2. IsWellFoundedOn(R, Nat)
  BY NatLessThanWellFounded
<1> HIDE DEF R
<1>3. PICK x \in S : \A y \in S : ~(<<y, x>> \in R)
  BY <1>2, WFMin
<1>4. \A y \in S : x <= y
  <2> SUFFICES ASSUME NEW y \in S PROVE ~(y < x)
    OBVIOUS
  <2> QED BY <1>1, <1>3
<1> QED BY <1>4 DEF Min

\* Following is the next minute of the expression, if there is one.
LEMMA FollowingIsNext ==
    ASSUME NEW e \in SUBSET (0..(Beyond - 1)), NEW minute \in 0..(Beyond - 1)
    PROVE  /\ Following(e, minute) \in e \union {Beyond}
           /\ Following(e, minute) \in 0..Beyond
           /\ minute < Following(e, minute)
           /\ \A m \in e : minute < m => Following(e, minute) <= m
<1> USE ScheduleAssumption DEF ScheduleAssumption
<1> DEFINE S == {m \in e : m > minute} \union {Beyond}
<1>0. 0..(Beyond - 1) \subseteq Nat /\ Beyond \in Nat /\ minute < Beyond
  OBVIOUS
<1>1. S \in SUBSET Nat /\ S # {}
  BY <1>0
<1>2. Min(S) \in S /\ \A m \in S : Min(S) <= m
  BY <1>1, FirstOne
<1>3. Following(e, minute) = Min(S)
  BY DEF Following
<1> HIDE DEF S
<1>4. e \union {Beyond} \subseteq 0..Beyond
  OBVIOUS
<1>5. Min(S) \in e \union {Beyond} /\ minute < Min(S)
  BY <1>2 DEF S
<1>6. \A m \in e : minute < m => Min(S) <= m
  BY <1>2 DEF S
<1> QED BY <1>3, <1>4, <1>5, <1>6

\* What is due has been shown by the clock, or was passed over.
LEMMA DueWasShown ==
    ASSUME wall \in Zones, NEW minute \in Nat, NEW t \in Instant, EligibleAt(minute) <= t
    PROVE  ShownBefore(minute, t + 1) /\ minute < Beyond
<1> USE ScheduleAssumption DEF ScheduleAssumption, Instant
<1>0. wall \in [Instant -> 0..(Beyond - 1)]
  OBVIOUS
<1> DEFINE S == IF Shows(minute) # {} THEN Shows(minute) ELSE Skips(minute) \union {Horizon + 1}
<1>1. S \in SUBSET Nat /\ S # {}
  <2>1. Shows(minute) \subseteq Nat /\ Skips(minute) \subseteq Nat
    BY DEF Shows, Skips
  <2>2. Horizon + 1 \in Nat
    OBVIOUS
  <2> QED BY <2>1, <2>2, Zenon
<1>2. EligibleAt(minute) \in S
  BY <1>1, FirstOne DEF EligibleAt
<1>3. PICK u \in Instant : u <= t /\ wall[u] >= minute
  <2>1. EligibleAt(minute) \in Shows(minute) \union Skips(minute)
    BY <1>2
  <2>2. EligibleAt(minute) \in Instant /\ wall[EligibleAt(minute)] >= minute
    BY <1>0, <2>1 DEF Shows, Skips
  <2> QED BY <2>2
<1>4. u \in 0..((t + 1) - 1) /\ minute < Beyond
  BY <1>0, <1>3
<1> QED BY <1>3, <1>4 DEF ShownBefore

\* When a minute is due is an instant, or never.
LEMMA EligibleIsInstant ==
    ASSUME NEW minute \in Nat
    PROVE  EligibleAt(minute) \in Nat
<1> USE ScheduleAssumption DEF ScheduleAssumption, Instant
<1> DEFINE S == IF Shows(minute) # {} THEN Shows(minute) ELSE Skips(minute) \union {Horizon + 1}
<1>1. Shows(minute) \subseteq Nat /\ Skips(minute) \subseteq Nat /\ Horizon + 1 \in Nat
  BY DEF Shows, Skips
<1>2. S \in SUBSET Nat /\ S # {}
  BY <1>1, Zenon
<1>3. Min(S) \in S
  BY <1>2, FirstOne
<1> QED BY <1>2, <1>3 DEF EligibleAt

\* Minutes reckoned from the clock come after what it has shown, unless it
\* had shown that before.
LEMMA Reckoned ==
    ASSUME wall \in Zones, NEW m \in Nat, NEW t \in Instant, ShownBefore(m, t + 1),
           NEW n \in Nat, wall[t] < n
    PROVE  m < n \/ ShownBefore(m, t)
<1> USE ScheduleAssumption DEF ScheduleAssumption, Instant
<1>0. wall \in [Instant -> 0..(Beyond - 1)]
  OBVIOUS
<1>1. PICK u \in 0..((t + 1) - 1) : wall[u] >= m
  BY DEF ShownBefore
<1>2. CASE u = t
  BY <1>0, <1>1, <1>2
<1>3. CASE u # t
  <2>1. u \in 0..(t - 1)
    BY <1>1, <1>3
  <2> QED BY <1>1, <2>1 DEF ShownBefore
<1> QED BY <1>2, <1>3

\* The past does not change.
LEMMA StaysShown ==
    ASSUME NEW m \in Nat, NEW t \in Nat, NEW u \in Nat, t <= u, ShownBefore(m, t)
    PROVE  ShownBefore(m, u)
<1>1. PICK k \in 0..(t - 1) : wall[k] >= m
  BY DEF ShownBefore
<1>2. k \in 0..(u - 1)
  OBVIOUS
<1> QED BY <1>1, <1>2 DEF ShownBefore

-----------------------------------------------------------------------------
(* The invariant.                                                          *)

\* What was taken up has been shown by the clock before the instant.
Reached(t) == \A i \in DOMAIN log : ShownBefore(Until(log[i]), t)

\* A row that names minutes after what was taken up.
Ahead(entry) ==
    entry.state = "enabled" =>
        \A i \in DOMAIN log : Until(log[i]) < entry.minute \/ ShownBefore(Until(log[i]), entry.from)

\* A claim of the schedule as it is: of a minute that had come, when nothing
\* later had been taken up.
Sound(w) ==
    batch[w] # NoClaim /\ batch[w].version = schedule.version =>
        /\ batch[w].expression = schedule.expression
        /\ batch[w].at <= now /\ EligibleAt(batch[w].minute) <= batch[w].at
        /\ Reached(batch[w].at + 1)

\* A command on the schedule as it is reckons from what was reached.
Reckons(entry) ==
    entry.version = schedule.version + 1 =>
        /\ Ahead(entry)
        /\ \A m \in entry.expression : entry.state = "enabled" /\ entry.since < m => entry.minute <= m

Versions ==
    /\ \A w \in Worker : batch[w].version <= schedule.version
    /\ \A c \in Client : request[c].version <= schedule.version + 1

IInv ==
    /\ TypeOK /\ Versions
    /\ Reached(now + 1) /\ Ahead(schedule) /\ schedule.start <= Len(log)
    /\ \A w \in Worker : Sound(w)
    /\ \A c \in Client : Reckons(request[c])
    /\ MinuteRunsOnce /\ NoMinuteIsLost

LEMMA InitHolds == Init => IInv
<1> SUFFICES ASSUME Init PROVE IInv
  OBVIOUS
<1> USE ScheduleAssumption DEF ScheduleAssumption
<1>1. TypeOK
  BY DEF Init, TypeOK, Rows, States, Shaped, NoSchedule, NoRequest, NoClaim, Instant, Never
<1>2. Versions
  BY DEF Init, Versions, NoSchedule, NoRequest, NoClaim
<1>3. Reached(now + 1) /\ Ahead(schedule) /\ schedule.start <= Len(log) /\ MinuteRunsOnce /\ NoMinuteIsLost
  BY DEF Init, Reached, Ahead, MinuteRunsOnce, NoMinuteIsLost, NoSchedule
<1>4. \A w \in Worker : Sound(w)
  BY DEF Init, Sound
<1>5. \A c \in Client : Reckons(request[c])
  BY DEF Init, Reckons, NoRequest, NoSchedule
<1> QED BY <1>1, <1>2, <1>3, <1>4, <1>5 DEF IInv

-----------------------------------------------------------------------------
(* Steps that leave the schedule as it is, but for its lease.              *)

SameSchedule ==
    /\ UNCHANGED <<wall, log>>
    /\ now' \in {now, now + 1}
    /\ schedule'.state = schedule.state /\ schedule'.version = schedule.version
    /\ schedule'.expression = schedule.expression /\ schedule'.minute = schedule.minute
    /\ schedule'.from = schedule.from /\ schedule'.since = schedule.since
    /\ schedule'.start = schedule.start

\* What was taken up are minutes.
LEMMA UntilType == ASSUME TypeOK PROVE \A i \in DOMAIN log : Until(log[i]) \in Nat
<1> SUFFICES ASSUME NEW i \in DOMAIN log PROVE Until(log[i]) \in Nat
  OBVIOUS
<1>1. log[i] \in Occurrences
  BY DEF TypeOK
<1> QED BY <1>1 DEF Occurrences, Until

\* They keep what the invariant says of the schedule, and of the claims and
\* requests that they keep.
LEMMA Quiet ==
    ASSUME IInv, SameSchedule
    PROVE  /\ Reached(now + 1)' /\ Ahead(schedule)' /\ (schedule.start <= Len(log))'
           /\ MinuteRunsOnce' /\ NoMinuteIsLost'
           /\ \A w \in Worker : batch'[w] \in {batch[w], NoClaim} => Sound(w)'
           /\ \A entry : Reckons(entry) => Reckons(entry)'
<1> USE ScheduleAssumption DEF ScheduleAssumption
<1>1. \A i \in DOMAIN log : Until(log[i]) \in Nat
  BY UntilType DEF IInv
<1>2. now \in Nat /\ now' \in Nat /\ now <= now'
  BY DEF IInv, TypeOK, SameSchedule, Instant
<1>3. \A m, t : ShownBefore(m, t)' <=> ShownBefore(m, t)
  BY DEF SameSchedule, ShownBefore
<1>4. log' = log
  BY DEF SameSchedule
<1>5. \A t : Reached(t)' <=> Reached(t)
  BY <1>3, <1>4 DEF Reached, Until
<1>6. Reached(now + 1)'
  <2>1. Reached(now + 1)
    BY DEF IInv
  <2>2. Reached(now' + 1)
    <3> SUFFICES ASSUME NEW i \in DOMAIN log PROVE ShownBefore(Until(log[i]), now' + 1)
      BY DEF Reached
    <3>1. ShownBefore(Until(log[i]), now + 1)
      BY <2>1 DEF Reached
    <3> QED BY <1>1, <1>2, <3>1, StaysShown
  <2> QED BY <1>3, <1>4, <2>2 DEF Reached, Until
<1>7. Ahead(schedule)'
  BY <1>3, <1>4 DEF IInv, Ahead, SameSchedule, Until
<1>8. (schedule.start <= Len(log))'
  BY DEF IInv, SameSchedule
<1>9. MinuteRunsOnce'
  BY <1>3, <1>4 DEF IInv, MinuteRunsOnce, Until
<1>10. NoMinuteIsLost'
  BY <1>4 DEF IInv, NoMinuteIsLost, SameSchedule, Accounted
<1>11. ASSUME NEW w \in Worker, batch'[w] \in {batch[w], NoClaim} PROVE Sound(w)'
  <2>1. CASE batch'[w] = NoClaim
    BY <2>1 DEF Sound
  <2>2. CASE batch'[w] = batch[w]
    <3>1. EligibleAt(batch[w].minute)' = EligibleAt(batch[w].minute)
      BY <2>2 DEF EligibleAt, Shows, Skips, SameSchedule
    <3>2. batch[w].at \in Nat
      BY DEF IInv, TypeOK, Instant
    <3>3. Reached(batch[w].at + 1)' <=> Reached(batch[w].at + 1)
      BY <1>3, <1>4, <2>2 DEF Reached, Until
    <3> QED BY <1>2, <2>2, <3>1, <3>2, <3>3 DEF IInv, Sound, SameSchedule
  <2> QED BY <1>11, <2>1, <2>2
<1>12. \A entry : Reckons(entry) => Reckons(entry)'
  BY <1>3, <1>4 DEF Reckons, Ahead, SameSchedule, Until
<1> QED BY <1>6, <1>7, <1>8, <1>9, <1>10, <1>11, <1>12

\* Its conclusion, with what depends on the action, gives the invariant.
LEMMA QuietStep ==
    ASSUME IInv, SameSchedule, TypeOK',
           \A w \in Worker : batch'[w] \in {batch[w], NoClaim} \/ (batch'[w].version = schedule.version /\ Sound(w)'),
           \A c \in Client : request'[c] \in {request[c], NoRequest}
                             \/ (request'[c].version = schedule.version + 1 /\ Reckons(request'[c]))
    PROVE  IInv'
<1>0. schedule.version \in Nat /\ schedule'.version = schedule.version
  BY DEF IInv, TypeOK, Rows, SameSchedule
<1>1. Versions'
  BY <1>0 DEF IInv, Versions, NoClaim, NoRequest, NoSchedule
<1>2. \A w \in Worker : Sound(w)'
  BY Quiet
<1>3. Reckons(NoRequest)
  BY <1>0 DEF Reckons, NoRequest, NoSchedule
<1>4. \A c \in Client : Reckons(request'[c])
  BY <1>3 DEF IInv
<1>5. \A entry : Reckons(entry) => Reckons(entry)'
  BY Quiet
<1>6. \A c \in Client : Reckons(request[c])'
  BY <1>4, <1>5
<1> QED BY <1>1, <1>2, <1>6, Quiet DEF IInv

\* A command reckons from the clock.
LEMMA RowReckons ==
    ASSUME IInv, NEW s \in {"enabled", "paused", "deleted"}, NEW e \in SUBSET (0..(Beyond - 1))
    PROVE  /\ Row(s, e) \in Rows /\ Shaped(Row(s, e))
           /\ Row(s, e).version = schedule.version + 1 /\ Reckons(Row(s, e))
<1> USE ScheduleAssumption DEF ScheduleAssumption
<1>1. /\ schedule.version \in Nat /\ now \in Instant /\ now \in Nat
      /\ wall \in Zones /\ wall[now] \in 0..(Beyond - 1) /\ 0 \in Instant
  <2>1. schedule.version \in Nat /\ now \in Instant /\ wall \in Zones
    BY DEF IInv, TypeOK, Rows
  <2>2. wall \in [Instant -> 0..(Beyond - 1)]
    BY <2>1
  <2> QED BY <2>1, <2>2 DEF Instant
<1>2. /\ Following(e, wall[now]) \in e \union {Beyond}
      /\ Following(e, wall[now]) \in 0..Beyond
      /\ wall[now] < Following(e, wall[now])
      /\ \A m \in e : wall[now] < m => Following(e, wall[now]) <= m
  BY <1>1, FollowingIsNext
<1> DEFINE next == Following(e, wall[now])
<1> HIDE DEF next
<1>3. next \in e \union {Beyond} /\ next \in 0..Beyond /\ wall[now] < next /\ \A m \in e : wall[now] < m => next <= m
  BY <1>2 DEF next
<1>4. Row(s, e) = [state |-> s, version |-> schedule.version + 1, expression |-> e,
                   minute |-> IF s = "enabled" THEN next ELSE Beyond,
                   from |-> IF s = "enabled" THEN now ELSE 0,
                   owner |-> None, leased |-> Never, live |-> FALSE,
                   since |-> IF s = "enabled" THEN wall[now] ELSE 0, start |-> 0]
  BY DEF Row, next
<1>5. Row(s, e) \in Rows /\ Shaped(Row(s, e)) /\ Row(s, e).version = schedule.version + 1
  BY <1>1, <1>3, <1>4 DEF Rows, States, Shaped
<1>6. Ahead(Row(s, e))
  <2> SUFFICES ASSUME s = "enabled", NEW i \in DOMAIN log
               PROVE  Until(log[i]) < next \/ ShownBefore(Until(log[i]), now)
    BY <1>4 DEF Ahead
  <2>1. ShownBefore(Until(log[i]), now + 1) /\ Until(log[i]) \in Nat
    BY UntilType DEF IInv, Reached
  <2> QED BY <1>1, <1>3, <2>1, Reckoned
<1>7. \A m \in Row(s, e).expression :
         Row(s, e).state = "enabled" /\ Row(s, e).since < m => Row(s, e).minute <= m
  <2>1. Row(s, e).expression = e /\ Row(s, e).state = s
    BY <1>4
  <2>2. s = "enabled" => Row(s, e).since = wall[now] /\ Row(s, e).minute = next
    BY <1>4
  <2> QED BY <1>3, <2>1, <2>2
<1> QED BY <1>5, <1>6, <1>7 DEF Reckons

\* Commands up to their transactions.
LEMMA AskStep ==
    ASSUME IInv, NEW c \in Client, NEW s \in {"enabled", "paused", "deleted"},
           NEW e \in SUBSET (0..(Beyond - 1)), Ask(c, Row(s, e))
    PROVE  IInv'
<1>1. /\ Row(s, e) \in Rows /\ Shaped(Row(s, e))
      /\ Row(s, e).version = schedule.version + 1 /\ Reckons(Row(s, e))
  BY RowReckons
<1>2. /\ request' = [request EXCEPT ![c] = Row(s, e)]
      /\ UNCHANGED <<now, wall, schedule, log, batch, commands, faults>>
  BY DEF Ask
<1>3. TypeOK'
  BY <1>1, <1>2 DEF IInv, TypeOK, Shaped
<1>4. SameSchedule
  BY <1>2 DEF SameSchedule
<1>5. \A d \in Client : request'[d] = IF d = c THEN Row(s, e) ELSE request[d]
  BY <1>2 DEF IInv, TypeOK
<1> QED BY <1>1, <1>2, <1>3, <1>4, <1>5, QuietStep

LEMMA CommandStep ==
    ASSUME IInv, NEW c \in Client, AskCreate(c) \/ AskUpdate(c) \/ AskSetEnabled(c) \/ AskDelete(c) \/ Refused(c)
    PROVE  IInv'
<1>0. schedule.expression \in SUBSET (0..(Beyond - 1)) /\ Expressions \subseteq SUBSET (0..(Beyond - 1))
  BY ScheduleAssumption DEF ScheduleAssumption, IInv, TypeOK, Rows
<1>1. CASE AskCreate(c)
  BY <1>0, <1>1, AskStep DEF AskCreate
<1>2. CASE AskUpdate(c)
  BY <1>0, <1>2, AskStep DEF AskUpdate
<1>3. CASE AskSetEnabled(c)
  BY <1>0, <1>3, AskStep DEF AskSetEnabled
<1>4. CASE AskDelete(c)
  BY <1>0, <1>4, AskStep DEF AskDelete
<1>5. CASE Refused(c)
  <2>1. /\ request' = [request EXCEPT ![c] = NoRequest]
        /\ UNCHANGED <<now, wall, schedule, log, batch, commands, faults>>
    BY <1>5 DEF Refused
  <2>2. NoRequest \in Rows /\ Shaped(NoRequest)
    BY ScheduleAssumption DEF ScheduleAssumption, NoRequest, NoSchedule, Rows, Shaped, States, Instant, Never
  <2>3. TypeOK'
    BY <2>1, <2>2 DEF IInv, TypeOK, Shaped
  <2>4. SameSchedule
    BY <2>1 DEF SameSchedule
  <2>5. \A d \in Client : request'[d] \in {request[d], NoRequest}
    BY <2>1 DEF IInv, TypeOK
  <2> QED BY <2>1, <2>3, <2>4, <2>5, QuietStep
<1> QED BY <1>1, <1>2, <1>3, <1>4, <1>5

\* A claim is sound.
LEMMA ClaimStep ==
    ASSUME IInv, NEW w \in Worker, Claim(w)
    PROVE  IInv'
<1> USE ScheduleAssumption DEF ScheduleAssumption
<1>1. PICK late \in Misfires(schedule.minute, now) :
        batch' = [batch EXCEPT ![w] = [version |-> schedule.version, minute |-> schedule.minute,
                                       expression |-> schedule.expression, at |-> now, late |-> late]]
  BY DEF Claim
<1>2. /\ UNCHANGED <<now, wall, log, request, commands, faults>>
      /\ schedule' = [schedule EXCEPT !.owner = w, !.leased = now, !.live = TRUE]
      /\ schedule.state = "enabled" /\ EligibleAt(schedule.minute) <= now
  BY DEF Claim, Due
<1>3. late \in BOOLEAN
  BY DEF Misfires
<1>4. schedule \in Rows /\ Shaped(schedule) /\ now \in Instant
  BY DEF IInv, TypeOK
<1>5. schedule' \in Rows /\ Shaped(schedule')
  BY <1>2, <1>4 DEF Rows, Shaped
<1>6. TypeOK'
  <2>1. batch' \in [Worker -> [version : Nat, minute : 0..Beyond, expression : SUBSET (0..(Beyond - 1)),
                               at : Instant, late : BOOLEAN]]
    BY <1>1, <1>3, <1>4 DEF IInv, TypeOK, Rows
  <2> QED BY <1>2, <1>5, <2>1 DEF IInv, TypeOK, Shaped
<1>7. SameSchedule
  BY <1>2, <1>4 DEF SameSchedule, Rows
<1>8. batch'[w] = [version |-> schedule.version, minute |-> schedule.minute,
                   expression |-> schedule.expression, at |-> now, late |-> late]
  BY <1>1 DEF IInv, TypeOK
<1>9. Sound(w)'
  <2>1. Reached(now + 1)'
    BY <1>7, Quiet
  <2>2. EligibleAt(schedule.minute)' <= now
    BY <1>2, <1>7 DEF EligibleAt, Shows, Skips, SameSchedule
  <2>3. batch'[w].at = now' /\ now' \in Nat /\ now' = now
    BY <1>2, <1>4, <1>8 DEF Instant
  <2>4. /\ batch'[w].expression = schedule'.expression
        /\ batch'[w].minute = schedule'.minute
    BY <1>7, <1>8 DEF SameSchedule
  <2>5. EligibleAt(batch[w].minute)' <= batch'[w].at
    BY <2>2, <2>3, <2>4
  <2>6. Reached(batch[w].at + 1)'
    BY <2>1, <2>3
  <2> QED BY <2>3, <2>4, <2>5, <2>6 DEF Sound
<1>10. \A v \in Worker \ {w} : batch'[v] = batch[v]
  BY <1>1 DEF IInv, TypeOK
<1>11. batch'[w].version = schedule.version
  BY <1>8
<1> QED BY <1>2, <1>6, <1>7, <1>9, <1>10, <1>11, QuietStep

\* Claims that are given up.
LEMMA DropStep ==
    ASSUME IInv, NEW w \in Worker, Conflict(w) \/ Lose(w)
    PROVE  IInv'
<1>1. /\ batch' = [batch EXCEPT ![w] = NoClaim]
      /\ UNCHANGED <<now, wall, schedule, log, request, commands>>
      /\ faults' \in Nat
  BY DEF Conflict, Lose, IInv, TypeOK
<1>2. NoClaim \in [version : Nat, minute : 0..Beyond, expression : SUBSET (0..(Beyond - 1)),
                   at : Instant, late : BOOLEAN]
  BY ScheduleAssumption DEF ScheduleAssumption, NoClaim, Instant
<1>3. TypeOK'
  BY <1>1, <1>2 DEF IInv, TypeOK, Shaped
<1>4. SameSchedule
  BY <1>1 DEF SameSchedule
<1>5. \A v \in Worker : batch'[v] \in {batch[v], NoClaim}
  BY <1>1 DEF IInv, TypeOK
<1> QED BY <1>1, <1>3, <1>4, <1>5, QuietStep

\* Time and the end of leases.
LEMMA TimeStep ==
    ASSUME IInv, Lapse \/ Tick
    PROVE  IInv'
<1>1. schedule \in Rows /\ Shaped(schedule) /\ now \in Instant
  BY DEF IInv, TypeOK
<1>2. /\ UNCHANGED <<wall, log, batch, request, commands>>
      /\ \E live \in BOOLEAN : (live => schedule.live) /\ schedule' = [schedule EXCEPT !.live = live]
      /\ faults' \in Nat /\ now' \in Instant /\ now' \in {now, now + 1}
  <2>1. CASE Lapse
    <3>1. schedule' = [schedule EXCEPT !.live = FALSE] /\ UNCHANGED <<now, wall, log, batch, request, commands>>
      BY <2>1 DEF Lapse
    <3>2. faults' \in Nat
      BY <2>1 DEF Lapse, IInv, TypeOK
    <3> QED BY <1>1, <3>1, <3>2
  <2>2. CASE Tick
    <3>1. schedule' = [schedule EXCEPT !.live = schedule.live /\ schedule.leased = now]
      BY <2>2 DEF Tick
    <3>2. now' \in Instant
      BY <1>1, <2>2, ScheduleAssumption DEF ScheduleAssumption, Tick, Instant
    <3> QED BY <1>1, <2>2, <3>1, <3>2 DEF Tick, IInv, TypeOK, Rows
  <2> QED BY <2>1, <2>2
<1>3. schedule' \in Rows /\ Shaped(schedule')
  BY <1>1, <1>2 DEF Rows, Shaped
<1>4. TypeOK'
  BY <1>2, <1>3 DEF IInv, TypeOK, Shaped
<1>5. SameSchedule
  BY <1>1, <1>2 DEF SameSchedule, Rows
<1> QED BY <1>2, <1>4, <1>5, QuietStep

-----------------------------------------------------------------------------
(* Steps that move the schedule on: no claim or request stays current.     *)

LEMMA MoveOn ==
    ASSUME IInv, schedule'.version = schedule.version + 1,
           \A w \in Worker : batch'[w] \in {batch[w], NoClaim},
           \A c \in Client : request'[c] \in {request[c], NoRequest}
    PROVE  Versions' /\ (\A w \in Worker : Sound(w)') /\ (\A c \in Client : Reckons(request[c])')
<1>1. /\ schedule.version \in Nat
      /\ \A w \in Worker : batch[w].version \in Nat /\ batch[w].version <= schedule.version
      /\ \A c \in Client : request[c].version \in Nat /\ request[c].version <= schedule.version + 1
  BY DEF IInv, TypeOK, Versions, Rows
<1>2. NoClaim.version = 0 /\ NoRequest.version = 0
  BY DEF NoClaim, NoRequest, NoSchedule
<1>3. Versions'
  BY <1>1, <1>2 DEF Versions
<1>4. ASSUME NEW w \in Worker PROVE Sound(w)'
  <2>1. CASE batch'[w] = NoClaim
    BY <2>1 DEF Sound
  <2>2. CASE batch'[w] = batch[w]
    BY <1>1, <2>2 DEF Sound
  <2> QED BY <2>1, <2>2
<1>5. ASSUME NEW c \in Client PROVE Reckons(request[c])'
  <2>1. request'[c].version # schedule'.version + 1
    BY <1>1, <1>2
  <2> QED BY <2>1 DEF Reckons
<1> QED BY <1>3, <1>4, <1>5

LEMMA MutateStep ==
    ASSUME IInv, NEW c \in Client, Mutate(c)
    PROVE  IInv'
<1>1. /\ schedule' = [request[c] EXCEPT !.start = Len(log)]
      /\ request' = [request EXCEPT ![c] = NoRequest]
      /\ request[c].version = schedule.version + 1
      /\ commands' = commands + 1
      /\ UNCHANGED <<now, wall, log, batch, faults>>
  BY DEF Mutate
<1>2. request[c] \in Rows /\ Shaped(request[c]) /\ Reckons(request[c]) /\ Len(log) \in Nat
  BY DEF IInv, TypeOK
<1>3. schedule' \in Rows /\ Shaped(schedule')
  BY <1>1, <1>2 DEF Rows, Shaped
<1>4. NoRequest \in Rows /\ Shaped(NoRequest)
  BY ScheduleAssumption DEF ScheduleAssumption, NoRequest, NoSchedule, Rows, Shaped, States, Instant, Never
<1>5. TypeOK'
  BY <1>1, <1>3, <1>4 DEF IInv, TypeOK, Shaped
<1>6. \A d \in Client : request'[d] \in {request[d], NoRequest}
  BY <1>1 DEF IInv, TypeOK
<1>7. /\ schedule'.state = request[c].state /\ schedule'.version = schedule.version + 1
      /\ schedule'.expression = request[c].expression /\ schedule'.minute = request[c].minute
      /\ schedule'.from = request[c].from /\ schedule'.since = request[c].since
      /\ schedule'.start = Len(log)
  BY <1>1, <1>2 DEF Rows
<1>8. Reached(now + 1)' /\ MinuteRunsOnce'
  BY <1>1 DEF IInv, Reached, ShownBefore, MinuteRunsOnce, Until
<1>9. Ahead(schedule)' /\ (schedule.start <= Len(log))'
  <2>1. Ahead(request[c])
    BY <1>1, <1>2 DEF Reckons
  <2> QED BY <1>1, <1>2, <1>7, <2>1 DEF Ahead, ShownBefore, Until
<1>10. NoMinuteIsLost'
  <2>1. \A m \in request[c].expression :
          request[c].state = "enabled" /\ request[c].since < m => request[c].minute <= m
    BY <1>1, <1>2 DEF Reckons
  <2>2. request[c].minute \in 0..Beyond /\ request[c].expression \in SUBSET (0..(Beyond - 1))
    BY <1>2 DEF Rows
  <2>3. \A m \in request[c].expression :
          request[c].state = "enabled" => ~(request[c].since < m /\ m < request[c].minute)
    BY <2>1, <2>2, ScheduleAssumption DEF ScheduleAssumption
  <2> QED BY <1>2, <1>7, <2>3 DEF NoMinuteIsLost, Shaped
<1> QED BY <1>1, <1>5, <1>6, <1>7, <1>8, <1>9, <1>10, MoveOn DEF IInv

\* A claim that is completed: of the minute that is next, which had come; what
\* follows is reckoned from it, or from the clock.
LEMMA Completed ==
    ASSUME IInv, NEW w \in Worker, Complete(w),
           NEW base, base = IF batch[w].late THEN wall[batch[w].at] ELSE batch[w].minute,
           NEW o, o = [minute |-> batch[w].minute, from |-> schedule.from,
                       missed |-> IF batch[w].late THEN wall[batch[w].at] ELSE batch[w].minute],
           NEW next, next = NextAfter(batch[w])
    PROVE  /\ schedule.state = "enabled" /\ batch[w].minute = schedule.minute
           /\ batch[w].at \in Instant /\ batch[w].at <= now /\ Reached(batch[w].at + 1)
           /\ batch[w].minute \in 0..(Beyond - 1) /\ base \in 0..(Beyond - 1) /\ o \in Occurrences
           /\ Until(o) = (IF base > batch[w].minute THEN base ELSE batch[w].minute)
           /\ ShownBefore(Until(o), batch[w].at + 1)
           /\ next \in schedule.expression \union {Beyond} /\ next \in 0..Beyond /\ base < next
           /\ \A m \in schedule.expression : base < m => next <= m
           /\ EligibleAt(schedule.minute) <= now
<1> USE ScheduleAssumption DEF ScheduleAssumption
<1>1. /\ schedule.state = "enabled" /\ batch[w].minute = schedule.minute
      /\ batch[w] # NoClaim /\ batch[w].version = schedule.version
  BY DEF Complete, Fenced
<1>2. /\ batch[w].expression = schedule.expression /\ batch[w].at <= now
      /\ EligibleAt(batch[w].minute) <= batch[w].at /\ Reached(batch[w].at + 1)
  BY <1>1 DEF IInv, Sound
<1>3. /\ batch[w].minute \in 0..Beyond /\ batch[w].at \in Instant /\ batch[w].late \in BOOLEAN
      /\ schedule.expression \in SUBSET (0..(Beyond - 1)) /\ schedule.from \in Instant
      /\ wall \in Zones /\ now \in Nat
  <2>1. batch[w] \in [version : Nat, minute : 0..Beyond, expression : SUBSET (0..(Beyond - 1)),
                      at : Instant, late : BOOLEAN]
    BY DEF IInv, TypeOK
  <2>2. schedule.expression \in SUBSET (0..(Beyond - 1)) /\ schedule.from \in Instant
    BY DEF IInv, TypeOK, Rows
  <2>3. wall \in Zones /\ now \in Nat
    BY DEF IInv, TypeOK, Instant
  <2> QED BY <2>1, <2>2, <2>3
<1>4. wall \in [Instant -> 0..(Beyond - 1)]
  BY <1>3
<1>5. ShownBefore(batch[w].minute, batch[w].at + 1) /\ batch[w].minute < Beyond
  BY <1>2, <1>3, DueWasShown
<1>6. batch[w].minute \in 0..(Beyond - 1) /\ base \in 0..(Beyond - 1)
  BY <1>3, <1>4, <1>5
<1>7. o \in Occurrences /\ Until(o) = (IF base > batch[w].minute THEN base ELSE batch[w].minute)
  BY <1>3, <1>6 DEF Occurrences, Until
<1>8. ShownBefore(Until(o), batch[w].at + 1)
  <2>1. CASE base > batch[w].minute
    <3>1. base = wall[batch[w].at] /\ batch[w].at \in 0..((batch[w].at + 1) - 1)
      BY <1>3, <1>6, <2>1 DEF Instant
    <3> QED BY <1>6, <1>7, <2>1, <3>1 DEF ShownBefore
  <2>2. CASE ~(base > batch[w].minute)
    BY <1>5, <1>7, <2>2
  <2> QED BY <2>1, <2>2
<1>9. next = Following(schedule.expression, base)
  BY <1>2 DEF NextAfter
<1>10. EligibleAt(schedule.minute) <= now
  <2>1. EligibleAt(schedule.minute) \in Nat
    BY EligibleIsInstant, <1>3, <1>1
  <2>2. batch[w].at \in Nat
    BY <1>3 DEF Instant
  <2> QED BY <1>1, <1>2, <1>3, <2>1, <2>2
<1>11. /\ next \in schedule.expression \union {Beyond} /\ next \in 0..Beyond /\ base < next
       /\ \A m \in schedule.expression : base < m => next <= m
  BY <1>3, <1>6, <1>9, FollowingIsNext
<1>12. /\ schedule.state = "enabled" /\ batch[w].minute = schedule.minute
       /\ batch[w].at \in Instant /\ batch[w].at <= now /\ Reached(batch[w].at + 1)
  BY <1>1, <1>2, <1>3
<1> QED BY <1>6, <1>7, <1>8, <1>10, <1>11, <1>12, Zenon

LEMMA CompleteStep ==
    ASSUME IInv, NEW w \in Worker, Complete(w)
    PROVE  IInv'
<1> USE ScheduleAssumption DEF ScheduleAssumption
<1> DEFINE here == batch[w].at
           minute == batch[w].minute
           base == IF batch[w].late THEN wall[batch[w].at] ELSE batch[w].minute
           o == [minute |-> batch[w].minute, from |-> schedule.from,
                 missed |-> IF batch[w].late THEN wall[batch[w].at] ELSE batch[w].minute]
           next == NextAfter(batch[w])
           n == Len(log) + 1
<1>1. /\ log' = Append(log, o)
      /\ schedule' = [schedule EXCEPT !.minute = next, !.from = IF batch[w].late THEN here ELSE @,
                                      !.owner = None, !.leased = Never, !.live = FALSE, !.version = @ + 1]
      /\ batch' = [batch EXCEPT ![w] = NoClaim]
      /\ UNCHANGED <<now, wall, request, commands, faults>>
  BY DEF Complete
<1>2. /\ schedule.state = "enabled" /\ minute = schedule.minute
      /\ here \in Instant /\ here <= now /\ Reached(here + 1)
      /\ minute \in 0..(Beyond - 1) /\ base \in 0..(Beyond - 1) /\ o \in Occurrences
      /\ Until(o) = (IF base > minute THEN base ELSE minute)
      /\ ShownBefore(Until(o), here + 1)
      /\ next \in schedule.expression \union {Beyond} /\ next \in 0..Beyond /\ base < next
      /\ \A m \in schedule.expression : base < m => next <= m
  BY Completed
<1>3. o.minute = minute /\ o.missed = base /\ o.from = schedule.from
  OBVIOUS
<1>4. batch[w].late => base = wall[here]
  OBVIOUS
<1>5. ~batch[w].late => base = minute
  OBVIOUS
<1> HIDE DEF here, minute, base, o, next
<1>6. /\ schedule \in Rows /\ Shaped(schedule) /\ now \in Nat /\ here \in Nat /\ wall \in Zones /\ batch[w].late \in BOOLEAN
      /\ \A t \in Instant : wall[t] \in 0..(Beyond - 1)
  <2>1. wall \in [Instant -> 0..(Beyond - 1)]
    BY DEF IInv, TypeOK
  <2> QED BY <1>2, <2>1, SMTT(30) DEF IInv, TypeOK, Instant
<1>7. /\ log' \in Seq(Occurrences) /\ Len(log) \in Nat /\ DOMAIN log = 1..Len(log) /\ DOMAIN log' = 1..n
      /\ Len(log') = n /\ log'[n] = o /\ \A i \in DOMAIN log : log'[i] = log[i]
  <2>1. log \in Seq(Occurrences) /\ o \in Occurrences
    BY <1>2 DEF IInv, TypeOK
  <2>2. log' = Append(log, o)
    BY <1>1
  <2>3. Len(log) \in Nat /\ DOMAIN log = 1..Len(log)
    BY <2>1
  <2>4. log' \in Seq(Occurrences) /\ Len(log') = n
    BY <2>1, <2>2
  <2>5. DOMAIN log' = 1..n /\ log'[n] = o
    BY <2>1, <2>2, <2>3, <2>4
  <2>6. \A i \in DOMAIN log : log'[i] = log[i]
    BY <2>1, <2>2, <2>3
  <2> QED BY <2>3, <2>4, <2>5, <2>6
<1>8. \A i \in DOMAIN log : Until(log[i]) \in Nat
  BY UntilType DEF IInv
<1>9. /\ schedule'.state = "enabled" /\ schedule'.version = schedule.version + 1
      /\ schedule'.expression = schedule.expression /\ schedule'.minute = next
      /\ schedule'.from = (IF batch[w].late THEN here ELSE schedule.from)
      /\ schedule'.since = schedule.since /\ schedule'.start = schedule.start
  BY <1>1, <1>2, <1>6 DEF Rows
<1>10. schedule' \in Rows /\ Shaped(schedule')
  <2>1. Shaped(schedule')
    BY <1>1, <1>2, <1>6, <1>9 DEF Rows, Shaped
  <2>2. (IF batch[w].late THEN here ELSE schedule.from) \in Instant
    BY <1>2, <1>6 DEF Rows
  <2>3. /\ schedule.version + 1 \in Nat /\ next \in 0..Beyond
        /\ None \in Worker \union {None} /\ Never \in Instant \union {Never}
    BY <1>2, <1>6 DEF Rows
  <2>4. schedule' \in Rows
    <3> DEFINE from == IF batch[w].late THEN here ELSE schedule.from
    <3>1. from \in Instant
      BY <2>2
    <3>2. schedule' = [schedule EXCEPT !.minute = next, !.from = from,
                         !.owner = None, !.leased = Never, !.live = FALSE, !.version = schedule.version + 1]
      BY <1>1, <1>6 DEF Rows
    <3> HIDE DEF from
    <3> QED BY <1>6, <2>3, <3>1, <3>2 DEF Rows
  <2> QED BY <2>1, <2>4
<1>11. NoClaim \in [version : Nat, minute : 0..Beyond, expression : SUBSET (0..(Beyond - 1)),
                   at : Instant, late : BOOLEAN]
  BY DEF NoClaim, Instant
<1>12. TypeOK'
  BY <1>1, <1>7, <1>10, <1>11 DEF IInv, TypeOK, Shaped
<1>13. \A v \in Worker : batch'[v] \in {batch[v], NoClaim}
  BY <1>1 DEF IInv, TypeOK
<1>14. Versions' /\ (\A v \in Worker : Sound(v)') /\ (\A c \in Client : Reckons(request[c])')
  BY <1>1, <1>9, <1>13, MoveOn
<1>15. \A m, t : ShownBefore(m, t)' <=> ShownBefore(m, t)
  BY <1>1 DEF ShownBefore
<1> DEFINE Shown(i) == Until(log'[i]) \in Nat /\ ShownBefore(Until(log'[i]), here + 1)
           Kept(i) == i # n => Until(log'[i]) = Until(log[i])
<1>16. \A i \in 1..n : Shown(i) /\ Kept(i)
  <2> SUFFICES ASSUME NEW i \in 1..n PROVE Shown(i) /\ Kept(i)
    OBVIOUS
  <2>1. CASE i = n
    BY <1>2, <1>7, <2>1
  <2>2. CASE i # n
    <3>1. i \in DOMAIN log /\ log'[i] = log[i]
      BY <1>7, <2>2
    <3> QED BY <1>2, <1>8, <3>1 DEF Reached
  <2> QED BY <2>1, <2>2
<1> HIDE DEF Shown, Kept
<1>17. Reached(now + 1)'
  <2>1. \A i \in 1..n : ShownBefore(Until(log'[i]), now + 1)
    <3> SUFFICES ASSUME NEW i \in 1..n PROVE ShownBefore(Until(log'[i]), now + 1)
      OBVIOUS
    <3>0. Shown(i)
      BY <1>16
    <3>1. Until(log'[i]) \in Nat /\ ShownBefore(Until(log'[i]), here + 1)
      BY <3>0 DEF Shown
    <3>2. here + 1 \in Nat /\ now + 1 \in Nat /\ here + 1 <= now + 1
      BY <1>2, <1>6
    <3> QED BY <3>1, <3>2, StaysShown
  <2>2. \A i : Until(log[i])' = Until(log'[i])
    BY DEF Until
  <2> QED BY <1>1, <1>7, <1>15, <2>1, <2>2 DEF Reached
<1>18. \A i \in 1..n : Until(log'[i]) < next \/ ShownBefore(Until(log'[i]), schedule'.from)
  <2> SUFFICES ASSUME NEW i \in 1..n
               PROVE  Until(log'[i]) < next \/ ShownBefore(Until(log'[i]), schedule'.from)
    OBVIOUS
  <2>1. CASE batch[w].late
    <3>0. Shown(i)
      BY <1>16
    <3>1. Until(log'[i]) \in Nat /\ ShownBefore(Until(log'[i]), here + 1)
      BY <3>0 DEF Shown
    <3>2. wall[here] < next /\ next \in Nat /\ here \in Instant /\ wall \in Zones /\ schedule'.from = here
      BY <1>2, <1>4, <1>6, <1>9, <2>1
    <3> QED BY <3>1, <3>2, Reckoned
  <2>2. CASE ~batch[w].late /\ i = n
    BY <1>2, <1>5, <1>7, <2>2
  <2>3. CASE ~batch[w].late /\ i # n
    <3>1. i \in DOMAIN log /\ Until(log'[i]) = Until(log[i]) /\ Until(log[i]) \in Nat
      <4>1. Kept(i)
        BY <1>16
      <4> QED BY <1>7, <1>8, <2>3, <4>1 DEF Kept
    <3>2. Until(log[i]) < minute \/ ShownBefore(Until(log[i]), schedule.from)
      BY <1>2, <3>1 DEF IInv, Ahead
    <3> QED BY <1>2, <1>5, <1>9, <2>3, <3>1, <3>2
  <2> QED BY <2>1, <2>2, <2>3
<1>19. Ahead(schedule)'
  BY <1>7, <1>9, <1>15, <1>18 DEF Ahead, Until
<1>20. (schedule.start <= Len(log))' /\ schedule.start \in Nat /\ schedule.start <= Len(log)
  BY <1>6, <1>7, <1>9 DEF IInv, Rows
<1>21. MinuteRunsOnce'
  <2> SUFFICES ASSUME NEW i \in 1..n, NEW j \in 1..n, i < j
               PROVE  Until(log'[i]) < log'[j].minute \/ ShownBefore(Until(log'[i]), log'[j].from)
    BY <1>7, <1>15 DEF MinuteRunsOnce, Until
  <2>1. i \in DOMAIN log /\ Until(log'[i]) = Until(log[i])
    <3>1. Kept(i)
      BY <1>16
    <3> QED BY <1>7, <3>1 DEF Kept
  <2>2. CASE j = n
    BY <1>2, <1>3, <1>7, <2>1, <2>2 DEF IInv, Ahead
  <2>3. CASE j # n
    <3>1. j \in DOMAIN log /\ log'[j] = log[j]
      BY <1>7, <2>3, SMTT(30)
    <3> QED BY <2>1, <3>1 DEF IInv, MinuteRunsOnce
  <2> QED BY <2>2, <2>3
<1>22. NoMinuteIsLost'
  <2>1. schedule'.minute \in schedule'.expression \union {Beyond}
    BY <1>2, <1>9
  <2>2. ASSUME NEW m \in schedule.expression, schedule.since < m, m < next
        PROVE  \E i \in (schedule.start + 1)..n :
                  log'[i].minute = m \/ (log'[i].minute < m /\ m <= log'[i].missed)
    <3>1. m \in Nat /\ m <= base
      BY <1>2, <1>6, <2>2 DEF Rows
    <3>2. CASE m < minute
      <4>1. Accounted(m)
        BY <1>2, <2>2, <3>2 DEF IInv, NoMinuteIsLost
      <4>2. PICK i \in (schedule.start + 1)..Len(log) :
              log[i].minute = m \/ (log[i].minute < m /\ m <= log[i].missed)
        BY <4>1 DEF Accounted
      <4>3. i \in (schedule.start + 1)..n /\ log'[i] = log[i]
        BY <1>7, <1>20, <4>2
      <4> QED BY <4>2, <4>3
    <3>3. CASE minute <= m
      <4>1. n \in (schedule.start + 1)..n /\ log'[n].minute = minute /\ log'[n].missed = base
        BY <1>3, <1>7, <1>20
      <4>2. minute = m \/ minute < m
        BY <1>2, <3>1, <3>3
      <4> QED BY <3>1, <4>1, <4>2
    <3> QED BY <1>2, <3>1, <3>2, <3>3
  <2> QED BY <1>7, <1>9, <2>1, <2>2 DEF NoMinuteIsLost, Accounted
<1> QED BY <1>12, <1>14, <1>17, <1>19, <1>20, <1>21, <1>22 DEF IInv

-----------------------------------------------------------------------------
LEMMA NextHolds == IInv /\ [Next]_vars => IInv'
<1> SUFFICES ASSUME IInv, [Next]_vars PROVE IInv'
  OBVIOUS
<1>1. ASSUME NEW c \in Client, AskCreate(c) \/ AskUpdate(c) \/ AskSetEnabled(c) \/ AskDelete(c) \/ Refused(c)
      PROVE  IInv'
  BY <1>1, CommandStep
<1>2. ASSUME NEW c \in Client, Mutate(c) PROVE IInv'
  BY <1>2, MutateStep
<1>3. ASSUME NEW w \in Worker, Claim(w) PROVE IInv'
  BY <1>3, ClaimStep
<1>4. ASSUME NEW w \in Worker, Complete(w) PROVE IInv'
  BY <1>4, CompleteStep
<1>5. ASSUME NEW w \in Worker, Conflict(w) \/ Lose(w) PROVE IInv'
  BY <1>5, DropStep
<1>6. CASE Lapse \/ Tick
  BY <1>6, TimeStep
<1>7. CASE UNCHANGED vars
  <2>1. UNCHANGED <<now, wall, schedule, log, batch, request, commands, faults>>
    BY <1>7 DEF vars
  <2>2. SameSchedule /\ TypeOK'
    BY <2>1 DEF SameSchedule, IInv, TypeOK, Shaped
  <2> QED BY <2>1, <2>2, QuietStep
<1> QED BY <1>1, <1>2, <1>3, <1>4, <1>5, <1>6, <1>7 DEF Next

LEMMA Invariance == Spec => []IInv
  BY InitHolds, NextHolds, PTL DEF Spec

-----------------------------------------------------------------------------
(* The theorems.                                                           *)

\* Rows, claims and requests keep their types and shapes.
THEOREM Types == Spec => []TypeOK
<1>1. IInv => TypeOK
  BY DEF IInv
<1> QED BY <1>1, Invariance, PTL

\* The minutes of a schedule are taken up in order, each once, but for those
\* reckoned from a clock that was set back (MinuteRunsOnce).
THEOREM TakenUpOnce == Spec => []MinuteRunsOnce
<1>1. IInv => MinuteRunsOnce
  BY DEF IInv
<1> QED BY <1>1, Invariance, PTL

\* No minute is passed over in silence (NoMinuteIsLost).
THEOREM NoneIsLost == Spec => []NoMinuteIsLost
<1>1. IInv => NoMinuteIsLost
  BY DEF IInv
<1> QED BY <1>1, Invariance, PTL

\* What is recorded is due at that moment, of a schedule that is enabled and
\* names it now (OccurrenceIsCurrent).
THEOREM RecordedWhenDue == Spec => OccurrenceIsCurrent
<1> DEFINE Step == log' # log =>
                     LET o == log'[Len(log')] IN
                     /\ Due /\ o.minute = schedule.minute /\ o.minute \in schedule.expression
<1>1. IInv /\ [Next]_vars => [Step]_vars
  <2> SUFFICES ASSUME IInv, [Next]_vars, log' # log
               PROVE  /\ Due /\ log'[Len(log')].minute = schedule.minute
                      /\ log'[Len(log')].minute \in schedule.expression
    BY Zenon
  <2>1. PICK w \in Worker : Complete(w)
    BY DEF Next, vars, AskCreate, AskUpdate, AskSetEnabled, AskDelete, Ask, Mutate, Refused,
           Claim, Conflict, Lose, Lapse, Tick
  <2> DEFINE o == [minute |-> batch[w].minute, from |-> schedule.from,
                   missed |-> IF batch[w].late THEN wall[batch[w].at] ELSE batch[w].minute]
  <2>2. log' = Append(log, o) /\ o.minute = batch[w].minute
    BY <2>1 DEF Complete
  <2>3. /\ schedule.state = "enabled" /\ batch[w].minute = schedule.minute
        /\ batch[w].minute \in 0..(Beyond - 1) /\ o \in Occurrences
        /\ EligibleAt(schedule.minute) <= now
    BY <2>1, Completed
  <2> HIDE DEF o
  <2>4. log \in Seq(Occurrences)
    BY DEF IInv, TypeOK
  <2>5. log'[Len(log')] = o
    BY <2>2, <2>3, <2>4
  <2>6. schedule.minute \in schedule.expression
    BY <2>3, ScheduleAssumption DEF ScheduleAssumption, IInv, TypeOK, Shaped
  <2> QED BY <2>2, <2>3, <2>5, <2>6 DEF Due
<1> QED BY <1>1, Invariance, PTL DEF Spec, OccurrenceIsCurrent

-----------------------------------------------------------------------------
(* Artifacts: the inductive invariant.                                     *)
(*                                                                         *)
(* While a deletion is under way every table is locked, so that what made  *)
(* it legal, Doomed, still holds when its row goes.                        *)


FilesShapes ==
    /\ DOMAIN row = Content
    /\ \A h \in Handler : at[h].step # "idle" => at[h].key \in Key
    /\ \/ set = NoSet
       \/ set \in [keys: SUBSET Key, source: Source, version: 0..MaxVersion]
    /\ \/ erasing = NotErasing
       \/ erasing \in [by: Handler \union {Cleaner}, content: Content, gone: BOOLEAN]

\* What sets, runs and snapshots refer to was uploaded, and the upload was
\* validated, which it stays.
Validated(d) == \E k \in Key : upload[k].state = "validated" /\ file[k].content = d
Pinned ==
    /\ \A d \in history : Validated(d)
    /\ \A s \in Source :
          /\ source[s].current \subseteq source[s].past
          /\ \A d \in source[s].past \union pins[s] : Validated(d)

UploadsAreRetained == \A d \in Content : Pending(d) => row[d].state = "retained"

\* A reservation lasts until the object is written, and the object until its
\* upload is recorded, but for what outlived them.
Working(h) ==
    /\ at[h].step = "put" => Charged(ContentOf(h)) \/ ContentOf(h) \in doubtful
    /\ at[h].step = "create" => ContentOf(h) \in store \union doubtful

\* What is being erased is charged, nobody needs it, and once it is gone nobody
\* can put it back unnoticed.
Doomed ==
    erasing # NotErasing =>
        LET d == erasing.content IN
        /\ Charged(d) /\ ~Held(d)
        /\ \A k \in Key : upload[k].state = "uploaded" /\ file[k].content = d
               => erasing.by = Cleaner /\ k \in Overdue(d)
        /\ erasing.gone /\ d \notin doubtful => d \notin store /\ ~Outlived(d)

There ==
    \A d \in Content \ doubtful :
        (Pending(d) \/ Held(d)) /\ ~(erasing.gone /\ erasing.content = d) => d \in store

ChargedContents == {d \in Content : Charged(d)}
Accounts ==
    /\ IsFiniteSet(ChargedContents) /\ used = Cardinality(ChargedContents)
    /\ \A d \in store \ doubtful : Charged(d)
    /\ \A d \in Content : Charged(d) /\ row[d].until = NoDeadline => InActiveSet(d)

FilesInv ==
    /\ FilesTypeOK /\ FilesShapes
    /\ Pinned /\ UploadsAreRetained
    /\ \A h \in Handler : Working(h)
    /\ Doomed /\ There /\ Accounts

LEMMA LaterIs == ASSUME NEW a \in Int, NEW b \in Int PROVE Later(a, b) = IF a >= b THEN a ELSE b
<1>1. Later(a, b) = CHOOSE x \in {a, b} : \A y \in {a, b} : x >= y
  BY DEF Later, Max
<1>2. \E x \in {a, b} : \A y \in {a, b} : x >= y
  OBVIOUS
<1>3. Later(a, b) \in {a, b} /\ \A y \in {a, b} : Later(a, b) >= y
  BY <1>1, <1>2
<1> QED BY <1>3

LEMMA FilesNames ==
           /\ Unset \notin Content /\ Unset \notin Key /\ Unset \notin Source /\ Unset \notin Handler
           /\ Unset # Cleaner /\ Cleaner \notin Handler
           /\ Mixes \subseteq [Key -> [content: Content, source: Source, first: BOOLEAN]]
           /\ MaxObjects \in [Mixes -> Nat \ {0}]
           /\ Reservation \in Nat /\ Retention \in Nat /\ Retention > Reservation
           /\ MaxVersion \in Nat /\ MaxCount \in Nat /\ MaxCount > 0
  BY ArtifactAssumption DEF ArtifactAssumption, Files

LEMMA FileIs ==
    ASSUME FilesInv, NEW k \in Key
    PROVE  file[k].content \in Content /\ file[k].source \in Source /\ file[k].first \in BOOLEAN
  BY FilesNames DEF FilesInv, FilesTypeOK

LEMMA WorkingHasKey ==
    ASSUME FilesInv, NEW h \in Handler
    PROVE  /\ at[h] \in [step: Steps, key: Key \union {Unset}, version: 0..MaxVersion]
           /\ at[h].step # "idle" => at[h].key \in Key /\ ContentOf(h) \in Content
  BY FileIs DEF FilesInv, FilesTypeOK, FilesShapes, ContentOf, FileOf

LEMMA RowIs ==
    ASSUME FilesInv, NEW d \in Content
    PROVE  /\ row[d] \in [state: {"none", "reserved", "retained", "deleted"}, count: 0..MaxCount,
                          until: {-1} \union 0..Retention]
           /\ row[d].state = "reserved" => row[d].count \in 1..MaxCount /\ row[d].until \in 0..Retention
           /\ row[d].state # "reserved" => row[d].count = 0
           /\ row[d].state \in {"none", "deleted"} => row[d].until = -1
  BY FilesNames DEF FilesInv, FilesTypeOK, Deadlines, NoDeadline

RowFits(r) ==
    \/ r \in [state: {"reserved"}, count: 1..MaxCount, until: 0..Retention]
    \/ r \in [state: {"retained"}, count: {0}, until: Deadlines]
    \/ r \in [state: {"none", "deleted"}, count: {0}, until: {NoDeadline}]

LEMMA FilesStart == FilesInit => FilesInv
<1> SUFFICES ASSUME FilesInit PROVE FilesInv
  OBVIOUS
<1> USE FilesNames DEF FilesInit, NoDeadline, NoUpload, NoRow, NoSource, NoSet,
        NotErasing, Idle
<1>1. FilesTypeOK
  <2>1. file \in Mixes /\ 0 \in 0..MaxObjects[file]
    OBVIOUS
  <2>2. at \in [Handler -> [step: Steps, key: Key \union {Unset}, version: 0..MaxVersion]]
    BY DEF Steps
  <2>3. \A d \in Content : row[d] \in [state: {"none", "deleted"}, count: {0}, until: {NoDeadline}]
    OBVIOUS
  <2>4. source \in [Source -> [state: {"none", "active", "deleted"}, version: 0..MaxVersion,
                              current: SUBSET Content, past: SUBSET Content]]
    OBVIOUS
  <2>5. upload \in [Key -> [state: {"none", "uploaded", "validated", "rejected"}, until: Deadlines]]
    BY DEF Deadlines
  <2> QED BY <2>1, <2>2, <2>3, <2>4, <2>5 DEF FilesTypeOK
<1>2. FilesShapes /\ Pinned
  BY DEF FilesShapes, Pinned
<1>3. UploadsAreRetained /\ \A h \in Handler : Working(h)
  BY DEF UploadsAreRetained, Pending, Working
<1>4. Doomed /\ There
  BY DEF Doomed, There, Pending, Held, InActiveSet, InActiveRun
<1>5. Accounts
  <2>1. ChargedContents = {}
    BY DEF ChargedContents, Charged
  <2> QED BY <2>1, FS_EmptySet DEF Accounts, Charged
<1> QED BY <1>1, <1>2, <1>3, <1>4, <1>5 DEF FilesInv

-----------------------------------------------------------------------------
(* Steps that leave the rows of the database as they are.                  *)

Database == <<file, upload, row, used, source, pins, history>>

\* A step that leaves the tables and the store as they are.
LEMMA OnlyRequests ==
    ASSUME FilesInv, UNCHANGED Database, UNCHANGED <<store, erasing, doubtful>>,
           at' \in [Handler -> [step: Steps, key: Key \union {Unset}, version: 0..MaxVersion]],
           \A h \in Handler :
               \/ at'[h] = at[h]
               \/ /\ at'[h].step \notin {"put", "create"}
                  /\ at'[h].step # "idle" => at'[h].key \in Key
                  /\ at'[h].step = "release" =>
                        at[h].step \in {"put", "create", "release"} /\ at'[h].key = at[h].key,
           set' = set \/ set' = NoSet \/ set' \in [keys: SUBSET Key, source: Source, version: 0..MaxVersion]
    PROVE  FilesInv'
<1> USE DEF Database
<1>1. FilesTypeOK'
  <2>1. set'.keys \subseteq Key
    BY DEF FilesInv, FilesTypeOK, NoSet
  <2> QED BY <2>1 DEF FilesInv, FilesTypeOK
<1>2. FilesShapes'
  BY DEF FilesInv, FilesShapes
<1>3. Pinned' /\ UploadsAreRetained'
  BY DEF FilesInv, Pinned, Validated, UploadsAreRetained, Pending
<1>4. ASSUME NEW h \in Handler PROVE Working(h)'
  BY DEF FilesInv, Working, Charged, ContentOf, FileOf
<1>5. Doomed'
  <2>1. ASSUME NEW d, ~Outlived(d) PROVE ~Outlived(d)'
    BY <2>1 DEF Outlived, ContentOf, FileOf
  <2> QED BY <2>1 DEF FilesInv, Doomed, Charged, Held, InActiveSet, InActiveRun, Overdue
<1>6. There'
  BY DEF FilesInv, There, Pending, Held, InActiveSet, InActiveRun
<1>7. Accounts'
  BY DEF FilesInv, Accounts, ChargedContents, Charged, InActiveSet
<1> QED BY <1>1, <1>2, <1>3, <1>4, <1>5, <1>6, <1>7 DEF FilesInv

LEMMA RequestsKeep ==
    ASSUME FilesInv,
           \/ \E h \in Handler : NotReserved(h) \/ CreatedBefore(h) \/ NotCreated(h) \/ NothingToRelease(h)
           \/ \E h \in Handler, k \in Key : Stage(h, k)
           \/ \E keys \in (SUBSET Key) \ {{}}, s \in Source : ReadMembers(keys, s)
           \/ NotFinalized
    PROVE  FilesInv'
<1>1. UNCHANGED Database /\ UNCHANGED <<store, erasing, doubtful>>
  BY DEF Database, sourceVars, NotReserved, CreatedBefore, NotCreated, NothingToRelease, Stage,
         ReadMembers, NotFinalized
<1>2. ASSUME NEW h \in Handler, NotReserved(h) \/ CreatedBefore(h) \/ NothingToRelease(h)
      PROVE  FilesInv'
  <2>1. at' = [at EXCEPT ![h] = Idle] /\ set' = set
    BY <1>2 DEF NotReserved, CreatedBefore, NothingToRelease, GoIdle
  <2>2. Idle \in [step: Steps, key: Key \union {Unset}, version: 0..MaxVersion] /\ Idle.step = "idle"
    BY FilesNames DEF Idle, Steps
  <2>3. at \in [Handler -> [step: Steps, key: Key \union {Unset}, version: 0..MaxVersion]]
    BY DEF FilesInv, FilesTypeOK
  <2> QED BY <1>1, <2>1, <2>2, <2>3, OnlyRequests
<1>3. ASSUME NEW h \in Handler, NotCreated(h) PROVE FilesInv'
  <2>1. /\ at' = [at EXCEPT ![h] = [at[h] EXCEPT !.step = "release"]] /\ set' = set
        /\ at[h].step = "create"
    BY <1>3 DEF NotCreated, GoTo, FilesInv, FilesTypeOK
  <2>2. at \in [Handler -> [step: Steps, key: Key \union {Unset}, version: 0..MaxVersion]]
    BY DEF FilesInv, FilesTypeOK
  <2> DEFINE moved == [at[h] EXCEPT !.step = "release"]
  <2>3. /\ moved \in [step: Steps, key: Key \union {Unset}, version: 0..MaxVersion]
        /\ moved.step = "release" /\ moved.key = at[h].key /\ moved.key \in Key
    BY <2>1, <2>2, WorkingHasKey DEF Steps
  <2> HIDE DEF moved
  <2> QED BY <1>1, <2>1, <2>2, <2>3, OnlyRequests DEF moved
<1>4. ASSUME NEW h \in Handler, NEW k \in Key, Stage(h, k) PROVE FilesInv'
  <2> DEFINE started == [step |-> "reserve", key |-> k,
                         version |-> IF file[k].first THEN 0 ELSE source[file[k].source].version]
  <2>1. at' = [at EXCEPT ![h] = started] /\ set' = set
    BY <1>4 DEF Stage
  <2>2. at \in [Handler -> [step: Steps, key: Key \union {Unset}, version: 0..MaxVersion]]
    BY DEF FilesInv, FilesTypeOK
  <2>3. /\ started \in [step: Steps, key: Key \union {Unset}, version: 0..MaxVersion]
        /\ started.step = "reserve" /\ started.key = k
    BY FileIs, FilesNames DEF Steps, FilesInv, FilesTypeOK
  <2> HIDE DEF started
  <2> QED BY <1>1, <2>1, <2>2, <2>3, OnlyRequests
<1>5. ASSUME NEW keys \in (SUBSET Key) \ {{}}, NEW s \in Source, ReadMembers(keys, s) PROVE FilesInv'
  <2>1. set' \in [keys: SUBSET Key, source: Source, version: 0..MaxVersion] /\ at' = at
    BY <1>5 DEF ReadMembers, FilesInv, FilesTypeOK
  <2>2. at \in [Handler -> [step: Steps, key: Key \union {Unset}, version: 0..MaxVersion]]
    BY DEF FilesInv, FilesTypeOK
  <2> QED BY <1>1, <2>1, <2>2, OnlyRequests
<1>6. ASSUME NotFinalized PROVE FilesInv'
  <2>1. set' = NoSet /\ at' = at
    BY <1>6 DEF NotFinalized
  <2>2. at \in [Handler -> [step: Steps, key: Key \union {Unset}, version: 0..MaxVersion]]
    BY DEF FilesInv, FilesTypeOK
  <2> QED BY <1>1, <2>1, <2>2, OnlyRequests
<1> QED BY <1>2, <1>3, <1>4, <1>5, <1>6

LEMMA PutKeeps ==
    ASSUME FilesInv, NEW h \in Handler, Put(h) \/ PutFails(h)
    PROVE  FilesInv'
<1> DEFINE c == file[at[h].key].content
<1>1. /\ at[h].step = "put" /\ at[h].key \in Key /\ c \in Content /\ ContentOf(h) = c
      /\ at[h] \in [step: Steps, key: Key \union {Unset}, version: 0..MaxVersion]
  BY WorkingHasKey DEF Put, PutFails, ContentOf, FileOf
<1>2. /\ UNCHANGED Database /\ UNCHANGED <<set, erasing, doubtful>>
      /\ store \subseteq store' /\ store' \subseteq store \union {c}
  BY <1>1 DEF Put, PutFails, Database, sourceVars
<1>3. /\ at' \in [Handler -> [step: Steps, key: Key \union {Unset}, version: 0..MaxVersion]]
      /\ \A g \in Handler \ {h} : at'[g] = at[g]
      /\ at'[h].key = at[h].key /\ at'[h].step \in {"create", "release"}
      /\ at'[h].step = "create" => store' = store \union {c}
  <2>1. \E step \in {"create", "release"} :
           /\ at' = [at EXCEPT ![h] = [at[h] EXCEPT !.step = step]]
           /\ step = "create" => store' = store \union {c}
    BY <1>1 DEF Put, PutFails, GoTo, FilesInv, FilesTypeOK
  <2> QED BY <1>1, <2>1 DEF FilesInv, FilesTypeOK, Steps
<1> USE DEF Database
<1>4. FilesTypeOK' /\ FilesShapes'
  <2>1. FilesTypeOK'
    BY <1>1, <1>2, <1>3 DEF FilesInv, FilesTypeOK
  <2>2. FilesShapes'
    BY <1>1, <1>2, <1>3 DEF FilesInv, FilesShapes
  <2> QED BY <2>1, <2>2
<1>5. Pinned' /\ UploadsAreRetained'
  BY <1>2 DEF FilesInv, Pinned, Validated, UploadsAreRetained, Pending
<1>6. ASSUME NEW g \in Handler PROVE Working(g)'
  BY <1>1, <1>2, <1>3 DEF FilesInv, Working, Charged, ContentOf, FileOf
<1>7. Doomed'
  <2> SUFFICES ASSUME erasing # NotErasing PROVE Doomed'
    BY <1>2 DEF Doomed
  <2> DEFINE d == erasing.content
  <2>1. Charged(d)' /\ ~Held(d)'
    BY <1>2 DEF FilesInv, Doomed, Charged, Held, InActiveSet, InActiveRun
  <2>2. \A k \in Key : upload'[k].state = "uploaded" /\ file'[k].content = d
               => erasing'.by = Cleaner /\ k \in Overdue(d)'
    BY <1>2 DEF FilesInv, Doomed, Overdue
  <2>3. ASSUME erasing.gone, d \notin doubtful PROVE d \notin store' /\ ~Outlived(d)'
    <3>1. d \notin store /\ ~Outlived(d)
      BY <2>3 DEF FilesInv, Doomed
    <3>2. d # c
      BY <1>1, <3>1 DEF Outlived
    <3> QED BY <1>1, <1>2, <1>3, <3>1, <3>2 DEF Outlived, ContentOf, FileOf
  <2> QED BY <1>2, <2>1, <2>2, <2>3 DEF Doomed
<1>8. There'
  BY <1>2 DEF FilesInv, There, Pending, Held, InActiveSet, InActiveRun
<1>9. Accounts'
  <2>1. Charged(c) \/ c \in doubtful
    BY <1>1 DEF FilesInv, Working
  <2> QED BY <1>2, <2>1 DEF FilesInv, Accounts, ChargedContents, Charged, InActiveSet
<1> QED BY <1>4, <1>5, <1>6, <1>7, <1>8, <1>9 DEF FilesInv

-----------------------------------------------------------------------------
(* Transactions.                                                           *)

\* While no deletion is under way, what refers to a content finds it in the store.
LEMMA ThereWhileFree ==
    ASSUME FilesInv, LockFree
    PROVE  /\ \A d \in Content \ doubtful : Pending(d) \/ Held(d) => d \in store
           /\ ~erasing.gone
  BY DEF FilesInv, There, LockFree, NotErasing

\* An upload that only ends, or is rejected.
LEMMA UploadsEnd ==
    ASSUME FilesInv, LockFree, UNCHANGED <<file, row, used, store, sourceVars, set, erasing, doubtful>>,
           upload' \in [Key -> [state: {"none", "uploaded", "validated", "rejected"}, until: Deadlines]],
           \A k \in Key : upload'[k] # upload[k] =>
               upload[k].state \in {"none", "uploaded"} /\ upload'[k].state = "rejected",
           at' \in [Handler -> [step: Steps, key: Key \union {Unset}, version: 0..MaxVersion]],
           \A h \in Handler : at'[h] = at[h] \/ at'[h].step = "idle"
    PROVE  FilesInv'
<1> USE DEF sourceVars, LockFree
<1>1. FilesTypeOK' /\ FilesShapes'
  <2>1. FilesTypeOK'
    BY DEF FilesInv, FilesTypeOK
  <2>2. FilesShapes'
    BY DEF FilesInv, FilesShapes
  <2> QED BY <2>1, <2>2
<1>2. /\ \A d : Validated(d) => Validated(d)'
      /\ \A d \in Content : Pending(d)' => Pending(d)
  BY DEF Validated, Pending
<1>3. Pinned' /\ UploadsAreRetained'
  BY <1>2 DEF FilesInv, Pinned, UploadsAreRetained
<1>4. ASSUME NEW h \in Handler PROVE Working(h)'
  BY DEF FilesInv, Working, Charged, ContentOf, FileOf
<1>5. Doomed'
  BY DEF Doomed, NotErasing
<1>6. There'
  BY <1>2, ThereWhileFree DEF FilesInv, There, Held, InActiveSet, InActiveRun
<1>7. Accounts'
  BY DEF FilesInv, Accounts, ChargedContents, Charged, InActiveSet
<1> QED BY <1>1, <1>3, <1>4, <1>5, <1>6, <1>7 DEF FilesInv

LEMMA RejectKeeps == ASSUME FilesInv, NEW h \in Handler, Reject(h) PROVE FilesInv'
<1>1. at' = [at EXCEPT ![h] = Idle]
  BY DEF Reject, GoIdle
<1>2. Idle \in [step: Steps, key: Key \union {Unset}, version: 0..MaxVersion] /\ Idle.step = "idle"
  BY FilesNames DEF Idle, Steps
<1>3. \/ upload' = upload
      \/ /\ upload[at[h].key].state = "none"
         /\ upload' = [upload EXCEPT ![at[h].key] = [upload[at[h].key] EXCEPT !.state = "rejected"]]
  BY DEF Reject
<1>4. upload \in [Key -> [state: {"none", "uploaded", "validated", "rejected"}, until: Deadlines]]
  BY DEF FilesInv, FilesTypeOK
<1>5. /\ upload' \in [Key -> [state: {"none", "uploaded", "validated", "rejected"}, until: Deadlines]]
      /\ \A k \in Key : upload'[k] # upload[k] =>
               upload[k].state \in {"none", "uploaded"} /\ upload'[k].state = "rejected"
  BY <1>3, <1>4
<1>6. /\ at' \in [Handler -> [step: Steps, key: Key \union {Unset}, version: 0..MaxVersion]]
      /\ \A g \in Handler : at'[g] = at[g] \/ at'[g].step = "idle"
  BY <1>1, <1>2 DEF FilesInv, FilesTypeOK
<1>7. LockFree /\ UNCHANGED <<file, row, used, store, sourceVars, set, erasing, doubtful>>
  BY DEF Reject
<1> QED BY <1>5, <1>6, <1>7, UploadsEnd

\* What cleanup makes of the uploads of a content.
LEMMA ExpiredIs ==
    ASSUME FilesInv, NEW d
    PROVE  /\ Expired(d) \in [Key -> [state: {"none", "uploaded", "validated", "rejected"}, until: Deadlines]]
           /\ \A k \in Key : k \in Overdue(d) => /\ upload[k].state = "uploaded" /\ file[k].content = d
                                                 /\ Expired(d)[k].state = "rejected"
           /\ \A k \in Key : k \notin Overdue(d) => Expired(d)[k] = upload[k]
<1>1. Overdue(d) \subseteq Key /\ \A k \in Overdue(d) : upload[k].state = "uploaded" /\ file[k].content = d
  BY DEF Overdue
<1>2. upload \in [Key -> [state: {"none", "uploaded", "validated", "rejected"}, until: Deadlines]]
  BY DEF FilesInv, FilesTypeOK
<1>3. [state |-> "rejected", until |-> NoDeadline]
         \in [state: {"none", "uploaded", "validated", "rejected"}, until: Deadlines]
  BY DEF Deadlines
<1> QED BY <1>1, <1>2, <1>3 DEF Expired

LEMMA CleanUploadsKeeps == ASSUME FilesInv, NEW d \in Content, CleanUploads(d) PROVE FilesInv'
<1>1. upload' = Expired(d) /\ LockFree /\ at' = at
      /\ UNCHANGED <<file, row, used, store, sourceVars, set, erasing, doubtful>>
  BY DEF CleanUploads
<1>2. /\ upload' \in [Key -> [state: {"none", "uploaded", "validated", "rejected"}, until: Deadlines]]
      /\ \A k \in Key : upload'[k] # upload[k] =>
               upload[k].state \in {"none", "uploaded"} /\ upload'[k].state = "rejected"
  BY <1>1, ExpiredIs
<1>3. at \in [Handler -> [step: Steps, key: Key \union {Unset}, version: 0..MaxVersion]]
  BY DEF FilesInv, FilesTypeOK
<1> QED BY <1>1, <1>2, <1>3, UploadsEnd

\* A transaction that takes nothing out of the store: what it has to keep.
LEMMA TransactionKeeps ==
    ASSUME FilesInv, LockFree, UNCHANGED <<file, store, erasing>>,
           doubtful \subseteq doubtful', doubtful' \subseteq Content,
           pins' \in [Source -> SUBSET Content], history' \subseteq Content,
           DOMAIN row' = Content, \A d \in Content : RowFits(row'[d]),
           \A d \in Content : Charged(d) => Charged(d)',
           \A d \in Content : Charged(d)' /\ row'[d].until = NoDeadline => InActiveSet(d)',
           IsFiniteSet(ChargedContents'), used' = Cardinality(ChargedContents'),
           used' \in 0..MaxObjects[file],
           at' \in [Handler -> [step: Steps, key: Key \union {Unset}, version: 0..MaxVersion]],
           \A h \in Handler : at'[h].step # "idle" => at'[h].key \in Key,
           \A h \in Handler : Working(h)',
           upload' \in [Key -> [state: {"none", "uploaded", "validated", "rejected"}, until: Deadlines]],
           \A d \in Content : Pending(d)' => row'[d].state = "retained",
           source' \in [Source -> [state: {"none", "active", "deleted"}, version: 0..MaxVersion,
                                   current: SUBSET Content, past: SUBSET Content]],
           Pinned',
           \A d \in Content \ doubtful' : Pending(d)' \/ Held(d)' => d \in store,
           set' = set \/ set' = NoSet
    PROVE  FilesInv'
<1>1. FilesTypeOK'
  <2>1. set'.keys \subseteq Key
    BY DEF FilesInv, FilesTypeOK, NoSet
  <2> QED BY <2>1 DEF FilesInv, FilesTypeOK, RowFits
<1>2. FilesShapes'
  BY DEF FilesInv, FilesShapes
<1>3. UploadsAreRetained'
  BY DEF UploadsAreRetained
<1>4. Doomed' /\ There'
  BY DEF LockFree, Doomed, There
<1>5. Accounts'
  BY DEF FilesInv, Accounts, FilesTypeOK
<1> QED BY <1>1, <1>2, <1>3, <1>4, <1>5 DEF FilesInv

\* If the same contents are charged, so many are.
LEMMA SameCharged ==
    ASSUME FilesInv, \A d \in Content : Charged(d)' <=> Charged(d), used' = used, UNCHANGED file
    PROVE  /\ IsFiniteSet(ChargedContents') /\ used' = Cardinality(ChargedContents')
           /\ used' \in 0..MaxObjects[file]
<1>1. ChargedContents' = ChargedContents
  BY DEF ChargedContents
<1> QED BY <1>1 DEF FilesInv, Accounts, FilesTypeOK

LEMMA ReservedFits ==
    ASSUME FilesInv, NEW h \in Handler, at[h].step = "reserve", NEW hour \in 0..Reservation,
           row[ContentOf(h)].count < MaxCount
    PROVE  LET d == ContentOf(h) IN
           /\ RowFits(Reserved(h, hour))
           /\ Reserved(h, hour).state \in {"reserved", "retained"}
           /\ row[d].state = "retained" => Reserved(h, hour).state = "retained"
           /\ Reserved(h, hour).until = NoDeadline =>
                 row[d].state = "retained" /\ row[d].until = NoDeadline
<1> DEFINE d == ContentOf(h)
           r == row[d]
<1>1. d \in Content
  BY WorkingHasKey
<1>2. /\ r \in [state: {"none", "reserved", "retained", "deleted"}, count: 0..MaxCount, until: {-1} \union 0..Retention]
      /\ r.state = "reserved" => r.count \in 1..MaxCount /\ r.until \in 0..Retention
      /\ r.state # "reserved" => r.count = 0
      /\ r.state \in {"none", "deleted"} => r.until = -1
  BY <1>1, RowIs
<1>3. hour \in 0..Retention /\ hour \in Int /\ r.until \in Int /\ MaxCount \in Nat /\ MaxCount > 0
  BY <1>2, FilesNames
<1>4. Extended(r.until, hour) = IF r.until >= hour THEN r.until ELSE hour
  BY <1>3, LaterIs DEF Extended
<1> SUFFICES ASSUME NEW q, q = Reserved(h, hour)
             PROVE  /\ RowFits(q) /\ q.state \in {"reserved", "retained"}
                    /\ r.state = "retained" => q.state = "retained"
                    /\ q.until = NoDeadline => r.state = "retained" /\ r.until = NoDeadline
  OBVIOUS
<1>5. CASE r.state \in {"none", "deleted"}
  <2>1. q = [state |-> "reserved", count |-> 1, until |-> hour]
    BY <1>5 DEF Reserved
  <2> QED BY <2>1, <1>3, <1>5 DEF RowFits, NoDeadline
<1>6. CASE r.state = "reserved"
  <2>1. q = [r EXCEPT !.count = r.count + 1, !.until = Extended(r.until, hour)]
    BY <1>6 DEF Reserved
  <2>2. r.count + 1 \in 1..MaxCount /\ Extended(r.until, hour) \in 0..Retention
    <3>1. r.count \in 1..MaxCount /\ r.count < MaxCount /\ r.until \in 0..Retention /\ Retention \in Nat
      BY <1>2, <1>6, FilesNames
    <3> QED BY <3>1, <1>3, <1>4
  <2>3. q = [state |-> "reserved", count |-> r.count + 1, until |-> Extended(r.until, hour)]
    BY <2>1, <1>2, <1>6
  <2> QED BY <2>2, <2>3, <1>6 DEF RowFits, NoDeadline
<1>7. CASE r.state = "retained" /\ r.until # NoDeadline
  <2>1. q = [r EXCEPT !.until = Extended(r.until, hour)]
    BY <1>7 DEF Reserved
  <2>2. q \in [state: {"retained"}, count: {0}, until: Deadlines] /\ q.until # -1
    BY <2>1, <1>2, <1>3, <1>4, <1>7 DEF Deadlines, NoDeadline
  <2> QED BY <2>2, <1>7 DEF RowFits, NoDeadline
<1>8. CASE r.state = "retained" /\ r.until = NoDeadline
  <2>1. q = r
    BY <1>8 DEF Reserved
  <2>2. r \in [state: {"retained"}, count: {0}, until: Deadlines]
    BY <1>2, <1>8 DEF Deadlines
  <2> QED BY <2>1, <2>2, <1>8 DEF RowFits
<1> QED BY <1>2, <1>5, <1>6, <1>7, <1>8

LEMMA Fits == ASSUME FilesInv, NEW d \in Content PROVE RowFits(row[d])
  BY DEF FilesInv, FilesTypeOK, RowFits

LEMMA ReserveKeeps == ASSUME FilesInv, NEW h \in Handler, Reserve(h) PROVE FilesInv'
<1>0. PICK c : c = ContentOf(h)
  OBVIOUS
<1>1. /\ at[h].step = "reserve" /\ LockFree /\ c \in Content /\ at[h].key \in Key
      /\ NeedsQuota(c) => used < MaxObjects[file]
      /\ row[c].count < MaxCount
      /\ used' = IF NeedsQuota(c) THEN used + 1 ELSE used
      /\ UNCHANGED <<file, upload, store, source, pins, history, set, erasing, doubtful>>
      /\ at' = [at EXCEPT ![h] = [at[h] EXCEPT !.step = "put"]]
  BY <1>0, WorkingHasKey DEF Reserve, GoTo, sourceVars
<1>2. PICK hour \in 0..Reservation : row' = [row EXCEPT ![c] = Reserved(h, hour)]
  BY <1>0 DEF Reserve
<1> DEFINE q == Reserved(h, hour)
<1>3. /\ RowFits(q) /\ q.state \in {"reserved", "retained"}
      /\ row[c].state = "retained" => q.state = "retained"
      /\ q.until = NoDeadline => row[c].state = "retained" /\ row[c].until = NoDeadline
  BY <1>0, <1>1, ReservedFits
<1> HIDE DEF q
<1>4. /\ DOMAIN row' = Content /\ row'[c] = q
      /\ \A d \in Content \ {c} : row'[d] = row[d]
  BY <1>1, <1>2 DEF FilesInv, FilesShapes, q
<1>5. \A d \in Content : RowFits(row'[d])
  BY <1>3, <1>4, Fits
<1>6. \A d \in Content : Charged(d) => Charged(d)'
  BY <1>3, <1>4 DEF Charged
<1>7. Charged(c)' /\ \A d \in Content \ {c} : Charged(d)' <=> Charged(d)
  BY <1>1, <1>3, <1>4 DEF Charged
<1>8. ASSUME NEW d \in Content, Charged(d)', row'[d].until = NoDeadline PROVE InActiveSet(d)'
  <2>1. Charged(d) /\ row[d].until = NoDeadline
    BY <1>3, <1>4, <1>7, <1>8 DEF Charged
  <2> QED BY <2>1, <1>1 DEF FilesInv, Accounts, InActiveSet
<1>9. NeedsQuota(c) <=> ~Charged(c)
  BY <1>1, RowIs DEF NeedsQuota, Charged
<1>10. /\ IsFiniteSet(ChargedContents') /\ used' = Cardinality(ChargedContents')
       /\ used' \in 0..MaxObjects[file]
  <2>1. ChargedContents' = ChargedContents \union {c}
    BY <1>1, <1>7 DEF ChargedContents
  <2>2. /\ IsFiniteSet(ChargedContents) /\ used = Cardinality(ChargedContents)
        /\ used \in 0..MaxObjects[file] /\ MaxObjects[file] \in Nat
    BY FilesNames DEF FilesInv, Accounts, FilesTypeOK
  <2>3. c \in ChargedContents <=> ~NeedsQuota(c)
    BY <1>1, <1>9 DEF ChargedContents
  <2>4. /\ IsFiniteSet(ChargedContents \union {c})
        /\ Cardinality(ChargedContents \union {c}) = used'
    BY <1>1, <2>2, <2>3, FS_AddElement
  <2> QED BY <1>1, <2>1, <2>2, <2>4
<1>11. /\ at' \in [Handler -> [step: Steps, key: Key \union {Unset}, version: 0..MaxVersion]]
       /\ \A g \in Handler \ {h} : at'[g] = at[g]
       /\ at'[h].key = at[h].key /\ at'[h].step = "put"
  BY <1>1, WorkingHasKey DEF FilesInv, FilesTypeOK, Steps
<1>12. \A g \in Handler : at'[g].step # "idle" => at'[g].key \in Key
  BY <1>1, <1>11 DEF FilesInv, FilesShapes
<1>13. ASSUME NEW g \in Handler PROVE Working(g)'
  <2>1. CASE g = h
    <3>1. ContentOf(h)' = c
      BY <1>0, <1>1, <1>11 DEF ContentOf, FileOf
    <3> QED BY <1>11, <2>1, <3>1, <1>4, <1>3 DEF Working, Charged
  <2>2. CASE g # h
    <3>1. at'[g] = at[g] /\ ContentOf(g)' = ContentOf(g) /\ Working(g)
      BY <1>1, <1>11, <2>2 DEF ContentOf, FileOf, FilesInv
    <3>2. at[g].step = "put" => ContentOf(g) \in Content
      BY WorkingHasKey
    <3> QED BY <1>1, <1>6, <3>1, <3>2 DEF Working, Charged
  <2> QED BY <2>1, <2>2
<1>14. \A d \in Content : Pending(d)' => row'[d].state = "retained"
  BY <1>1, <1>3, <1>4 DEF FilesInv, UploadsAreRetained, Pending
<1>15. Pinned'
  BY <1>1 DEF FilesInv, Pinned, Validated
<1>16. \A d \in Content \ doubtful' : Pending(d)' \/ Held(d)' => d \in store
  BY <1>1, ThereWhileFree DEF Pending, Held, InActiveSet, InActiveRun
<1>17. /\ upload' \in [Key -> [state: {"none", "uploaded", "validated", "rejected"}, until: Deadlines]]
       /\ source' \in [Source -> [state: {"none", "active", "deleted"}, version: 0..MaxVersion,
                                   current: SUBSET Content, past: SUBSET Content]]
       /\ pins' \in [Source -> SUBSET Content] /\ history' \subseteq Content
       /\ doubtful' \subseteq Content
  BY <1>1 DEF FilesInv, FilesTypeOK
<1> QED
  BY <1>1, <1>4, <1>5, <1>6, <1>8, <1>10, <1>11, <1>12, <1>13, <1>14, <1>15, <1>16, <1>17, TransactionKeeps

LEMMA FilesTables ==
    ASSUME FilesInv
    PROVE  /\ at \in [Handler -> [step: Steps, key: Key \union {Unset}, version: 0..MaxVersion]]
           /\ \A h \in Handler : at[h].step # "idle" => at[h].key \in Key
           /\ \A h \in Handler : Working(h)
           /\ upload \in [Key -> [state: {"none", "uploaded", "validated", "rejected"}, until: Deadlines]]
           /\ DOMAIN row = Content
           /\ source \in [Source -> [state: {"none", "active", "deleted"}, version: 0..MaxVersion,
                                     current: SUBSET Content, past: SUBSET Content]]
           /\ pins \in [Source -> SUBSET Content] /\ history \subseteq Content
           /\ doubtful \subseteq Content
           /\ Pinned /\ UploadsAreRetained
           /\ \A d \in Content : Charged(d) /\ row[d].until = NoDeadline => InActiveSet(d)
  BY DEF FilesInv, FilesTypeOK, FilesShapes, Accounts

LEMMA CreateKeeps == ASSUME FilesInv, NEW h \in Handler, Create(h) PROVE FilesInv'
<1> USE FilesTables
<1>1. PICK k : k = at[h].key
  OBVIOUS
<1>2. PICK c : c = file[k].content
  OBVIOUS
<1>3. /\ at[h].step = "create" /\ LockFree /\ c \in Content /\ k \in Key /\ ContentOf(h) = c
      /\ upload[k].state = "none" /\ row[c].state \in {"reserved", "retained"}
      /\ UNCHANGED <<file, used, store, source, pins, history, set, erasing, doubtful>>
  BY <1>1, <1>2, WorkingHasKey DEF Create, ContentOf, FileOf, MayRetain, sourceVars
<1>4. PICK deadline \in 0..Retention :
          /\ row' = [row EXCEPT ![c] = Retained(h, deadline)]
          /\ upload' = [upload EXCEPT ![k] = [state |-> "uploaded", until |-> deadline]]
  BY <1>1, <1>3 DEF Create
<1>5. PICK q : q = Retained(h, deadline)
  OBVIOUS
<1>6. /\ q \in [state: {"retained"}, count: {0}, until: Deadlines]
      /\ q.until = NoDeadline => row[c].until = NoDeadline
  <2>1. /\ deadline \in Int /\ deadline \in 0..Retention /\ row[c].until \in Int
        /\ row[c].until \in {-1} \union 0..Retention
    BY <1>3, RowIs, FilesNames
  <2>2. Extended(row[c].until, deadline) = IF row[c].until >= deadline THEN row[c].until ELSE deadline
    BY <2>1, LaterIs DEF Extended
  <2>3. Extended(row[c].until, deadline) \in 0..Retention
    BY <2>1, <2>2
  <2>4. q = [state |-> "retained", count |-> 0,
             until |-> IF row[c].state = "retained" /\ row[c].until = NoDeadline THEN NoDeadline
                       ELSE Extended(row[c].until, deadline)]
    BY <1>3, <1>5 DEF Retained
  <2> QED BY <2>3, <2>4 DEF Deadlines, NoDeadline
<1>7. /\ DOMAIN row' = Content /\ row'[c] = q
      /\ \A d \in Content \ {c} : row'[d] = row[d]
  BY <1>3, <1>4, <1>5
<1>8. \A d \in Content : RowFits(row'[d])
  BY <1>6, <1>7, Fits DEF RowFits
<1>9. \A d \in Content : Charged(d)' <=> Charged(d)
  BY <1>3, <1>6, <1>7 DEF Charged
<1>10. ASSUME NEW d \in Content, Charged(d)', row'[d].until = NoDeadline PROVE InActiveSet(d)'
  <2>1. Charged(d) /\ row[d].until = NoDeadline
    BY <1>6, <1>7, <1>9, <1>10
  <2> QED BY <2>1, <1>3 DEF InActiveSet
<1>11. /\ IsFiniteSet(ChargedContents') /\ used' = Cardinality(ChargedContents')
       /\ used' \in 0..MaxObjects[file]
  BY <1>3, <1>9, SameCharged
<1>12. PICK g : /\ at' = [at EXCEPT ![h] = g]
                /\ g \in [step: Steps, key: Key \union {Unset}, version: 0..MaxVersion]
                /\ g.step \in {"idle", "release"} /\ (g.step # "idle" => g.key \in Key)
  <2>1. CASE GoIdle(h)
    <3>1. Idle \in [step: Steps, key: Key \union {Unset}, version: 0..MaxVersion] /\ Idle.step = "idle"
      BY FilesNames DEF Idle, Steps
    <3> QED BY <2>1, <3>1 DEF GoIdle
  <2>2. CASE GoTo(h, "release")
    <3>1. PICK g : g = [at[h] EXCEPT !.step = "release"]
      OBVIOUS
    <3>2. g \in [step: Steps, key: Key \union {Unset}, version: 0..MaxVersion] /\ g.step = "release"
      BY <3>1 DEF Steps
    <3>3. g.key \in Key
      BY <3>1, <1>1, <1>3
    <3>4. at' = [at EXCEPT ![h] = g]
      BY <2>2, <3>1 DEF GoTo
    <3> QED BY <3>2, <3>3, <3>4
  <2> QED BY <2>1, <2>2 DEF Create
<1>13. /\ at' \in [Handler -> [step: Steps, key: Key \union {Unset}, version: 0..MaxVersion]]
       /\ \A i \in Handler : at'[i].step # "idle" => at'[i].key \in Key
  BY <1>12
<1>14. ASSUME NEW i \in Handler PROVE Working(i)'
  <2>1. CASE i = h
    BY <1>12, <2>1 DEF Working
  <2>2. CASE i # h
    <3>1. at'[i] = at[i] /\ ContentOf(i)' = ContentOf(i) /\ Working(i)
      BY <1>3, <1>12, <2>2 DEF ContentOf, FileOf
    <3>2. at[i].step = "put" => ContentOf(i) \in Content
      BY WorkingHasKey
    <3> QED BY <1>3, <1>9, <3>1, <3>2 DEF Working, Charged
  <2> QED BY <2>1, <2>2
<1>15. /\ upload' \in [Key -> [state: {"none", "uploaded", "validated", "rejected"}, until: Deadlines]]
       /\ \A j \in Key \ {k} : upload'[j] = upload[j]
       /\ upload'[k].state = "uploaded"
  BY <1>3, <1>4 DEF Deadlines
<1>16. \A d \in Content : Pending(d)' => row'[d].state = "retained"
  BY <1>2, <1>3, <1>6, <1>7, <1>15 DEF UploadsAreRetained, Pending
<1>17. Pinned'
  <2>1. \A d : Validated(d) => Validated(d)'
    BY <1>3, <1>15 DEF Validated
  <2> QED BY <1>3, <2>1 DEF Pinned
<1>18. \A d \in Content \ doubtful' : Pending(d)' \/ Held(d)' => d \in store
  <2>1. c \in store \union doubtful
    BY <1>3 DEF Working
  <2>2. ASSUME NEW d \in Content, d # c, Pending(d)' PROVE Pending(d)
    BY <1>2, <1>3, <1>15, <2>2 DEF Pending
  <2>3. \A d \in Content : Held(d)' <=> Held(d)
    BY <1>3 DEF Held, InActiveSet, InActiveRun
  <2> QED BY <1>3, <2>1, <2>2, <2>3, ThereWhileFree
<1> QED
  BY <1>3, <1>7, <1>8, <1>9, <1>10, <1>11, <1>13, <1>14, <1>15, <1>16, <1>17, <1>18, TransactionKeeps

LEMMA ReleaseKeeps == ASSUME FilesInv, NEW h \in Handler, Release(h) PROVE FilesInv'
<1> USE FilesTables
<1>1. PICK c : c = ContentOf(h)
  OBVIOUS
<1>2. /\ at[h].step = "release" /\ LockFree /\ c \in Content
      /\ row[c].state = "reserved" /\ row[c].count > 1
      /\ row' = [row EXCEPT ![c].count = @ - 1] /\ at' = [at EXCEPT ![h] = Idle]
      /\ UNCHANGED <<file, upload, used, store, source, pins, history, set, erasing, doubtful>>
  BY <1>1, WorkingHasKey DEF Release, GoIdle, sourceVars
<1>3. /\ row[c] \in [state: {"reserved"}, count: 1..MaxCount, until: 0..Retention]
      /\ MaxCount \in Nat
  BY <1>2, Fits, FilesNames DEF RowFits
<1>4. /\ row'[c] \in [state: {"reserved"}, count: 1..MaxCount, until: 0..Retention]
      /\ \A d \in Content \ {c} : row'[d] = row[d]
      /\ DOMAIN row' = Content
  <2>1. row[c].count - 1 \in 1..MaxCount
    BY <1>2, <1>3
  <2>2. row'[c] = [row[c] EXCEPT !.count = row[c].count - 1]
    BY <1>2
  <2> QED BY <1>2, <1>3, <2>1, <2>2
<1>5. \A d \in Content : RowFits(row'[d])
  BY <1>4, Fits DEF RowFits
<1>6. \A d \in Content : Charged(d)' <=> Charged(d)
  BY <1>2, <1>4 DEF Charged
<1>7. ASSUME NEW d \in Content, Charged(d)', row'[d].until = NoDeadline PROVE InActiveSet(d)'
  <2>1. Charged(d) /\ row[d].until = NoDeadline
    BY <1>4, <1>6, <1>7 DEF NoDeadline
  <2> QED BY <2>1, <1>2 DEF InActiveSet
<1>8. /\ IsFiniteSet(ChargedContents') /\ used' = Cardinality(ChargedContents')
      /\ used' \in 0..MaxObjects[file]
  BY <1>2, <1>6, SameCharged
<1>9. Idle \in [step: Steps, key: Key \union {Unset}, version: 0..MaxVersion] /\ Idle.step = "idle"
  BY FilesNames DEF Idle, Steps
<1>10. /\ at' \in [Handler -> [step: Steps, key: Key \union {Unset}, version: 0..MaxVersion]]
       /\ \A i \in Handler : at'[i].step # "idle" => at'[i].key \in Key
  BY <1>2, <1>9
<1>11. ASSUME NEW i \in Handler PROVE Working(i)'
  <2>1. CASE i = h
    BY <1>2, <1>9, <2>1 DEF Working
  <2>2. CASE i # h
    <3>1. at'[i] = at[i] /\ ContentOf(i)' = ContentOf(i) /\ Working(i)
      BY <1>2, <2>2 DEF ContentOf, FileOf
    <3>2. at[i].step = "put" => ContentOf(i) \in Content
      BY WorkingHasKey
    <3> QED BY <1>2, <1>6, <3>1, <3>2 DEF Working, Charged
  <2> QED BY <2>1, <2>2
<1>12. \A d \in Content : Pending(d)' => row'[d].state = "retained"
  BY <1>2, <1>4 DEF UploadsAreRetained, Pending
<1>13. Pinned'
  BY <1>2 DEF Pinned, Validated
<1>14. \A d \in Content \ doubtful' : Pending(d)' \/ Held(d)' => d \in store
  BY <1>2, ThereWhileFree DEF Pending, Held, InActiveSet, InActiveRun
<1> QED
  BY <1>2, <1>4, <1>5, <1>6, <1>7, <1>8, <1>10, <1>11, <1>12, <1>13, <1>14, TransactionKeeps

\* Time takes one from each deadline that is not due.
LEMMA TimePassesKeeps == ASSUME FilesInv, TimePasses PROVE FilesInv'
<1> USE FilesTables
<1>1. /\ LockFree /\ UNCHANGED <<file, at, used, store, source, pins, history, set, erasing, doubtful>>
      /\ row' = [d \in Content |-> [row[d] EXCEPT !.until = Less(row[d].until)]]
      /\ upload' = [k \in Key |-> [upload[k] EXCEPT !.until = Less(upload[k].until)]]
  BY DEF TimePasses, sourceVars
<1>2. \A n \in Deadlines : /\ Less(n) \in Deadlines /\ (Less(n) = NoDeadline => n = NoDeadline)
                           /\ n \in 0..Retention => Less(n) \in 0..Retention
  BY FilesNames DEF Less, Deadlines, NoDeadline
<1>3. ASSUME NEW d \in Content
      PROVE  /\ row'[d].state = row[d].state /\ row'[d].until = Less(row[d].until)
             /\ RowFits(row'[d])
             /\ row'[d].until = NoDeadline => row[d].until = NoDeadline
  <2>1. row'[d] = [row[d] EXCEPT !.until = Less(row[d].until)]
    BY <1>1
  <2>2. row[d].until \in Deadlines
    BY Fits DEF RowFits, Deadlines
  <2>3. RowFits(row[d])
    BY Fits
  <2>4. RowFits(row'[d])
    <3>1. CASE row[d] \in [state: {"reserved"}, count: 1..MaxCount, until: 0..Retention]
      BY <2>1, <2>2, <1>2, <3>1 DEF RowFits
    <3>2. CASE row[d] \in [state: {"retained"}, count: {0}, until: Deadlines]
      BY <2>1, <2>2, <1>2, <3>2 DEF RowFits
    <3>3. CASE row[d] \in [state: {"none", "deleted"}, count: {0}, until: {NoDeadline}]
      <4>1. Less(NoDeadline) = NoDeadline
        BY DEF Less, NoDeadline
      <4> QED BY <2>1, <3>3, <4>1 DEF RowFits
    <3> QED BY <2>3, <3>1, <3>2, <3>3 DEF RowFits
  <2> QED BY <2>1, <2>2, <2>3, <2>4, <1>2 DEF RowFits
<1>4. \A d \in Content : Charged(d)' <=> Charged(d)
  BY <1>3 DEF Charged
<1>5. ASSUME NEW d \in Content, Charged(d)', row'[d].until = NoDeadline PROVE InActiveSet(d)'
  <2>1. Charged(d) /\ row[d].until = NoDeadline
    BY <1>3, <1>4, <1>5
  <2> QED BY <2>1, <1>1 DEF InActiveSet
<1>6. /\ IsFiniteSet(ChargedContents') /\ used' = Cardinality(ChargedContents')
      /\ used' \in 0..MaxObjects[file]
  BY <1>1, <1>4, SameCharged
<1>7. ASSUME NEW k \in Key
      PROVE  /\ upload'[k].state = upload[k].state
             /\ upload'[k] \in [state: {"none", "uploaded", "validated", "rejected"}, until: Deadlines]
  BY <1>1, <1>2
<1>8. ASSUME NEW i \in Handler PROVE Working(i)'
  <2>1. ContentOf(i)' = ContentOf(i) /\ Working(i)
    BY <1>1 DEF ContentOf, FileOf
  <2>2. at[i].step = "put" => ContentOf(i) \in Content
    BY WorkingHasKey
  <2> QED BY <1>1, <1>4, <2>1, <2>2 DEF Working, Charged
<1>9. \A d \in Content : Pending(d)' <=> Pending(d)
  BY <1>1, <1>7 DEF Pending
<1>10. Pinned'
  BY <1>1, <1>7 DEF Pinned, Validated
<1>11. \A d \in Content \ doubtful' : Pending(d)' \/ Held(d)' => d \in store
  BY <1>1, <1>9, ThereWhileFree DEF Held, InActiveSet, InActiveRun
<1>12. \A d \in Content : Pending(d)' => row'[d].state = "retained"
  BY <1>3, <1>9 DEF UploadsAreRetained
<1>13. upload' \in [Key -> [state: {"none", "uploaded", "validated", "rejected"}, until: Deadlines]]
       /\ DOMAIN row' = Content
  BY <1>1, <1>7
<1> QED
  BY <1>1, <1>3, <1>4, <1>5, <1>6, <1>8, <1>10, <1>11, <1>12, <1>13, TransactionKeeps

-----------------------------------------------------------------------------
(* Transactions on sources.                                                *)

LEMMA WorkingStays ==
    ASSUME FilesInv, UNCHANGED <<file, at>>, store \subseteq store', doubtful \subseteq doubtful',
           \A d \in Content : Charged(d) => Charged(d)'
    PROVE  \A h \in Handler : Working(h)'
<1> SUFFICES ASSUME NEW h \in Handler PROVE Working(h)'
  OBVIOUS
<1>1. ContentOf(h)' = ContentOf(h) /\ Working(h)
  BY FilesTables DEF ContentOf, FileOf
<1>2. at[h].step = "put" => ContentOf(h) \in Content
  BY WorkingHasKey
<1> QED BY <1>1, <1>2 DEF Working

\* What Retire makes of the row of a content.
LEMMA RetireIs ==
    ASSUME NEW r, NEW contents, NEW d \in Content, RowFits(r[d])
    PROVE  /\ DOMAIN Retire(r, contents) = Content
           /\ RowFits(Retire(r, contents)[d])
           /\ Retire(r, contents)[d].state = r[d].state
           /\ Retire(r, contents)[d].until = NoDeadline => r[d].until = NoDeadline
           /\ d \in contents /\ r[d].state = "retained" => Retire(r, contents)[d].until # NoDeadline
<1>1. DOMAIN Retire(r, contents) = Content
  BY DEF Retire
<1>2. CASE d \in contents /\ r[d].state = "retained"
  <2>1. PICK until : until = Extended(r[d].until, Retention)
    OBVIOUS
  <2>2. Retire(r, contents)[d] = [r[d] EXCEPT !.until = until]
    BY <1>2, <2>1 DEF Retire
  <2>3. r[d] \in [state: {"retained"}, count: {0}, until: Deadlines]
    BY <1>2 DEF RowFits
  <2>4. r[d].until \in Int /\ Retention \in Int /\ r[d].until \in {-1} \union 0..Retention
    BY <2>3, FilesNames DEF Deadlines, NoDeadline
  <2>5. until = IF r[d].until >= Retention THEN r[d].until ELSE Retention
    BY <2>1, <2>4, LaterIs DEF Extended
  <2>6. until \in 0..Retention
    BY <2>4, <2>5, FilesNames
  <2> QED BY <1>1, <2>2, <2>3, <2>6 DEF RowFits, Deadlines, NoDeadline
<1>3. CASE ~(d \in contents /\ r[d].state = "retained")
  <2>1. Retire(r, contents)[d] = r[d]
    BY <1>3 DEF Retire
  <2> QED BY <1>1, <1>3, <2>1
<1> QED BY <1>2, <1>3

\* An object without a deadline is retained.
LEMMA WithoutDeadline ==
    ASSUME NEW r, RowFits(r), r.state \in {"reserved", "retained"}, r.until = NoDeadline
    PROVE  r.state = "retained"
  BY FilesNames DEF RowFits, NoDeadline

LEMMA FinalizeKeeps == ASSUME FilesInv, FinalizeSet PROVE FilesInv'
<1> USE FilesTables
<1>1. set # NoSet /\ set \in [keys: SUBSET Key, source: Source, version: 0..MaxVersion]
  BY DEF FinalizeSet, FilesInv, FilesShapes
<1>2. PICK s : s = set.source
  OBVIOUS
<1>3. PICK members : members = ContentsOf(set.keys)
  OBVIOUS
<1>4. PICK kept : kept = [d \in Content |-> IF d \in members
                                   THEN [row[d] EXCEPT !.state = "retained", !.until = NoDeadline]
                                   ELSE row[d]]
  OBVIOUS
<1>5. /\ LockFree /\ s \in Source
      /\ \A k \in set.keys : upload[k].state = "uploaded"
      /\ set.version < MaxVersion
      /\ UNCHANGED <<file, at, used, store, pins, history, erasing, doubtful>> /\ set' = NoSet
      /\ upload' = [k \in Key |-> IF k \in set.keys
                                  THEN [state |-> "validated", until |-> NoDeadline] ELSE upload[k]]
  BY <1>1, <1>2 DEF FinalizeSet, MayFinalize
<1>6. row' = Retire(kept, source[s].past \ members)
  BY <1>2, <1>3, <1>4 DEF FinalizeSet
<1>7. source' = [source EXCEPT ![s] =
                      [state |-> "active", version |-> set.version + 1,
                       current |-> members, past |-> source[s].past \union members]]
  BY <1>2, <1>3 DEF FinalizeSet
<1>8. \A d : d \in members <=> \E k \in set.keys : file[k].content = d
  BY <1>3 DEF ContentsOf
<1>9. members \subseteq Content /\ \A d \in members : Pending(d) /\ row[d].state = "retained"
  <2>1. ASSUME NEW d \in members PROVE d \in Content /\ Pending(d)
    BY <1>1, <1>5, <1>8, FileIs DEF Pending
  <2> QED BY <2>1 DEF UploadsAreRetained
<1>10. ASSUME NEW d \in Content
       PROVE /\ RowFits(kept[d]) /\ kept[d].state = row[d].state
             /\ d \notin members => kept[d] = row[d]
  <2>1. CASE d \in members
    <3>1. row[d] \in [state: {"retained"}, count: {0}, until: Deadlines]
      BY <1>9, <2>1, Fits DEF RowFits
    <3>2. kept[d] = [row[d] EXCEPT !.state = "retained", !.until = NoDeadline]
      BY <1>4, <2>1
    <3> QED BY <3>1, <3>2, <2>1 DEF RowFits, Deadlines
  <2>2. CASE d \notin members
    BY <1>4, <2>2, Fits
  <2> QED BY <2>1, <2>2
<1>11. ASSUME NEW d \in Content
       PROVE  /\ DOMAIN row' = Content /\ RowFits(row'[d]) /\ row'[d].state = row[d].state
              /\ d \notin members /\ row'[d].until = NoDeadline => row[d].until = NoDeadline
              /\ d \in source[s].past \ members /\ row[d].state = "retained" =>
                     row'[d].until # NoDeadline
  BY <1>6, <1>10, RetireIs
<1>12. DOMAIN row' = Content
  BY <1>6 DEF Retire
<1>13. \A d \in Content : Charged(d)' <=> Charged(d)
  BY <1>11 DEF Charged
<1>14. /\ source'[s].state = "active" /\ source'[s].current = members
       /\ source'[s].past = source[s].past \union members
       /\ \A t \in Source \ {s} : source'[t] = source[t]
  BY <1>5, <1>7
<1>15. ASSUME NEW d \in Content, Charged(d)', row'[d].until = NoDeadline PROVE InActiveSet(d)'
  <2>1. CASE d \in members
    BY <1>5, <1>14, <2>1 DEF InActiveSet
  <2>2. CASE d \notin members
    <3>1. Charged(d) /\ row[d].until = NoDeadline
      BY <1>11, <1>13, <1>15, <2>2
    <3>2. row[d].state = "retained"
      BY <3>1, Fits, WithoutDeadline DEF Charged
    <3>3. PICK t \in Source : source[t].state = "active" /\ d \in source[t].current
      BY <3>1 DEF InActiveSet
    <3>4. t # s
      BY <1>5, <1>11, <1>15, <2>2, <3>2, <3>3 DEF Pinned
    <3> QED BY <1>14, <3>3, <3>4 DEF InActiveSet
  <2> QED BY <2>1, <2>2
<1>16. /\ IsFiniteSet(ChargedContents') /\ used' = Cardinality(ChargedContents')
       /\ used' \in 0..MaxObjects[file]
  BY <1>5, <1>13, SameCharged
<1>17. \A h \in Handler : Working(h)'
  BY <1>5, <1>13, WorkingStays
<1>18. /\ upload' \in [Key -> [state: {"none", "uploaded", "validated", "rejected"}, until: Deadlines]]
       /\ \A k \in Key : upload'[k] = upload[k] \/ upload'[k].state = "validated"
       /\ \A k \in set.keys : upload'[k].state = "validated"
  BY <1>1, <1>5 DEF Deadlines
<1>19. \A d : Pending(d)' => Pending(d)
  BY <1>5, <1>18 DEF Pending
<1>20. \A d : Validated(d) \/ d \in members => Validated(d)'
  BY <1>1, <1>5, <1>8, <1>18 DEF Validated
<1>21. Pinned'
  BY <1>5, <1>14, <1>20 DEF Pinned
<1>22. source' \in [Source -> [state: {"none", "active", "deleted"}, version: 0..MaxVersion,
                                   current: SUBSET Content, past: SUBSET Content]]
  <2>1. set.version + 1 \in 0..MaxVersion
    BY <1>1, <1>5, FilesNames
  <2> QED BY <1>5, <1>7, <1>9, <2>1
<1>23. \A d \in Content \ doubtful' : Pending(d)' \/ Held(d)' => d \in store
  <2>1. \A d : Held(d)' => Held(d) \/ d \in members
    BY <1>5, <1>14 DEF Held, InActiveSet, InActiveRun
  <2> QED BY <1>5, <1>9, <1>19, <2>1, ThereWhileFree
<1>24. \A d \in Content : Pending(d)' => row'[d].state = "retained"
  BY <1>11, <1>19 DEF UploadsAreRetained
<1>25. \A d \in Content : RowFits(row'[d])
  BY <1>11
<1> QED
  BY <1>5, <1>12, <1>13, <1>15, <1>16, <1>17, <1>18, <1>21, <1>22, <1>23, <1>24, <1>25, TransactionKeeps

LEMMA DeleteSourceKeeps == ASSUME FilesInv, NEW s \in Source, DeleteSource(s) PROVE FilesInv'
<1> USE FilesTables
<1>1. /\ LockFree /\ source[s].version < MaxVersion
      /\ source' = [source EXCEPT ![s] = [source[s] EXCEPT !.state = "deleted",
                                                         !.version = source[s].version + 1]]
      /\ row' = Retire(row, source[s].past)
      /\ UNCHANGED <<file, at, upload, used, store, pins, history, set, erasing, doubtful>>
  BY DEF DeleteSource
<1>2. ASSUME NEW d \in Content
      PROVE  /\ RowFits(row'[d]) /\ row'[d].state = row[d].state
             /\ row'[d].until = NoDeadline => row[d].until = NoDeadline
             /\ d \in source[s].past /\ row[d].state = "retained" => row'[d].until # NoDeadline
  BY <1>1, Fits, RetireIs
<1>3. DOMAIN row' = Content
  BY <1>1 DEF Retire
<1>4. /\ source'[s].state = "deleted" /\ source'[s].current = source[s].current
      /\ source'[s].past = source[s].past
      /\ \A t \in Source \ {s} : source'[t] = source[t]
      /\ source' \in [Source -> [state: {"none", "active", "deleted"}, version: 0..MaxVersion,
                                 current: SUBSET Content, past: SUBSET Content]]
  <2>1. source[s].version + 1 \in 0..MaxVersion
    BY <1>1, FilesNames
  <2> QED BY <1>1, <2>1
<1>5. \A d \in Content : Charged(d)' <=> Charged(d)
  BY <1>2 DEF Charged
<1>6. ASSUME NEW d \in Content, Charged(d)', row'[d].until = NoDeadline PROVE InActiveSet(d)'
  <2>1. Charged(d) /\ row[d].until = NoDeadline
    BY <1>2, <1>5, <1>6
  <2>2. row[d].state = "retained"
    BY <2>1, Fits, WithoutDeadline DEF Charged
  <2>3. PICK t \in Source : source[t].state = "active" /\ d \in source[t].current
    BY <2>1 DEF InActiveSet
  <2>4. t # s
    BY <1>2, <1>6, <2>2, <2>3 DEF Pinned
  <2> QED BY <1>4, <2>3, <2>4 DEF InActiveSet
<1>7. /\ IsFiniteSet(ChargedContents') /\ used' = Cardinality(ChargedContents')
      /\ used' \in 0..MaxObjects[file]
  BY <1>1, <1>5, SameCharged
<1>8. \A h \in Handler : Working(h)'
  BY <1>1, <1>5, WorkingStays
<1>9. Pinned'
  BY <1>1, <1>4 DEF Pinned, Validated
<1>10. \A d \in Content \ doubtful' : Pending(d)' \/ Held(d)' => d \in store
  <2>1. \A d : (Pending(d)' => Pending(d)) /\ (Held(d)' => Held(d))
    BY <1>1, <1>4 DEF Pending, Held, InActiveSet, InActiveRun
  <2> QED BY <1>1, <2>1, ThereWhileFree
<1>11. \A d \in Content : Pending(d)' => row'[d].state = "retained"
  BY <1>1, <1>2 DEF UploadsAreRetained, Pending
<1> QED
  BY <1>1, <1>2, <1>3, <1>4, <1>5, <1>6, <1>7, <1>8, <1>9, <1>10, <1>11, TransactionKeeps

LEMMA RestoreSourceKeeps == ASSUME FilesInv, NEW s \in Source, RestoreSource(s) PROVE FilesInv'
<1> USE FilesTables
<1>1. /\ LockFree /\ source[s].version < MaxVersion /\ source[s].state = "deleted"
      /\ source' = [source EXCEPT ![s] = [source[s] EXCEPT !.state = "active",
                                                         !.version = source[s].version + 1]]
      /\ doubtful' = doubtful \union (source[s].current \ store)
      /\ UNCHANGED <<file, at, upload, row, used, store, pins, history, set, erasing>>
  BY DEF RestoreSource
<1>2. /\ source'[s].current = source[s].current /\ source'[s].past = source[s].past
      /\ \A t \in Source \ {s} : source'[t] = source[t]
      /\ source' \in [Source -> [state: {"none", "active", "deleted"}, version: 0..MaxVersion,
                                 current: SUBSET Content, past: SUBSET Content]]
  <2>1. source[s].version + 1 \in 0..MaxVersion
    BY <1>1, FilesNames
  <2> QED BY <1>1, <2>1
<1>3. doubtful \subseteq doubtful' /\ doubtful' \subseteq Content
  BY <1>1
<1>4. \A d \in Content : Charged(d)' <=> Charged(d)
  BY <1>1 DEF Charged
<1>5. ASSUME NEW d \in Content, Charged(d)', row'[d].until = NoDeadline PROVE InActiveSet(d)'
  BY <1>1, <1>2, <1>4, <1>5 DEF InActiveSet
<1>6. /\ IsFiniteSet(ChargedContents') /\ used' = Cardinality(ChargedContents')
      /\ used' \in 0..MaxObjects[file]
  BY <1>1, <1>4, SameCharged
<1>7. \A h \in Handler : Working(h)'
  BY <1>1, <1>3, <1>4, WorkingStays
<1>8. Pinned'
  BY <1>1, <1>2 DEF Pinned, Validated
<1>9. \A d \in Content \ doubtful' : Pending(d)' \/ Held(d)' => d \in store
  <2>1. \A d : (Pending(d)' => Pending(d)) /\ (Held(d)' => Held(d) \/ d \in source[s].current)
    BY <1>1, <1>2 DEF Pending, Held, InActiveSet, InActiveRun
  <2> QED BY <1>1, <2>1, ThereWhileFree
<1>10. \A d \in Content : Pending(d)' => row'[d].state = "retained"
  BY <1>1 DEF UploadsAreRetained, Pending
<1>11. \A d \in Content : RowFits(row'[d])
  BY <1>1, Fits
<1> QED
  BY <1>1, <1>2, <1>3, <1>4, <1>5, <1>6, <1>7, <1>8, <1>9, <1>10, <1>11, TransactionKeeps

LEMMA RunsKeep == ASSUME FilesInv, NEW s \in Source, QueueRun(s) \/ EndRun(s) PROVE FilesInv'
<1> USE FilesTables
<1>1. LockFree /\ UNCHANGED <<file, at, upload, row, used, store, source, set, erasing, doubtful>>
  BY DEF QueueRun, EndRun
<1>2. /\ pins' \in [Source -> SUBSET Content] /\ history' \subseteq Content
      /\ \A t \in Source \ {s} : pins'[t] = pins[t]
      /\ pins'[s] # {} => source[s].state = "active" /\ pins'[s] = source[s].current
      /\ history' \subseteq history \union pins[s]
  BY DEF QueueRun, EndRun
<1>3. \A d \in Content : Charged(d)' <=> Charged(d)
  BY <1>1 DEF Charged
<1>4. ASSUME NEW d \in Content, Charged(d)', row'[d].until = NoDeadline PROVE InActiveSet(d)'
  BY <1>1, <1>3, <1>4 DEF InActiveSet
<1>5. /\ IsFiniteSet(ChargedContents') /\ used' = Cardinality(ChargedContents')
      /\ used' \in 0..MaxObjects[file]
  BY <1>1, <1>3, SameCharged
<1>6. \A h \in Handler : Working(h)'
  BY <1>1, <1>3, WorkingStays
<1>7. Pinned'
  <2>1. \A d : Validated(d)' <=> Validated(d)
    BY <1>1 DEF Validated
  <2>2. \A d \in history' : Validated(d)
    BY <1>2 DEF Pinned
  <2>3. \A t \in Source : \A d \in source[t].past \union pins'[t] : Validated(d)
    <3>1. \A d \in pins'[s] : d \in source[s].past
      BY <1>2 DEF Pinned
    <3> QED BY <1>2, <3>1 DEF Pinned
  <2> QED BY <1>1, <2>1, <2>2, <2>3 DEF Pinned
<1>8. \A d \in Content \ doubtful' : Pending(d)' \/ Held(d)' => d \in store
  <2>1. \A d : (Pending(d)' => Pending(d)) /\ (InActiveSet(d)' <=> InActiveSet(d))
    BY <1>1 DEF Pending, InActiveSet
  <2>2. \A d : InActiveRun(d)' => InActiveRun(d) \/ InActiveSet(d)
    BY <1>2 DEF InActiveRun, InActiveSet
  <2>3. \A d \in history' : d \in history \/ InActiveRun(d)
    BY <1>2 DEF InActiveRun
  <2> QED BY <1>1, <2>1, <2>2, <2>3, ThereWhileFree DEF Held
<1>9. \A d \in Content : Pending(d)' => row'[d].state = "retained"
  BY <1>1 DEF UploadsAreRetained, Pending
<1>10. \A d \in Content : RowFits(row'[d])
  BY <1>1, Fits
<1> QED
  BY <1>1, <1>2, <1>3, <1>4, <1>5, <1>6, <1>7, <1>8, <1>9, <1>10, TransactionKeeps

-----------------------------------------------------------------------------
(* Deletions.                                                              *)

\* What a set, a run or a snapshot holds was validated.
LEMMA HeldIsValidated == ASSUME FilesInv, NEW d, Held(d) PROVE Validated(d)
  BY FilesTables DEF Held, InActiveSet, InActiveRun, Pinned

\* A deletion begins: the lock is taken, and the object is not gone yet.
LEMMA ErasingStarts ==
    ASSUME FilesInv, LockFree, UNCHANGED Database, UNCHANGED <<store, set, doubtful>>,
           NEW c \in Content, NEW owner \in Handler \union {Cleaner},
           erasing' = [by |-> owner, content |-> c, gone |-> FALSE],
           at' \in [Handler -> [step: Steps, key: Key \union {Unset}, version: 0..MaxVersion]],
           \A h \in Handler :
               \/ at'[h] = at[h]
               \/ at'[h].step = "erasing" /\ at'[h].key \in Key,
           Charged(c), ~Held(c),
           \A k \in Key : upload[k].state = "uploaded" /\ file[k].content = c
               => owner = Cleaner /\ k \in Overdue(c)
    PROVE  FilesInv'
<1> USE DEF Database
<1>1. FilesTypeOK'
  BY DEF FilesInv, FilesTypeOK
<1>2. FilesShapes'
  BY DEF FilesInv, FilesShapes
<1>3. Pinned' /\ UploadsAreRetained'
  BY DEF FilesInv, Pinned, Validated, UploadsAreRetained, Pending
<1>4. ASSUME NEW h \in Handler PROVE Working(h)'
  BY DEF FilesInv, Working, Charged, ContentOf, FileOf
<1>5. Doomed'
  BY DEF Doomed, Charged, Held, InActiveSet, InActiveRun, Overdue
<1>6. There'
  BY ThereWhileFree DEF There, Pending, Held, InActiveSet, InActiveRun
<1>7. Accounts'
  BY DEF FilesInv, Accounts, ChargedContents, Charged, InActiveSet
<1> QED BY <1>1, <1>2, <1>3, <1>4, <1>5, <1>6, <1>7 DEF FilesInv

LEMMA ReleaseLastKeeps == ASSUME FilesInv, NEW h \in Handler, ReleaseLast(h) PROVE FilesInv'
<1>1. PICK c : c = ContentOf(h)
  OBVIOUS
<1>2. PICK g : g = [at[h] EXCEPT !.step = "erasing"]
  OBVIOUS
<1>3. /\ at[h].step = "release" /\ LockFree /\ row[c].state = "reserved" /\ ~Referenced(c)
      /\ erasing' = [by |-> h, content |-> c, gone |-> FALSE] /\ at' = [at EXCEPT ![h] = g]
      /\ UNCHANGED Database /\ UNCHANGED <<store, set, doubtful>>
  BY <1>1, <1>2 DEF ReleaseLast, GoTo, Database, sourceVars
<1>4. c \in Content /\ at[h].key \in Key
  BY <1>1, <1>3, WorkingHasKey
<1>5. g \in [step: Steps, key: Key \union {Unset}, version: 0..MaxVersion]
      /\ g.step = "erasing" /\ g.key = at[h].key
  BY <1>2, WorkingHasKey DEF Steps
<1>6. /\ at' \in [Handler -> [step: Steps, key: Key \union {Unset}, version: 0..MaxVersion]]
      /\ \A i \in Handler : at'[i] = at[i] \/ (at'[i].step = "erasing" /\ at'[i].key \in Key)
  <2>1. at \in [Handler -> [step: Steps, key: Key \union {Unset}, version: 0..MaxVersion]]
    BY FilesTables
  <2>2. \A i \in Handler : at'[i] = IF i = h THEN g ELSE at[i]
    BY <1>3, <2>1
  <2>3. at' \in [Handler -> [step: Steps, key: Key \union {Unset}, version: 0..MaxVersion]]
    BY <1>3, <1>5, <2>1
  <2> QED BY <1>4, <1>5, <2>2, <2>3
<1>7. Charged(c)
  BY <1>3 DEF Charged
<1>8. ~Held(c)
  BY <1>3, HeldIsValidated DEF Validated, Referenced
<1>9. \A k \in Key : ~(upload[k].state = "uploaded" /\ file[k].content = c)
  BY <1>3 DEF Referenced
<1> QED BY <1>3, <1>4, <1>6, <1>7, <1>8, <1>9, ErasingStarts

LEMMA CleanObjectKeeps == ASSUME FilesInv, NEW c \in Content, CleanObject(c) PROVE FilesInv'
<1>1. /\ LockFree /\ Candidate(c) /\ ~Protected(c) /\ at' = at
      /\ erasing' = [by |-> Cleaner, content |-> c, gone |-> FALSE]
      /\ UNCHANGED Database /\ UNCHANGED <<store, set, doubtful>>
  BY DEF CleanObject, Database, sourceVars
<1>2. Charged(c)
  <2>1. CASE Overdue(c) # {}
    <3>1. Pending(c)
      BY <2>1 DEF Overdue, Pending
    <3> QED BY <3>1, FilesTables DEF UploadsAreRetained, Charged
  <2>2. CASE Overdue(c) = {}
    BY <1>1, <2>2 DEF Candidate, Charged
  <2> QED BY <2>1, <2>2
<1>3. ~Held(c)
  BY <1>1 DEF Protected, Held
<1>4. \A k \in Key : upload[k].state = "uploaded" /\ file[k].content = c => k \in Overdue(c)
  BY <1>1 DEF Protected
<1> QED BY <1>1, <1>2, <1>3, <1>4, FilesTables, ErasingStarts

\* A deletion that is rolled back, or a request that ends.
LEMMA RollbackKeeps ==
    ASSUME FilesInv, UNCHANGED Database, UNCHANGED <<store, set>>,
           at' \in [Handler -> [step: Steps, key: Key \union {Unset}, version: 0..MaxVersion]],
           \A h \in Handler : at'[h] = at[h] \/ at'[h].step = "idle",
           \/ UNCHANGED <<erasing, doubtful>>
           \/ /\ erasing' = NotErasing /\ erasing # NotErasing
              /\ doubtful' = IF erasing.gone THEN doubtful \union {erasing.content} ELSE doubtful
    PROVE  FilesInv'
<1> USE DEF Database
<1>1. doubtful \subseteq doubtful' /\ doubtful' \subseteq Content
      /\ (erasing' = erasing \/ erasing' = NotErasing)
  BY DEF FilesInv, FilesTypeOK, FilesShapes
<1>2. FilesTypeOK'
  BY <1>1 DEF FilesInv, FilesTypeOK
<1>3. FilesShapes'
  BY <1>1 DEF FilesInv, FilesShapes
<1>4. Pinned' /\ UploadsAreRetained'
  BY DEF FilesInv, Pinned, Validated, UploadsAreRetained, Pending
<1>5. ASSUME NEW h \in Handler PROVE Working(h)'
  BY <1>1 DEF FilesInv, Working, Charged, ContentOf, FileOf
<1>6. Doomed'
  <2>1. \A d : Outlived(d)' => Outlived(d)
    BY DEF Outlived, ContentOf, FileOf
  <2>2. CASE UNCHANGED <<erasing, doubtful>>
    BY <2>1, <2>2 DEF FilesInv, Doomed, Charged, Held, InActiveSet, InActiveRun, Overdue
  <2>3. CASE erasing' = NotErasing
    BY <2>3 DEF Doomed
  <2> QED BY <2>2, <2>3
<1>7. There'
  <2>1. \A d : (Pending(d)' <=> Pending(d)) /\ (Held(d)' <=> Held(d))
    BY DEF Pending, Held, InActiveSet, InActiveRun
  <2>2. ASSUME NEW d \in Content \ doubtful', Pending(d) \/ Held(d), ~(erasing'.gone /\ erasing'.content = d)
        PROVE  d \in store
    <3>1. ~(erasing.gone /\ erasing.content = d)
      BY <2>2
    <3> QED BY <1>1, <2>2, <3>1 DEF FilesInv, There
  <2> QED BY <2>1, <2>2 DEF There
<1>8. Accounts'
  BY <1>1 DEF FilesInv, Accounts, ChargedContents, Charged, InActiveSet
<1> QED BY <1>2, <1>3, <1>4, <1>5, <1>6, <1>7, <1>8 DEF FilesInv

LEMMA AbandonKeeps == ASSUME FilesInv, NEW h \in Handler, Abandon(h) PROVE FilesInv'
<1>1. UNCHANGED Database /\ UNCHANGED <<store, set>> /\ at' = [at EXCEPT ![h] = Idle]
  BY DEF Abandon, GoIdle, Database, sourceVars
<1>2. Idle \in [step: Steps, key: Key \union {Unset}, version: 0..MaxVersion] /\ Idle.step = "idle"
  BY FilesNames DEF Idle, Steps
<1>3. /\ at' \in [Handler -> [step: Steps, key: Key \union {Unset}, version: 0..MaxVersion]]
      /\ \A i \in Handler : at'[i] = at[i] \/ at'[i].step = "idle"
  BY <1>1, <1>2, FilesTables
<1>4. CASE erasing.by = h
  <2>1. erasing # NotErasing
    BY <1>4, FilesNames DEF NotErasing
  <2> QED BY <1>1, <1>3, <1>4, <2>1, RollbackKeeps DEF Abandon
<1>5. CASE erasing.by # h
  BY <1>1, <1>3, <1>5, RollbackKeeps DEF Abandon
<1> QED BY <1>4, <1>5

LEMMA EraseFailsKeeps == ASSUME FilesInv, EraseFails PROVE FilesInv'
<1>1. UNCHANGED Database /\ UNCHANGED <<store, set, at>>
  BY DEF EraseFails, Database, sourceVars
<1>2. erasing # NotErasing
  BY FilesNames DEF EraseFails, NotErasing
<1> QED BY <1>1, <1>2, FilesTables, RollbackKeeps DEF EraseFails

\* The object goes; what is being written meanwhile is doubtful.
LEMMA EraseKeeps == ASSUME FilesInv, Erase PROVE FilesInv'
<1> USE DEF Database
<1>1. PICK c : c = erasing.content
  OBVIOUS
<1>2. /\ erasing # NotErasing /\ erasing \in [by: Handler \union {Cleaner}, content: Content, gone: BOOLEAN]
      /\ c \in Content
  BY <1>1 DEF Erase, LockFree, FilesInv, FilesShapes
<1>3. /\ ~erasing.gone /\ store' = store \ {c} /\ erasing' = [erasing EXCEPT !.gone = TRUE]
      /\ doubtful' = IF Outlived(c) THEN doubtful \union {c} ELSE doubtful
      /\ UNCHANGED Database /\ UNCHANGED <<at, set>>
  BY <1>1 DEF Erase, sourceVars
<1>4. /\ erasing' \in [by: Handler \union {Cleaner}, content: Content, gone: BOOLEAN]
      /\ erasing'.by = erasing.by /\ erasing'.content = c /\ erasing'.gone
      /\ doubtful \subseteq doubtful' /\ doubtful' \subseteq Content /\ store' \subseteq store
  BY <1>1, <1>2, <1>3, FilesTables
<1>5. FilesTypeOK'
  BY <1>3, <1>4 DEF FilesInv, FilesTypeOK
<1>6. FilesShapes'
  BY <1>3, <1>4 DEF FilesInv, FilesShapes
<1>7. Pinned' /\ UploadsAreRetained'
  BY <1>3 DEF FilesInv, Pinned, Validated, UploadsAreRetained, Pending
<1>8. ASSUME NEW h \in Handler PROVE Working(h)'
  <2>1. ContentOf(h)' = ContentOf(h) /\ at' = at /\ Working(h)
    BY <1>3, FilesTables DEF ContentOf, FileOf
  <2>2. at[h].step = "create" /\ ContentOf(h) = c => Outlived(c)
    BY DEF Outlived
  <2>3. at[h].step = "create" => ContentOf(h) \in store' \union doubtful'
    BY <1>3, <2>1, <2>2 DEF Working
  <2>4. at[h].step = "put" => Charged(ContentOf(h)) \/ ContentOf(h) \in doubtful'
    BY <1>4, <2>1 DEF Working
  <2> QED BY <1>3, <2>1, <2>3, <2>4 DEF Working, Charged
<1>9. Doomed'
  <2>1. Charged(c)' /\ ~Held(c)'
    BY <1>1, <1>2, <1>3 DEF FilesInv, Doomed, Charged, Held, InActiveSet, InActiveRun
  <2>2. \A k \in Key : upload'[k].state = "uploaded" /\ file'[k].content = c
               => erasing'.by = Cleaner /\ k \in Overdue(c)'
    BY <1>1, <1>2, <1>3, <1>4 DEF FilesInv, Doomed, Overdue
  <2>3. c \notin doubtful' => c \notin store' /\ ~Outlived(c)'
    BY <1>3 DEF Outlived, ContentOf, FileOf
  <2>4. PICK e : e = erasing'
    OBVIOUS
  <2> QED BY <1>4, <2>1, <2>2, <2>3 DEF Doomed
<1>10. There'
  <2>1. \A d : (Pending(d)' <=> Pending(d)) /\ (Held(d)' <=> Held(d))
    BY <1>3 DEF Pending, Held, InActiveSet, InActiveRun
  <2> QED BY <1>1, <1>3, <1>4, <2>1 DEF FilesInv, There
<1>11. Accounts'
  BY <1>3, <1>4 DEF FilesInv, Accounts, ChargedContents, Charged, InActiveSet
<1> QED BY <1>5, <1>6, <1>7, <1>8, <1>9, <1>10, <1>11 DEF FilesInv

\* The row goes too: one object less is charged, and nobody referred to it.
LEMMA EraseCommitsKeeps == ASSUME FilesInv, EraseCommits PROVE FilesInv'
<1>1. PICK c : c = erasing.content
  OBVIOUS
<1>2. /\ erasing # NotErasing /\ erasing \in [by: Handler \union {Cleaner}, content: Content, gone: BOOLEAN]
      /\ c \in Content
  BY <1>1 DEF EraseCommits, NotErasing, FilesInv, FilesShapes
<1>3. /\ erasing.gone /\ used' = used - 1 /\ erasing' = NotErasing
      /\ row' = [row EXCEPT ![c] = [state |-> "deleted", count |-> 0, until |-> NoDeadline]]
      /\ UNCHANGED <<file, store, source, pins, history, set, doubtful>>
  BY <1>1 DEF EraseCommits, sourceVars
<1>4. /\ Charged(c) /\ ~Held(c)
      /\ \A k \in Key : upload[k].state = "uploaded" /\ file[k].content = c
               => erasing.by = Cleaner /\ k \in Overdue(c)
      /\ c \notin doubtful => c \notin store /\ ~Outlived(c)
  BY <1>1, <1>2, <1>3 DEF FilesInv, Doomed
<1>5. /\ upload' \in [Key -> [state: {"none", "uploaded", "validated", "rejected"}, until: Deadlines]]
      /\ \A k \in Key : \/ upload'[k] = upload[k]
                       \/ (upload[k].state = "uploaded" /\ upload'[k].state = "rejected")
      /\ \A k \in Key : file[k].content = c => upload'[k].state # "uploaded"
      /\ at' \in [Handler -> [step: Steps, key: Key \union {Unset}, version: 0..MaxVersion]]
      /\ \A h \in Handler : at'[h] = at[h] \/ at'[h].step = "idle"
  <2>0. /\ at \in [Handler -> [step: Steps, key: Key \union {Unset}, version: 0..MaxVersion]]
        /\ upload \in [Key -> [state: {"none", "uploaded", "validated", "rejected"}, until: Deadlines]]
    BY FilesTables
  <2>1. CASE erasing.by = Cleaner
    <3>1. upload' = Expired(c) /\ at' = at
      BY <1>1, <2>1 DEF EraseCommits
    <3>2. /\ Expired(c) \in [Key -> [state: {"none", "uploaded", "validated", "rejected"}, until: Deadlines]]
          /\ \A k \in Key : k \in Overdue(c) => upload[k].state = "uploaded" /\ Expired(c)[k].state = "rejected"
          /\ \A k \in Key : k \notin Overdue(c) => Expired(c)[k] = upload[k]
      BY ExpiredIs
    <3>3. ASSUME NEW k \in Key
          PROVE  /\ \/ upload'[k] = upload[k]
                    \/ upload[k].state = "uploaded" /\ upload'[k].state = "rejected"
                 /\ file[k].content = c => upload'[k].state # "uploaded"
      BY <1>4, <3>1, <3>2
    <3> QED BY <2>0, <3>1, <3>2, <3>3
  <2>2. CASE erasing.by # Cleaner
    <3>1. upload' = upload /\ at' = [at EXCEPT ![erasing.by] = Idle] /\ erasing.by \in Handler
      BY <1>2, <2>2 DEF EraseCommits, GoIdle
    <3>2. Idle \in [step: Steps, key: Key \union {Unset}, version: 0..MaxVersion] /\ Idle.step = "idle"
      BY FilesNames DEF Idle, Steps
    <3>3. at' \in [Handler -> [step: Steps, key: Key \union {Unset}, version: 0..MaxVersion]]
      BY <2>0, <3>1, <3>2
    <3>4. \A h \in Handler : at'[h] = at[h] \/ at'[h].step = "idle"
      BY <2>0, <3>1, <3>2
    <3>5. \A k \in Key : file[k].content = c => upload'[k].state # "uploaded"
      BY <1>4, <2>2, <3>1
    <3> QED BY <2>0, <3>1, <3>3, <3>4, <3>5
  <2> QED BY <2>1, <2>2
<1>6. /\ row'[c] = [state |-> "deleted", count |-> 0, until |-> NoDeadline] /\ DOMAIN row' = Content
      /\ \A d \in Content \ {c} : row'[d] = row[d]
  BY <1>2, <1>3, FilesTables
<1>7. ~Charged(c)' /\ \A d \in Content \ {c} : Charged(d)' <=> Charged(d)
  BY <1>6 DEF Charged
<1>8. /\ IsFiniteSet(ChargedContents') /\ used' = Cardinality(ChargedContents')
      /\ used' \in 0..MaxObjects[file]
  <2>1. ChargedContents' = ChargedContents \ {c}
    BY <1>2, <1>7 DEF ChargedContents
  <2>2. /\ IsFiniteSet(ChargedContents) /\ used = Cardinality(ChargedContents)
        /\ used \in 0..MaxObjects[file] /\ MaxObjects[file] \in Nat
    BY FilesNames DEF FilesInv, Accounts, FilesTypeOK
  <2>3. c \in ChargedContents
    BY <1>2, <1>4 DEF ChargedContents
  <2>4. /\ IsFiniteSet(ChargedContents \ {c})
        /\ Cardinality(ChargedContents \ {c}) = used - 1
    BY <2>2, <2>3, FS_RemoveElement
  <2>5. Cardinality(ChargedContents \ {c}) \in Nat
    BY <2>4, FS_CardinalityType
  <2> QED BY <1>3, <2>1, <2>2, <2>4, <2>5
<1>9. \A d \in Content : RowFits(row'[d])
  BY <1>6, Fits DEF RowFits
<1>10. FilesTypeOK'
  BY <1>3, <1>5, <1>8, <1>9 DEF FilesInv, FilesTypeOK, RowFits
<1>11. FilesShapes'
  BY <1>3, <1>5, <1>6 DEF FilesInv, FilesShapes
<1>12. /\ \A d : Validated(d) => Validated(d)'
       /\ \A d \in Content : (Pending(d)' => Pending(d) /\ d # c) /\ (Held(d)' <=> Held(d))
  BY <1>3, <1>5 DEF Validated, Pending, Held, InActiveSet, InActiveRun
<1>13. Pinned' /\ UploadsAreRetained'
  BY <1>3, <1>6, <1>12, FilesTables DEF Pinned, UploadsAreRetained
<1>14. ASSUME NEW h \in Handler PROVE Working(h)'
  <2>1. CASE at'[h].step = "idle"
    BY <2>1 DEF Working
  <2>2. CASE at'[h] = at[h]
    <3>1. ContentOf(h)' = ContentOf(h) /\ Working(h)
      BY <1>3, <2>2, FilesTables DEF ContentOf, FileOf
    <3>2. at[h].step = "put" => ContentOf(h) \in Content /\ (ContentOf(h) = c => c \in doubtful)
      BY <1>4, WorkingHasKey DEF Outlived
    <3> QED BY <1>3, <1>7, <2>2, <3>1, <3>2 DEF Working
  <2> QED BY <1>5, <2>1, <2>2
<1>15. Doomed'
  BY <1>3 DEF Doomed
<1>16. There'
  BY <1>1, <1>3, <1>4, <1>12 DEF FilesInv, There
<1>17. Accounts'
  <2>1. \A d \in store' \ doubtful' : Charged(d)'
    BY <1>3, <1>4, <1>7 DEF FilesInv, Accounts, FilesTypeOK
  <2>2. \A d \in Content : Charged(d)' /\ row'[d].until = NoDeadline => InActiveSet(d)'
    BY <1>3, <1>6, <1>7, FilesTables DEF InActiveSet
  <2> QED BY <1>8, <2>1, <2>2 DEF Accounts
<1> QED BY <1>10, <1>11, <1>13, <1>14, <1>15, <1>16, <1>17 DEF FilesInv

-----------------------------------------------------------------------------

LEMMA FilesStutter == ASSUME FilesInv, UNCHANGED filesVars PROVE FilesInv'
<1>1. /\ UNCHANGED Database /\ UNCHANGED <<store, set, erasing, doubtful>> /\ at' = at
  BY DEF filesVars, Database
<1> QED BY <1>1, FilesTables, RollbackKeeps

LEMMA FilesStep == FilesInv /\ [FilesNext]_filesVars => FilesInv'
<1> SUFFICES ASSUME FilesInv, [FilesNext]_filesVars PROVE FilesInv'
  OBVIOUS
<1>1. ASSUME NEW h \in Handler, Request(h) PROVE FilesInv'
  <2>1. CASE NotReserved(h) \/ CreatedBefore(h) \/ NotCreated(h) \/ NothingToRelease(h)
    BY <2>1, RequestsKeep
  <2>2. CASE Put(h) \/ PutFails(h)
    BY <2>2, PutKeeps
  <2> QED BY <1>1, <2>1, <2>2, ReserveKeeps, CreateKeeps, ReleaseKeeps, ReleaseLastKeeps DEF Request
<1>2. ASSUME NEW h \in Handler, Reject(h) \/ Abandon(h) \/ \E k \in Key : Stage(h, k) PROVE FilesInv'
  BY <1>2, RejectKeeps, AbandonKeeps, RequestsKeep
<1>3. ASSUME Clean PROVE FilesInv'
  BY <1>3, CleanUploadsKeeps, CleanObjectKeeps DEF Clean
<1>4. CASE Erase \/ EraseCommits \/ EraseFails
  BY <1>4, EraseKeeps, EraseCommitsKeeps, EraseFailsKeeps
<1>5. CASE NotFinalized \/ \E keys \in (SUBSET Key) \ {{}}, s \in Source : ReadMembers(keys, s)
  BY <1>5, RequestsKeep
<1>6. CASE FinalizeSet
  BY <1>6, FinalizeKeeps
<1>7. ASSUME NEW s \in Source, DeleteSource(s) \/ RestoreSource(s) \/ QueueRun(s) \/ EndRun(s)
      PROVE  FilesInv'
  BY <1>7, DeleteSourceKeeps, RestoreSourceKeeps, RunsKeep
<1>8. CASE TimePasses
  BY <1>8, TimePassesKeeps
<1>9. CASE UNCHANGED filesVars
  BY <1>9, FilesStutter
<1> QED BY <1>1, <1>2, <1>3, <1>4, <1>5, <1>6, <1>7, <1>8, <1>9 DEF FilesNext

LEMMA FilesInvariant == FilesSpec => []FilesInv
<1>1. FilesInit => FilesInv
  BY FilesStart
<1>2. FilesInv /\ [FilesNext]_filesVars => FilesInv'
  BY FilesStep
<1> QED BY <1>1, <1>2, PTL DEF FilesSpec

\* The rows of uploads, objects, sources and runs are of the shapes that the
\* checks of the tables admit, and the quota is not exceeded.
THEOREM FilesTypes == FilesSpec => []FilesTypeOK
<1>1. FilesInv => FilesTypeOK
  BY DEF FilesInv
<1> QED BY <1>1, FilesInvariant, PTL

\* However many uploads share an object, fail between their transactions, or
\* are cleaned up after: what an upload, the active set of a source, an
\* unfinished run or a snapshot refers to is in the store, but for the contents
\* that ContentIsThere excepts by name.
THEOREM ContentsAreThere == FilesSpec => []ContentIsThere
<1>1. FilesInv => ContentIsThere
  BY DEF FilesInv, There, ContentIsThere
<1> QED BY <1>1, FilesInvariant, PTL

\* The usage counter is the number of rows that hold an object, every object in
\* the store has such a row, and a row without a deadline is in an active set.
THEOREM QuotasAreHonest == FilesSpec => []QuotaIsHonest
<1>1. FilesInv => QuotaIsHonest
  BY DEF FilesInv, Accounts, ChargedContents, QuotaIsHonest
<1> QED BY <1>1, FilesInvariant, PTL

=============================================================================
