------------------------------ MODULE Schedule ------------------------------
(***************************************************************************)
(* A schedule that starts discovery runs of its source                     *)
(* (application/ingestion/schedules.go, schedule.go, schedules.go of the   *)
(* database): the commands of its users, the worker lanes that poll for    *)
(* what is due, and the wall clock of its time zone, which skips minutes   *)
(* in spring and repeats them in autumn.                                   *)
(*                                                                         *)
(* Time is counted in minutes.  An instant is a minute of UTC, a minute    *)
(* the wall clock's.  Lanes poll twice a second and lease for 30 seconds,  *)
(* so that a lease ends in its own minute or in the next.                  *)
(*                                                                         *)
(* Every command checks again, in a transaction under the workspace's lock,*)
(* what it read of the authorization and the schedule: it is two steps, or *)
(* is refused.  One that is sent again is answered by its receipt.         *)
(*                                                                         *)
(* The clocks of processes and database show the same minute, and a change *)
(* of the time zone is left out.                                           *)
(*                                                                         *)
(* What an occurrence leads to, a run or not (the misfire policy, a run    *)
(* that is active, what became of the source), changes nothing here and is *)
(* left out, and so is RunNow, which leaves the schedule as it is:         *)
(* DiscoveryRun has the runs.                                              *)
(***************************************************************************)
EXTENDS Integers, Sequences, FiniteSets, FiniteSetsExt

CONSTANTS
    Worker,
    Client,
    None,
    Horizon,      \* bound: the last instant
    Beyond,       \* bound: all minutes are before it; none is left
    Zones,        \* wall clocks: the minute each instant shows
    Expressions,  \* cron expressions: the minutes each names
    MaxCommands,  \* bound: commands carried out
    MaxFaults,    \* bound: batches and leases lost
    MaxLog        \* bound: occurrences, met only where minutes repeat

Instant == 0..Horizon

ASSUME ScheduleAssumption ==
    /\ Horizon \in Nat /\ Beyond \in Nat
    /\ Zones \subseteq [Instant -> 0..(Beyond - 1)]
    /\ Expressions \subseteq SUBSET (0..(Beyond - 1))
    /\ None \notin Worker
    /\ MaxCommands \in Nat /\ MaxFaults \in Nat /\ MaxLog \in Nat

VARIABLES
    now,
    wall,      \* the time zone of the schedule
    schedule,  \* source_schedules; for the properties also from, the instant from
               \* which its minutes are reckoned, and since and start, the minute
               \* and the number of occurrences at the last command
    log,       \* the scheduled rows of source_schedule_occurrences, in order
    batch,     \* what a lane has claimed and not yet completed
    request,   \* a client's command between its reads and its transaction
    commands,
    faults

vars == <<now, wall, schedule, log, batch, request, commands, faults>>

-----------------------------------------------------------------------------
(* The calendar: NextNominalOccurrence, occurrenceAt.                      *)

\* cron.Next
Following(expression, minute) == Min({m \in expression : m > minute} \union {Beyond})

\* wallClockInstants
Shows(minute) == {t \in Instant : wall[t] = minute}
\* postGapBoundary: the clock passes over the minute.
Skips(minute) == {t \in Instant \ {0} : wall[t - 1] <= minute /\ minute < wall[t]}
InGap(minute) == Shows(minute) = {} /\ Skips(minute) # {}

\* The instant from which a minute is due: the earlier of two that show it.
EligibleAt(minute) ==
    Min(IF Shows(minute) # {} THEN Shows(minute) ELSE Skips(minute) \union {Horizon + 1})

\* More than 60 seconds late.
Misfires(minute, t) ==
    IF InGap(minute) THEN {FALSE}
    ELSE CASE t > EligibleAt(minute) + 1 -> {TRUE}
           [] t = EligibleAt(minute) + 1 -> BOOLEAN
           [] OTHER -> {FALSE}

-----------------------------------------------------------------------------

Never == -1
NoSchedule == [state |-> "none", version |-> 0, expression |-> {}, minute |-> Beyond,
               from |-> 0, owner |-> None, leased |-> Never, live |-> FALSE,
               since |-> 0, start |-> 0]
NoClaim == [version |-> 0, minute |-> Beyond, expression |-> {}, at |-> 0, late |-> FALSE]
NoRequest == NoSchedule

Init ==
    /\ now = 0
    /\ wall \in Zones
    /\ schedule = NoSchedule
    /\ log = <<>>
    /\ batch = [w \in Worker |-> NoClaim]
    /\ request = [c \in Client |-> NoRequest]
    /\ commands = 0
    /\ faults = 0

-----------------------------------------------------------------------------
(* Commands.                                                               *)

\* The row as a command would have it, the next minute reckoned from the clock.
Row(state, expression) ==
    [state |-> state, version |-> schedule.version + 1,
     expression |-> expression,
     minute |-> IF state = "enabled" THEN Following(expression, wall[now]) ELSE Beyond,
     from |-> IF state = "enabled" THEN now ELSE 0,
     owner |-> None, leased |-> Never, live |-> FALSE,
     since |-> IF state = "enabled" THEN wall[now] ELSE 0, start |-> 0]

Ask(c, row) ==
    /\ request[c] = NoRequest
    /\ commands < MaxCommands
    /\ request' = [request EXCEPT ![c] = row]
    /\ UNCHANGED <<now, wall, schedule, log, batch, commands, faults>>

Exists == schedule.state \in {"enabled", "paused"}

\* Create, Update, SetEnabled, and Delete up to their transactions.
AskCreate(c) ==
    /\ schedule.state = "none"
    /\ \E e \in Expressions : Ask(c, Row("enabled", e))

AskUpdate(c) ==
    /\ Exists
    /\ \E e \in Expressions, s \in {"enabled", "paused"} : Ask(c, Row(s, e))

AskSetEnabled(c) ==
    /\ Exists
    /\ \E s \in {"enabled", "paused"} : Ask(c, Row(s, schedule.expression))

AskDelete(c) ==
    /\ Exists
    /\ Ask(c, Row("deleted", schedule.expression))

\* CreateSchedule, MutateSchedule: the schedule is still what was read.
Mutate(c) ==
    /\ request[c] # NoRequest
    /\ request[c].version = schedule.version + 1
    /\ schedule' = [request[c] EXCEPT !.start = Len(log)]
    /\ request' = [request EXCEPT ![c] = NoRequest]
    /\ commands' = commands + 1
    /\ UNCHANGED <<now, wall, log, batch, faults>>

\* A conflict, a refusal, an error, or a client that goes away.
Refused(c) ==
    /\ request[c] # NoRequest
    /\ request' = [request EXCEPT ![c] = NoRequest]
    /\ UNCHANGED <<now, wall, schedule, log, batch, commands, faults>>

-----------------------------------------------------------------------------
(* Lanes: ProcessDue.                                                      *)

Due == schedule.state = "enabled" /\ EligibleAt(schedule.minute) <= now

\* Bug: the lease of a lane that is gone is not taken over.
BugFree == schedule.owner = None
\* Nobody has it on lease.
Free == schedule.owner = None \/ ~schedule.live

\* ClaimDueSchedules
Claim(w) ==
    /\ batch[w] = NoClaim
    /\ Due /\ Free
    /\ Len(log) < MaxLog
    /\ schedule' = [schedule EXCEPT !.owner = w, !.leased = now, !.live = TRUE]
    /\ \E late \in Misfires(schedule.minute, now) :
          batch' = [batch EXCEPT ![w] =
                       [version |-> schedule.version, minute |-> schedule.minute,
                        expression |-> schedule.expression, at |-> now, late |-> late]]
    /\ UNCHANGED <<now, wall, log, request, commands, faults>>

\* Bug: the next minute is always reckoned from the clock.
BugAlwaysFromClock(claim) == Following(claim.expression, wall[claim.at])
\* The minute after the one that is claimed; after a misfire, the one after
\* the clock.
NextAfter(claim) ==
    Following(claim.expression, IF claim.late THEN wall[claim.at] ELSE claim.minute)

\* Bug: the row is found by its id alone.
BugFenced(w) == TRUE
\* The fence of CompleteDueSchedule.
Fenced(w) ==
    /\ schedule.state = "enabled"
    /\ schedule.owner = w /\ schedule.live
    /\ schedule.minute = batch[w].minute
    /\ schedule.version = batch[w].version

\* The occurrence, its run and the next minute, in one transaction.
Complete(w) ==
    LET claim == batch[w] IN
    /\ claim # NoClaim
    /\ Fenced(w)
    /\ log' = Append(log, [minute |-> claim.minute, from |-> schedule.from,
                           missed |-> IF claim.late THEN wall[claim.at] ELSE claim.minute])
    /\ schedule' = [schedule EXCEPT !.minute = NextAfter(claim),
                                    !.from = IF claim.late THEN claim.at ELSE @,
                                    !.owner = None, !.leased = Never, !.live = FALSE,
                                    !.version = @ + 1]
    /\ batch' = [batch EXCEPT ![w] = NoClaim]
    /\ UNCHANGED <<now, wall, request, commands, faults>>

\* ErrConflict: on to the next of the batch.
Conflict(w) ==
    /\ batch[w] # NoClaim
    /\ ~Fenced(w)
    /\ batch' = [batch EXCEPT ![w] = NoClaim]
    /\ UNCHANGED <<now, wall, schedule, log, request, commands, faults>>

\* An error ends the batch, or the process dies.  The lease stays.
Lose(w) ==
    /\ batch[w] # NoClaim
    /\ faults < MaxFaults
    /\ faults' = faults + 1
    /\ batch' = [batch EXCEPT ![w] = NoClaim]
    /\ UNCHANGED <<now, wall, schedule, log, request, commands>>

-----------------------------------------------------------------------------
(* Time.                                                                   *)

Abandoned == schedule.live /\ batch[schedule.owner] = NoClaim

\* The lease ends within the minute; that of a lane at work is a stall.
Lapse ==
    /\ schedule.live
    /\ Abandoned \/ faults < MaxFaults
    /\ faults' = IF Abandoned THEN faults ELSE faults + 1
    /\ schedule' = [schedule EXCEPT !.live = FALSE]
    /\ UNCHANGED <<now, wall, log, batch, request, commands>>

\* No lease reaches the minute after the next.
Tick ==
    /\ now < Horizon
    /\ now' = now + 1
    /\ schedule' = [schedule EXCEPT !.live = @ /\ schedule.leased = now]
    /\ UNCHANGED <<wall, log, batch, request, commands, faults>>

-----------------------------------------------------------------------------

Next ==
    \/ \E c \in Client :
          \/ AskCreate(c) \/ AskUpdate(c) \/ AskSetEnabled(c) \/ AskDelete(c)
          \/ Mutate(c) \/ Refused(c)
    \/ \E w \in Worker : Claim(w) \/ Complete(w) \/ Conflict(w) \/ Lose(w)
    \/ Lapse \/ Tick

Spec == Init /\ [][Next]_vars

\* Lanes poll and their transactions end; leases of lanes that are gone lapse.
FairSpec ==
    /\ Spec
    /\ WF_vars(\E w \in Worker : Claim(w))
    /\ \A w \in Worker : WF_vars(Complete(w) \/ Conflict(w))
    /\ WF_vars(Lapse /\ Abandoned)

-----------------------------------------------------------------------------
(* Properties.                                                             *)

States == {"none", "enabled", "paused", "deleted"}
Rows == [state : States, version : Nat, expression : SUBSET (0..(Beyond - 1)), minute : 0..Beyond,
         from : Instant, owner : Worker \union {None}, leased : Instant \union {Never}, live : BOOLEAN,
         since : Nat, start : Nat]

Occurrences == [minute : Nat, from : Instant, missed : Nat]

\* Only a schedule that is enabled has a next minute or a lease
\* (source_schedules_enabled_shape, source_schedules_lease_shape).
Shaped(row) ==
    /\ row.state # "enabled" => row.minute = Beyond /\ row.owner = None
    /\ row.minute \in row.expression \union {Beyond}
    /\ row.live => row.owner # None

\* TypeOK: the rows, claims and requests have their types and shapes.
TypeOK ==
    /\ now \in Instant
    /\ wall \in Zones
    /\ schedule \in Rows /\ Shaped(schedule)
    /\ log \in Seq(Occurrences)
    /\ batch \in [Worker -> [version : Nat, minute : 0..Beyond, expression : SUBSET (0..(Beyond - 1)),
                             at : Instant, late : BOOLEAN]]
    /\ request \in [Client -> Rows] /\ \A c \in Client : Shaped(request[c])
    /\ commands \in Nat /\ faults \in Nat

\* The last minute that an occurrence speaks for.
Until(o) == IF o.missed > o.minute THEN o.missed ELSE o.minute

\* The clock has shown the minute, or one after it, before the instant.
ShownBefore(minute, t) == \E u \in 0..(t - 1) : wall[u] >= minute

\* MinuteRunsOnce: the minutes of a schedule are taken up in order, each once,
\* whatever is claimed twice, changed meanwhile, paused and resumed; what was
\* missed before a late occurrence never follows it.  The exception are minutes
\* that a command or a late occurrence reckons from a clock that has been set
\* back and had shown before what was taken up.
MinuteRunsOnce ==
    \A i, j \in DOMAIN log : i < j =>
        Until(log[i]) < log[j].minute \/ ShownBefore(Until(log[i]), log[j].from)

\* Accounted for since the last command: taken up, or missed before a late one.
Accounted(minute) ==
    \E i \in (schedule.start + 1)..Len(log) :
        \/ log[i].minute = minute
        \/ log[i].minute < minute /\ minute <= log[i].missed

\* NoMinuteIsLost: every minute that the expression has named since the last
\* command left its occurrence, or was missed before a late one, or is to come;
\* and what is to come next is a minute of the present expression.
NoMinuteIsLost ==
    schedule.state = "enabled" =>
        /\ schedule.minute \in schedule.expression \union {Beyond}
        /\ \A m \in schedule.expression :
              schedule.since < m /\ m < schedule.minute => Accounted(m)

\* OccurrenceIsCurrent: an occurrence is recorded for a minute that has come, of
\* a schedule that is enabled and names it now, though it was claimed under an
\* earlier state of it.
OccurrenceIsCurrent ==
    [][log' # log =>
          LET o == log'[Len(log')] IN
          /\ Due /\ o.minute = schedule.minute /\ o.minute \in schedule.expression]_vars

\* EveryMinuteEnds: a schedule does not stay due for ever: what has come is
\* taken up, whichever lanes fail on the way.
EveryMinuteEnds == []<>(~Due \/ Len(log) = MaxLog)

=============================================================================
