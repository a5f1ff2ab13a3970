------------------------------ MODULE Delivery ------------------------------
(***************************************************************************)
(* The outbox and what hangs on it: the dispatcher that claims events      *)
(* (dispatcher.go, router.go, outbox.sql), its two subscribers, which are  *)
(* the fan-out to webhooks (webhooks.go) and the projection to Git         *)
(* (publisher.go, gitcontent/adapter.go), and the lane that sends the      *)
(* deliveries (webhooks/service.go).                                       *)
(*                                                                         *)
(* A worker is a process with both lanes and a Git repository of its own.  *)
(* A restarted process has a new name, so that rows of the old one belong  *)
(* to Nobody.  Leases and backoff end when time says so: `live' is         *)
(* leased_until > now, and a row that waits is claimed sooner or later.    *)
(***************************************************************************)
EXTENDS Integers, FiniteSets

CONSTANTS
    Subscriber,    \* the webhook subscriptions that may be created
    Worker,        \* the processes
    Nobody,        \* no lease, or that of a process that ended
    Wanted,        \* event_types of the subscriptions
    MaxEvents,     \* bound: events enqueued
    Mixes,         \* bound: how many events of each kind, together
    EventAttempts, \* max_attempts of an event, 8 in the code
    Budget,        \* max_attempts of a delivery, 8
    Renewed,       \* max_attempts of a delivery that was replayed, 16
    MaxVersion,    \* bound: changes of a subscription
    MaxFaults      \* bound: crashes, stalls, failed statements

Kinds == {"asset", "release", "proposal"}
Event == 1..MaxEvents
Pairs == Subscriber \X Event

ASSUME DeliveryAssumption ==
    /\ Nobody \notin Worker
    /\ Wanted \subseteq {"asset", "release"}
    /\ MaxEvents \in Nat
    /\ Mixes \subseteq [Kinds -> Nat]
    /\ EventAttempts \in Nat \ {0}
    /\ Budget \in Nat \ {0}
    /\ Renewed \in Nat /\ Renewed > Budget
    /\ MaxVersion \in Nat
    /\ MaxFaults \in Nat

VARIABLES
    event,         \* outbox_events
    receipts,      \* webhook_fanout_receipts
    subscription,  \* webhook_subscriptions
    delivery,      \* webhook_deliveries
    run,           \* the runtime run of each delivery
    sends,         \* calls of transport.Send for each delivery
    git,           \* the repository of each worker
    dispatcher,    \* the dispatcher lane of each worker
    sender,        \* the webhook lane of each worker
    up,            \* the workers that run
    faults

outboxVars == <<event, git, dispatcher>>
webhookVars == <<delivery, run, sends, sender>>
vars == <<event, receipts, subscription, delivery, run, sends, git, dispatcher, sender, up, faults>>

EventStates == {"none", "queued", "publishing", "retryable", "published", "dead_letter"}
DeliveryStates == {"none", "queued", "running", "succeeded", "cancelled", "dead_letter"}

NoEvent == [kind |-> "asset", revision |-> 0, state |-> "none", attempt |-> 0,
            owner |-> Nobody, live |-> FALSE]
NoDelivery == [state |-> "none", attempt |-> 0, max |-> Budget, version |-> 0,
               owner |-> Nobody, live |-> FALSE]

DispatcherIdle == [at |-> "idle", event |-> 0, failed |-> FALSE]
SenderIdle == [at |-> "idle", pair |-> <<>>, plan |-> "none"]

Init ==
    /\ event = [e \in Event |-> NoEvent]
    /\ receipts = {}
    /\ subscription = [s \in Subscriber |-> [version |-> 0, enabled |-> FALSE]]
    /\ delivery = [p \in Pairs |-> NoDelivery]
    /\ run = [p \in Pairs |-> "none"]
    /\ sends = [p \in Pairs |-> 0]
    /\ git = [w \in Worker |-> [head |-> 0, documents |-> {}, dirty |-> FALSE]]
    /\ dispatcher = [w \in Worker |-> DispatcherIdle]
    /\ sender = [w \in Worker |-> SenderIdle]
    /\ up = Worker
    /\ faults = 0

-----------------------------------------------------------------------------
(* The server: mutations that enqueue events, and subscriptions.           *)

Enqueued(kind) == Cardinality({e \in Event : event[e].state # "none" /\ event[e].kind = kind})

\* createMutationEvents, in the transaction of the mutation.  The assets are
\* one, whose revision n is based on revision n - 1.
Enqueue(e, kind) ==
    /\ event[e].state = "none"
    /\ \A f \in 1..(e - 1) : event[f].state # "none"
    /\ \E mix \in Mixes : Enqueued(kind) < mix[kind] /\ \A other \in Kinds : Enqueued(other) <= mix[other]
    /\ event' = [event EXCEPT ![e] =
         [NoEvent EXCEPT !.kind = kind, !.state = "queued",
                         !.revision = IF kind = "asset" THEN Enqueued(kind) + 1 ELSE 0]]
    /\ UNCHANGED <<receipts, subscription, webhookVars, git, dispatcher, up, faults>>

\* Save creates, edits, disables or rotates; each makes a new version.
SaveSubscription(s) ==
    /\ subscription[s].version < MaxVersion
    /\ \E enabled \in BOOLEAN :
         subscription' = [subscription EXCEPT ![s] =
                            [version |-> @.version + 1, enabled |-> enabled]]
    /\ UNCHANGED <<outboxVars, receipts, webhookVars, up, faults>>

\* projectWebhookDelivery, in the transaction that writes the row.
Projected(p, row) == row.state

Write(p, row) ==
    /\ delivery' = [delivery EXCEPT ![p] = row]
    /\ run' = [run EXCEPT ![p] = Projected(p, row)]

\* The delivery is still for the subscription as it is.
IsCurrent(p) == /\ subscription[p[1]].enabled
                /\ subscription[p[1]].version = delivery[p].version

\* A dead letter that was not replayed before.
Replayable(p) == delivery[p].state = "dead_letter" /\ delivery[p].max = Budget

ReplayDelivery(p) ==
    /\ Replayable(p)
    /\ IsCurrent(p)
    /\ Write(p, [delivery[p] EXCEPT !.state = "queued", !.max = Renewed])
    /\ UNCHANGED <<outboxVars, receipts, subscription, sends, sender, up, faults>>

-----------------------------------------------------------------------------
(* The dispatcher lane.                                                    *)

\* outbox.sql, in the reap as in MarkOutboxEventFailed.
BugOneMoreAttempt(e) == event[e].attempt > EventAttempts
Exhausted(e) == event[e].attempt >= EventAttempts

Unpublished(e) ==
    [event[e] EXCEPT !.state = IF Exhausted(e) THEN "dead_letter" ELSE "retryable",
                     !.owner = Nobody, !.live = FALSE]

Expired(e) == event[e].state = "publishing" /\ ~event[e].live

ReapEvents(w) ==
    /\ w \in up
    /\ dispatcher[w].at = "idle"
    /\ \E e \in Event : Expired(e)
    /\ event' = [e \in Event |-> IF Expired(e) THEN Unpublished(e) ELSE event[e]]
    /\ UNCHANGED <<receipts, subscription, webhookVars, git, dispatcher, up, faults>>

\* An event without subscribers needs no delivery.
Routed(e) == event[e].kind \in {"asset", "release"}

ClaimEvent(w, e) ==
    /\ w \in up
    /\ dispatcher[w].at = "idle"
    /\ event[e].state \in {"queued", "retryable"}
    /\ event' = [event EXCEPT ![e].state = "publishing", ![e].attempt = @ + 1,
                              ![e].owner = w, ![e].live = TRUE]
    /\ dispatcher' = [dispatcher EXCEPT ![w] =
         [at |-> IF Routed(e) THEN "fan_out" ELSE "mark", event |-> e, failed |-> FALSE]]
    /\ UNCHANGED <<receipts, subscription, webhookVars, git, up, faults>>

\* The webhooks a first fan-out finds; a receipt says that there was one.
Matching(e) == {s \in Subscriber : subscription[s].enabled /\ event[e].kind \in Wanted}
Subscribed(e) == IF e \in receipts THEN {} ELSE Matching(e)

\* EnqueueWebhookDeliveries; ON CONFLICT leaves a delivery that exists alone.
FanOut(w) ==
    /\ dispatcher[w].at = "fan_out"
    /\ LET e == dispatcher[w].event
           new == {<<s, e>> : s \in Subscribed(e)}
           Added(p) == p \in new /\ delivery[p].state = "none"
       IN /\ receipts' = receipts \union {e}
          /\ delivery' = [p \in Pairs |->
               IF Added(p)
               THEN [NoDelivery EXCEPT !.state = "queued", !.version = subscription[p[1]].version]
               ELSE delivery[p]]
          /\ run' = [p \in Pairs |-> IF Added(p) THEN "queued" ELSE run[p]]
    /\ dispatcher' = [dispatcher EXCEPT ![w].at = "project"]
    /\ UNCHANGED <<event, subscription, sends, git, sender, up, faults>>

Fault == faults < MaxFaults /\ faults' = faults + 1

\* The router calls the next subscriber all the same.
FanOutFails(w) ==
    /\ dispatcher[w].at = "fan_out"
    /\ Fault
    /\ dispatcher' = [dispatcher EXCEPT ![w].at = "project", ![w].failed = TRUE]
    /\ UNCHANGED <<event, receipts, subscription, webhookVars, git, up>>

\* ProjectAsset and ProjectRelease before they write: what the repository
\* holds already, and whether the document may be written on top of it.
InRepository(w, e) ==
    IF event[e].kind = "asset" THEN git[w].head = event[e].revision ELSE e \in git[w].documents
BugSkipsBase(w, e) == ~git[w].dirty
MayWrite(w, e) ==
    /\ ~git[w].dirty
    /\ event[e].kind = "asset" => git[w].head = event[e].revision - 1

WriteDocument(w) ==
    /\ dispatcher[w].at = "project"
    /\ ~InRepository(w, dispatcher[w].event)
    /\ MayWrite(w, dispatcher[w].event)
    /\ git' = [git EXCEPT ![w].dirty = TRUE]
    /\ dispatcher' = [dispatcher EXCEPT ![w].at = "commit"]
    /\ UNCHANGED <<event, receipts, subscription, webhookVars, up, faults>>

\* Already there, or refused: ErrDirty, ErrConflict.
NothingToWrite(w) ==
    /\ dispatcher[w].at = "project"
    /\ LET e == dispatcher[w].event
           there == ~git[w].dirty /\ InRepository(w, e)
       IN /\ there \/ ~MayWrite(w, e)
          /\ dispatcher' = [dispatcher EXCEPT ![w].at = "mark", ![w].failed = @ \/ ~there]
    /\ UNCHANGED <<event, receipts, subscription, webhookVars, git, up, faults>>

CommitDocument(w) ==
    /\ dispatcher[w].at = "commit"
    /\ LET e == dispatcher[w].event
       IN git' = [git EXCEPT ![w] =
            [head |-> IF event[e].kind = "asset" THEN event[e].revision ELSE @.head,
             documents |-> @.documents \union {e}, dirty |-> FALSE]]
    /\ dispatcher' = [dispatcher EXCEPT ![w].at = "mark"]
    /\ UNCHANGED <<event, receipts, subscription, webhookVars, up, faults>>

\* What was written is taken back.
CommitFails(w) ==
    /\ dispatcher[w].at = "commit"
    /\ Fault
    /\ git' = [git EXCEPT ![w].dirty = FALSE]
    /\ dispatcher' = [dispatcher EXCEPT ![w].at = "mark", ![w].failed = TRUE]
    /\ UNCHANGED <<event, receipts, subscription, webhookVars, up>>

\* One failed subscriber fails the event.
BugJoinsNoErrors(w) == TRUE
Succeeded(w) == ~dispatcher[w].failed

MarkEvent(w) ==
    /\ dispatcher[w].at = "mark"
    /\ LET e == dispatcher[w].event
       IN /\ event[e].state = "publishing" /\ event[e].owner = w
          /\ event' = [event EXCEPT ![e] =
               IF Succeeded(w)
               THEN [event[e] EXCEPT !.state = "published", !.owner = Nobody, !.live = FALSE]
               ELSE Unpublished(e)]
    /\ dispatcher' = [dispatcher EXCEPT ![w] = DispatcherIdle]
    /\ UNCHANGED <<receipts, subscription, webhookVars, git, up, faults>>

-----------------------------------------------------------------------------
(* The webhook lane.                                                       *)

BugNeverReclaims(p) == delivery[p].state = "queued"
Claimable(p) ==
    \/ delivery[p].state = "queued"
    \/ delivery[p].state = "running" /\ ~delivery[p].live

\* What RunOne does with a claim: ATTEMPTS_EXHAUSTED before SUBSCRIPTION_*.
BugSendsPastTheMaximum(p) == IF IsCurrent(p) THEN "post" ELSE "cancel"
PlanFor(p) ==
    CASE delivery[p].attempt + 1 > delivery[p].max -> "give_up"
      [] ~IsCurrent(p) -> "cancel"
      [] OTHER -> "post"

ClaimDelivery(w, p) ==
    /\ w \in up
    /\ sender[w].at = "idle"
    /\ Claimable(p)
    /\ delivery' = [delivery EXCEPT ![p].state = "running", ![p].attempt = @ + 1,
                                    ![p].owner = w, ![p].live = TRUE]
    /\ run' = [run EXCEPT ![p] = IF delivery'[p].attempt <= delivery[p].max
                                 THEN Projected(p, delivery'[p]) ELSE @]
    /\ sender' = [sender EXCEPT ![w] =
         [at |-> IF PlanFor(p) = "post" THEN "post" ELSE "finish", pair |-> p, plan |-> PlanFor(p)]]
    /\ UNCHANGED <<outboxVars, receipts, subscription, sends, up, faults>>

\* A call of transport.Send; it fails without a 2xx, whatever was received.
Post(w) ==
    /\ sender[w].at = "post"
    /\ sends' = [sends EXCEPT ![sender[w].pair] = @ + 1]
    /\ \E answer \in {"ok", "failed"} :
         sender' = [sender EXCEPT ![w].at = "finish", ![w].plan = answer]
    /\ UNCHANGED <<outboxVars, receipts, subscription, delivery, run, up, faults>>

\* FinishWebhookDelivery: the state an attempt leaves, and the count it keeps.
LastAttempt(row) == row.attempt >= row.max
Outcome(plan, row) ==
    CASE plan = "ok" -> "succeeded"
      [] plan = "cancel" -> "cancelled"
      [] OTHER -> IF LastAttempt(row) THEN "dead_letter" ELSE "queued"
Counted(row) == IF row.attempt > row.max THEN row.max ELSE row.attempt

\* Only the row that w claimed last is still in its name.  The clock w reads
\* may be a moment before the end of the lease when the statement is after it.
MayFinish(w, p) == delivery[p].state = "running" /\ delivery[p].owner = w

Finish(w) ==
    /\ sender[w].at = "finish"
    /\ LET p == sender[w].pair
       IN /\ MayFinish(w, p)
          /\ Write(p, [delivery[p] EXCEPT !.state = Outcome(sender[w].plan, delivery[p]),
                                          !.attempt = Counted(delivery[p]),
                                          !.owner = Nobody, !.live = FALSE])
    /\ sender' = [sender EXCEPT ![w] = SenderIdle]
    /\ UNCHANGED <<outboxVars, receipts, subscription, sends, up, faults>>

\* ErrConflict: the lease is over.  RunOne goes on to the next delivery.
FinishRefused(w) ==
    /\ sender[w].at = "finish"
    /\ ~MayFinish(w, sender[w].pair) \/ ~delivery[sender[w].pair].live
    /\ sender' = [sender EXCEPT ![w] = SenderIdle]
    /\ UNCHANGED <<outboxVars, receipts, subscription, delivery, run, sends, up, faults>>

-----------------------------------------------------------------------------
(* Processes and time.                                                     *)

\* The process ends with both lanes; what is written and not committed stays
\* in its repository.
Ended(w) ==
    /\ up' = up \ {w}
    /\ dispatcher' = [dispatcher EXCEPT ![w] = DispatcherIdle]
    /\ sender' = [sender EXCEPT ![w] = SenderIdle]
    /\ event' = [e \in Event |-> [event[e] EXCEPT !.owner = IF @ = w THEN Nobody ELSE @]]
    /\ delivery' = [p \in Pairs |-> [delivery[p] EXCEPT !.owner = IF @ = w THEN Nobody ELSE @]]
    /\ UNCHANGED <<receipts, subscription, run, sends, git>>

Crash(w) ==
    /\ w \in up
    /\ Fault
    /\ Ended(w)

\* requireLease: the error of the dispatcher lane ends the process.
MarkRefused(w) ==
    /\ dispatcher[w].at = "mark"
    /\ event[dispatcher[w].event].owner # w
    /\ Ended(w)
    /\ UNCHANGED faults

Restart(w) ==
    /\ w \notin up
    /\ up' = up \union {w}
    /\ UNCHANGED <<outboxVars, receipts, subscription, webhookVars, faults>>

\* A lease ends because its process did, or stalls.
Lapse(owner) == IF owner = Nobody THEN UNCHANGED faults ELSE Fault

EventLapses(e) ==
    /\ event[e].live
    /\ Lapse(event[e].owner)
    /\ event' = [event EXCEPT ![e].live = FALSE]
    /\ UNCHANGED <<receipts, subscription, webhookVars, git, dispatcher, up>>

DeliveryLapses(p) ==
    /\ delivery[p].live
    /\ Lapse(delivery[p].owner)
    /\ delivery' = [delivery EXCEPT ![p].live = FALSE]
    /\ UNCHANGED <<outboxVars, receipts, subscription, run, sends, sender, up>>

-----------------------------------------------------------------------------

Dispatch(w) ==
    \/ ReapEvents(w)
    \/ \E e \in Event : ClaimEvent(w, e)
    \/ FanOut(w) \/ WriteDocument(w) \/ NothingToWrite(w) \/ CommitDocument(w)
    \/ MarkEvent(w) \/ MarkRefused(w)

Send(w) ==
    \/ \E p \in Pairs : ClaimDelivery(w, p)
    \/ Post(w) \/ Finish(w) \/ FinishRefused(w)

TimePasses ==
    \/ \E e \in Event : event[e].owner = Nobody /\ EventLapses(e)
    \/ \E p \in Pairs : delivery[p].owner = Nobody /\ DeliveryLapses(p)

Next ==
    \/ \E e \in Event, kind \in Kinds : Enqueue(e, kind)
    \/ \E s \in Subscriber : SaveSubscription(s)
    \/ \E p \in Pairs : ReplayDelivery(p) \/ DeliveryLapses(p)
    \/ \E e \in Event : EventLapses(e)
    \/ \E w \in Worker : \/ Dispatch(w) \/ Send(w)
                         \/ FanOutFails(w) \/ CommitFails(w)
                         \/ Crash(w) \/ Restart(w)

Spec == Init /\ [][Next]_vars

\* Both lanes loop, a call returns, a lease of a process that ended runs out,
\* and a supervisor restarts the process.
Fairness ==
    /\ WF_vars(TimePasses)
    /\ \A w \in Worker : WF_vars(Dispatch(w)) /\ WF_vars(Send(w)) /\ WF_vars(Restart(w))

FairSpec == Spec /\ Fairness

-----------------------------------------------------------------------------
(* Properties.                                                             *)

EventRows == [kind: Kinds, revision: Nat, state: EventStates, attempt: 0..EventAttempts,
              owner: Worker \union {Nobody}, live: BOOLEAN]
Repositories == [head: Nat, documents: SUBSET Event, dirty: BOOLEAN]
Dispatchers == [at: {"idle", "fan_out", "project", "commit", "mark"}, event: {0} \union Event, failed: BOOLEAN]

SubscriptionRows == [version: 0..MaxVersion, enabled: BOOLEAN]
DeliveryRows == [state: DeliveryStates, attempt: Nat, max: {Budget, Renewed}, version: 0..MaxVersion,
                 owner: Worker \union {Nobody}, live: BOOLEAN]
Senders == [at: {"idle", "post", "finish"}, pair: {<<>>} \union Pairs,
            plan: {"none", "post", "give_up", "cancel", "ok", "failed"}]

OutboxTypes ==
    /\ event \in [Event -> EventRows]
    /\ git \in [Worker -> Repositories]
    /\ dispatcher \in [Worker -> Dispatchers]

WebhookTypes ==
    /\ delivery \in [Pairs -> DeliveryRows]
    /\ run \in [Pairs -> DeliveryStates]
    /\ sends \in [Pairs -> Nat]
    /\ sender \in [Worker -> Senders]

\* Type invariant, with the limits of the tables (migrations 1 and 20).
TypeOK ==
    /\ OutboxTypes
    /\ WebhookTypes
    /\ receipts \subseteq Event
    /\ subscription \in [Subscriber -> SubscriptionRows]
    /\ up \subseteq Worker
    /\ faults \in 0..MaxFaults

\* What operators see of a webhook (its runtime run) keeps the promise of
\* DeliveryContract: the first fan-out decides who is owed an event, a
\* succeeded delivery was sent, and crashes, stalls and late answers never
\* send more than eight times, or sixteen after the one replay.
PromiseOf(state) ==
    CASE state \in {"queued", "running"} -> "owed"
      [] state = "succeeded" -> "kept"
      [] state = "cancelled" -> "released"
      [] state = "dead_letter" -> "broken"
      [] OTHER -> "none"

Contract == INSTANCE DeliveryContract WITH
    decided <- receipts,
    promise <- [p \in Pairs |-> PromiseOf(run[p])],
    renewed <- {p \in Pairs : delivery[p].max = Renewed}

KeepsItsPromise == Contract!ContractSpec

\* An event marked published has been fanned out, and its document committed
\* to the repository of some worker, whatever failed or was lost on the way.
PublishedIsDone ==
    \A e \in Event : event[e].state = "published" /\ Routed(e) =>
        /\ e \in receipts
        /\ \E w \in Worker : e \in git[w].documents

\* A repository gets the revisions of an asset in their order and without a gap,
\* though events are claimed in any order and delivered again.
GitKeepsOrder ==
    \A w \in Worker : \A e \in git[w].documents : event[e].kind = "asset" =>
        /\ event[e].revision <= git[w].head
        /\ \A f \in Event : event[f].kind = "asset" /\ event[f].revision \in 1..event[e].revision
             => f \in git[w].documents

\* Whatever was enqueued, subscribed or replayed, in the end every event is
\* published or dead, and every delivery succeeded, cancelled or dead.
Quiet ==
    /\ \A e \in Event : event[e].state \in {"none", "published", "dead_letter"}
    /\ \A p \in Pairs : delivery[p].state \in {"none", "succeeded", "cancelled", "dead_letter"}

EverythingEnds == []<>Quiet

=============================================================================
