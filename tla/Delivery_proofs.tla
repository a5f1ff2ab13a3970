-------------------------- MODULE Delivery_proofs ---------------------------
(***************************************************************************)
(* Theorems about Delivery, for any workers, subscriptions and bounds: the *)
(* types, what a published event has behind it, the order in which Git     *)
(* gets revisions, and the promise to subscribers (DeliveryContract).      *)
(***************************************************************************)
EXTENDS Delivery, FiniteSetTheorems, TLAPS

\* A row that was enqueued says so, is below its last attempt as long as it
\* can be claimed, and has a revision that was counted.
IsAsset(e) == event[e].state # "none" /\ event[e].kind = "asset"
Outbox(e) ==
    /\ event[e].state \in {"queued", "retryable"} => event[e].attempt < EventAttempts
    /\ event[e].state = "none" => event[e].attempt = 0 /\ event[e].revision = 0
    /\ IsAsset(e) => event[e].revision \in 1..Enqueued("asset")

OneAssetPerRevision ==
    \A e, f \in Event : IsAsset(e) /\ IsAsset(f) /\ event[e].revision = event[f].revision => e = f

\* The repository holds the revisions up to its head, and no others.
Repository(w) ==
    /\ git[w].head <= Enqueued("asset")
    /\ \A e \in git[w].documents : event[e].state # "none"
    /\ \A e \in Event : IsAsset(e) => (e \in git[w].documents <=> event[e].revision <= git[w].head)

\* What the dispatcher of a worker has done so far for its event.
Kept(w) == Routed(dispatcher[w].event) /\ ~dispatcher[w].failed
Dispatches(w) ==
    LET d == dispatcher[w] IN
    /\ d.at # "idle" => d.event \in Event /\ event[d.event].state # "none"
    /\ d.at \in {"fan_out", "project", "commit"} => Routed(d.event)
    /\ d.at \in {"project", "commit", "mark"} /\ Kept(w) => d.event \in receipts
    /\ d.at = "mark" /\ Kept(w) => d.event \in git[w].documents
    /\ d.at = "commit" /\ event[d.event].kind = "asset" => git[w].head = event[d.event].revision - 1

OutboxInv ==
    /\ OutboxTypes /\ receipts \subseteq Event
    /\ \A e \in Event : Outbox(e)
    /\ OneAssetPerRevision
    /\ \A w \in Worker : Repository(w) /\ Dispatches(w)
    /\ PublishedIsDone

-----------------------------------------------------------------------------
(* Counting the events of the asset.                                       *)

\* Everything that happens to events but Enqueue.
KeepsEvents ==
    \A e \in Event :
        /\ event'[e].kind = event[e].kind
        /\ event'[e].revision = event[e].revision
        /\ event'[e].state = "none" <=> event[e].state = "none"

LEMMA CountIsNatural == \A kind : Enqueued(kind) \in Nat
<1> TAKE kind
<1> DEFINE S == {e \in Event : event[e].state # "none" /\ event[e].kind = kind}
<1>1. IsFiniteSet(Event)
  BY FS_Interval, DeliveryAssumption DEF DeliveryAssumption, Event
<1>2. S \in SUBSET Event
  OBVIOUS
<1>3. IsFiniteSet(S)
  BY <1>1, <1>2, FS_Subset, Zenon
<1> QED BY <1>3, FS_CardinalityType DEF Enqueued

LEMMA CountIsKept ==
    ASSUME KeepsEvents
    PROVE  \A kind : Enqueued(kind)' = Enqueued(kind)
<1> TAKE kind
<1>1. {e \in Event : event'[e].state # "none" /\ event'[e].kind = kind}
        = {e \in Event : event[e].state # "none" /\ event[e].kind = kind}
  BY DEF KeepsEvents
<1> QED BY <1>1 DEF Enqueued

LEMMA CountGrows ==
    ASSUME OutboxTypes, NEW e \in Event, NEW kind \in Kinds, Enqueue(e, kind)
    PROVE  Enqueued("asset")' = IF kind = "asset" THEN Enqueued("asset") + 1 ELSE Enqueued("asset")
<1> DEFINE S == {f \in Event : event[f].state # "none" /\ event[f].kind = "asset"}
           T == {f \in Event : event'[f].state # "none" /\ event'[f].kind = "asset"}
<1>1. event[e].state = "none" /\ event'[e].state # "none" /\ event'[e].kind = kind
  BY DEF Enqueue, OutboxTypes, EventRows, NoEvent
<1>2. \A f \in Event \ {e} : event'[f] = event[f]
  BY DEF Enqueue, OutboxTypes
<1>3. T = IF kind = "asset" THEN S \union {e} ELSE S
  BY <1>1, <1>2
<1>4. e \notin S
  BY <1>1
<1>5. IsFiniteSet(Event) /\ S \in SUBSET Event
  BY FS_Interval, DeliveryAssumption DEF DeliveryAssumption, Event
<1>6. IsFiniteSet(S)
  BY <1>5, FS_Subset, Zenon
<1>7. Cardinality(S \union {e}) = Cardinality(S) + 1
  BY <1>4, <1>6, FS_AddElement
<1> QED BY <1>3, <1>7 DEF Enqueued

-----------------------------------------------------------------------------
(* The outbox, the dispatchers and the repositories.                       *)

\* What a step owes to what it leaves alone.
LEMMA OutboxFrame ==
    ASSUME OutboxInv, KeepsEvents, receipts \subseteq receipts'
    PROVE  /\ \A e \in Event : (IsAsset(e)' <=> IsAsset(e)) /\ (Routed(e)' <=> Routed(e))
           /\ \A e \in Event : IsAsset(e)' => event'[e].revision \in 1..Enqueued("asset")'
           /\ OneAssetPerRevision'
           /\ \A w \in Worker : git'[w] = git[w] => Repository(w)'
           /\ \A w \in Worker : git'[w] = git[w] /\ dispatcher'[w] \in {dispatcher[w], DispatcherIdle}
                                => Dispatches(w)'
<1>1. \A e \in Event : (IsAsset(e)' <=> IsAsset(e)) /\ (Routed(e)' <=> Routed(e))
  BY DEF KeepsEvents, IsAsset, Routed
<1>2. Enqueued("asset")' = Enqueued("asset")
  BY CountIsKept
<1>3. \A e \in Event : event'[e].revision = event[e].revision /\ event'[e].kind = event[e].kind
                        /\ (event'[e].state = "none" <=> event[e].state = "none")
  BY DEF KeepsEvents
<1>4. \A e \in Event : IsAsset(e)' => event'[e].revision \in 1..Enqueued("asset")'
  BY <1>1, <1>2, <1>3 DEF OutboxInv, Outbox
<1>5. OneAssetPerRevision'
  BY <1>1, <1>3 DEF OutboxInv, OneAssetPerRevision
<1>6. ASSUME NEW w \in Worker, git'[w] = git[w] PROVE Repository(w)'
  <2>1. git[w].documents \subseteq Event
    BY DEF OutboxInv, OutboxTypes, Repositories
  <2> QED BY <1>1, <1>2, <1>3, <1>6, <2>1 DEF OutboxInv, Repository
<1>7. ASSUME NEW w \in Worker, git'[w] = git[w], dispatcher'[w] = dispatcher[w] PROVE Dispatches(w)'
  <2>1. CASE dispatcher[w].at = "idle"
    BY <1>7, <2>1 DEF Dispatches
  <2>2. CASE dispatcher[w].at # "idle"
    <3>1. dispatcher[w].event \in Event /\ Dispatches(w)
      BY <2>2 DEF OutboxInv, Dispatches
    <3> QED BY <1>1, <1>3, <1>7, <3>1 DEF Dispatches, Kept
  <2> QED BY <2>1, <2>2
<1>8. ASSUME NEW w \in Worker, dispatcher'[w] = DispatcherIdle PROVE Dispatches(w)'
  BY <1>8 DEF Dispatches, DispatcherIdle
<1> QED BY <1>1, <1>4, <1>5, <1>6, <1>7, <1>8

\* A repository loses no document, so that what was published stays done.
LEMMA PublishedFrame ==
    ASSUME OutboxInv, KeepsEvents, receipts \subseteq receipts',
           \A w \in Worker : git[w].documents \subseteq git'[w].documents
    PROVE  /\ \A e \in Event : event[e].state = "published" /\ Routed(e) =>
                 e \in receipts' /\ \E w \in Worker : e \in git'[w].documents
           /\ (\A e \in Event : event'[e].state = "published" => event[e].state = "published")
                 => PublishedIsDone'
<1>1. \A e \in Event : event[e].state = "published" /\ Routed(e) =>
                 e \in receipts' /\ \E w \in Worker : e \in git'[w].documents
  BY DEF OutboxInv, PublishedIsDone
<1>2. \A e \in Event : Routed(e)' <=> Routed(e)
  BY DEF KeepsEvents, Routed
<1> QED BY <1>1, <1>2 DEF PublishedIsDone

LEMMA OutboxKept == ASSUME OutboxInv, UNCHANGED <<outboxVars, receipts>> PROVE OutboxInv'
<1>1. KeepsEvents
  BY DEF KeepsEvents, outboxVars
<1>2. \A e \in Event : Outbox(e)'
  BY <1>1, OutboxFrame DEF OutboxInv, Outbox, outboxVars
<1>3. OutboxTypes' /\ receipts' \subseteq Event
  BY DEF OutboxInv, OutboxTypes, outboxVars
<1>4. PublishedIsDone'
  BY <1>1, PublishedFrame DEF OutboxInv, outboxVars
<1> QED BY <1>1, <1>2, <1>3, <1>4, OutboxFrame DEF OutboxInv, outboxVars

LEMMA EnqueueStep ==
    ASSUME OutboxInv, NEW e \in Event, NEW kind \in Kinds, Enqueue(e, kind)
    PROVE  OutboxInv'
<1> DEFINE revision == IF kind = "asset" THEN Enqueued(kind) + 1 ELSE 0
           row == [NoEvent EXCEPT !.kind = kind, !.state = "queued", !.revision = revision]
<1>1. event' = [event EXCEPT ![e] = row]
  BY DEF Enqueue
<1>2. revision \in Nat
  BY CountIsNatural
<1>3. /\ row \in EventRows
      /\ row.kind = kind /\ row.revision = revision /\ row.state = "queued" /\ row.attempt = 0
  <2> HIDE DEF revision
  <2>1. NoEvent \in EventRows /\ NoEvent.attempt = 0
    BY DeliveryAssumption DEF NoEvent, EventRows, Kinds, EventStates, DeliveryAssumption
  <2>2. "queued" \in EventStates
    BY DEF EventStates
  <2> QED BY <1>2, <2>1, <2>2 DEF EventRows
<1> HIDE DEF row
<1>4. /\ event' \in [Event -> EventRows] /\ event'[e] = row
      /\ \A f \in Event \ {e} : event'[f] = event[f]
  BY <1>1, <1>3 DEF OutboxInv, OutboxTypes
<1>5. event[e].state = "none" /\ UNCHANGED <<receipts, git, dispatcher>>
  BY DEF Enqueue
<1>6. Enqueued("asset")' = IF kind = "asset" THEN Enqueued("asset") + 1 ELSE Enqueued("asset")
  BY CountGrows DEF OutboxInv
<1>7. Enqueued("asset") \in Nat
  BY CountIsNatural
<1>8. \A f \in Event \ {e} : (IsAsset(f)' <=> IsAsset(f)) /\ (Routed(f)' <=> Routed(f))
  BY <1>4 DEF IsAsset, Routed
<1>9. ~IsAsset(e) /\ (IsAsset(e)' <=> kind = "asset")
  BY <1>3, <1>4, <1>5 DEF IsAsset
<1>10. kind = "asset" => event'[e].revision = Enqueued("asset") + 1
  BY <1>3, <1>4
<1>11. \A f \in Event : IsAsset(f) => event[f].revision \in 1..Enqueued("asset")
  BY DEF OutboxInv, Outbox
<1>12. OutboxTypes' /\ receipts' \subseteq Event
  BY <1>4, <1>5 DEF OutboxInv, OutboxTypes
<1>13. ASSUME NEW f \in Event PROVE Outbox(f)'
  <2>1. CASE f = e
    BY <2>1, <1>3, <1>4, <1>6, <1>7, <1>10, DeliveryAssumption DEF Outbox, DeliveryAssumption, IsAsset
  <2>2. CASE f # e
    <3>1. Outbox(f)
      BY DEF OutboxInv
    <3> QED BY <2>2, <3>1, <1>4, <1>6, <1>7, <1>8 DEF Outbox
  <2> QED BY <2>1, <2>2
<1>14. OneAssetPerRevision'
  <2>1. ASSUME NEW f \in Event, NEW g \in Event, IsAsset(f)', IsAsset(g)',
               event'[f].revision = event'[g].revision
        PROVE  f = g
    <3>1. CASE f # e /\ g # e
      BY <2>1, <3>1, <1>4, <1>8 DEF OutboxInv, OneAssetPerRevision
    <3>2. CASE f = e /\ g # e
      <4>1. event'[g].revision \in 1..Enqueued("asset") /\ kind = "asset"
        BY <2>1, <3>2, <1>4, <1>8, <1>9, <1>11
      <4> QED BY <2>1, <3>2, <4>1, <1>7, <1>10
    <3>3. CASE f # e /\ g = e
      <4>1. event'[f].revision \in 1..Enqueued("asset") /\ kind = "asset"
        BY <2>1, <3>3, <1>4, <1>8, <1>9, <1>11
      <4> QED BY <2>1, <3>3, <4>1, <1>7, <1>10
    <3> QED BY <3>1, <3>2, <3>3
  <2> QED BY <2>1 DEF OneAssetPerRevision
<1>15. ASSUME NEW w \in Worker PROVE Repository(w)'
  <2>1. Repository(w) /\ git[w].head \in Nat /\ git[w].documents \subseteq Event
    BY DEF OutboxInv, OutboxTypes, Repositories
  <2>2. e \notin git[w].documents
    BY <2>1, <1>5 DEF Repository
  <2>3. git'[w].head <= Enqueued("asset")'
    BY <2>1, <1>5, <1>6, <1>7 DEF Repository
  <2>4. \A f \in git'[w].documents : event'[f].state # "none"
    BY <2>1, <2>2, <1>3, <1>4, <1>5 DEF Repository
  <2>5. ASSUME NEW f \in Event, IsAsset(f)' PROVE f \in git'[w].documents <=> event'[f].revision <= git'[w].head
    <3>1. CASE f = e
      BY <2>1, <2>2, <2>5, <3>1, <1>5, <1>7, <1>9, <1>10 DEF Repository
    <3>2. CASE f # e
      BY <2>1, <2>5, <3>2, <1>4, <1>5, <1>8 DEF Repository
    <3> QED BY <3>1, <3>2
  <2> QED BY <2>3, <2>4, <2>5 DEF Repository
<1>16. ASSUME NEW w \in Worker PROVE Dispatches(w)'
  <2>1. Dispatches(w) /\ dispatcher'[w] = dispatcher[w] /\ git'[w] = git[w]
    BY <1>5 DEF OutboxInv
  <2>2. CASE dispatcher[w].at = "idle"
    BY <2>1, <2>2 DEF Dispatches
  <2>3. CASE dispatcher[w].at # "idle"
    <3>1. dispatcher[w].event \in Event \ {e}
      BY <2>1, <2>3, <1>5 DEF Dispatches
    <3> QED BY <2>1, <3>1, <1>4, <1>5, <1>8 DEF Dispatches, Kept
  <2> QED BY <2>2, <2>3
<1>17. PublishedIsDone'
  <2>1. \A f \in Event : event'[f].state = "published" => f # e /\ event[f].state = "published"
    BY <1>3, <1>4
  <2> QED BY <2>1, <1>5, <1>8 DEF OutboxInv, PublishedIsDone
<1> QED BY <1>12, <1>13, <1>14, <1>15, <1>16, <1>17 DEF OutboxInv

\* What is left to show of the other steps.
Limits(e) ==
    /\ event[e].state \in {"queued", "retryable"} => event[e].attempt < EventAttempts
    /\ event[e].state = "none" => event[e].attempt = 0 /\ event[e].revision = 0

LEMMA OutboxStep ==
    ASSUME OutboxInv, KeepsEvents, OutboxTypes', receipts \subseteq receipts', receipts' \subseteq Event,
           \A e \in Event : Limits(e)',
           \A e \in Event : event'[e].state = "published" =>
               \/ event[e].state = "published"
               \/ Routed(e) => e \in receipts' /\ \E w \in Worker : e \in git'[w].documents,
           \A w \in Worker :
               /\ git[w].documents \subseteq git'[w].documents
               /\ git'[w] = git[w] \/ Repository(w)'
               /\ (git'[w] = git[w] /\ dispatcher'[w] \in {dispatcher[w], DispatcherIdle}) \/ Dispatches(w)'
    PROVE  OutboxInv'
<1>1. \A e \in Event : Outbox(e)'
  BY OutboxFrame DEF Limits, Outbox
<1>2. \A w \in Worker : Repository(w)' /\ Dispatches(w)'
  BY OutboxFrame
<1>3. PublishedIsDone'
  <2>1. \A e \in Event : event[e].state = "published" /\ Routed(e) =>
                 e \in receipts' /\ \E w \in Worker : e \in git'[w].documents
    BY PublishedFrame
  <2>2. \A e \in Event : Routed(e)' <=> Routed(e)
    BY OutboxFrame
  <2> QED BY <2>1, <2>2 DEF PublishedIsDone
<1> QED BY <1>1, <1>2, <1>3, OutboxFrame DEF OutboxInv

\* What a failed or reaped event becomes.
LEMMA UnpublishedRow ==
    ASSUME OutboxInv, NEW e \in Event
    PROVE  /\ Unpublished(e) \in EventRows
           /\ Unpublished(e).kind = event[e].kind /\ Unpublished(e).revision = event[e].revision
           /\ Unpublished(e).state \in {"retryable", "dead_letter"}
           /\ Unpublished(e).state = "retryable" => Unpublished(e).attempt < EventAttempts
<1>1. event[e] \in EventRows
  BY DEF OutboxInv, OutboxTypes
<1> DEFINE state == IF Exhausted(e) THEN "dead_letter" ELSE "retryable"
<1>2. state \in {"retryable", "dead_letter"} /\ state \in EventStates
  BY DEF EventStates
<1>3. state = "retryable" => event[e].attempt < EventAttempts
  BY <1>1, DeliveryAssumption DEF Exhausted, EventRows, DeliveryAssumption
<1>4. Unpublished(e) = [event[e] EXCEPT !.state = state, !.owner = Nobody, !.live = FALSE]
  BY DEF Unpublished
<1> HIDE DEF state
<1> QED BY <1>1, <1>2, <1>3, <1>4 DEF EventRows

LEMMA ReapEventsStep == ASSUME OutboxInv, NEW w \in Worker, ReapEvents(w) PROVE OutboxInv'
<1>1. \A e \in Event : event'[e] = IF Expired(e) THEN Unpublished(e) ELSE event[e]
  BY DEF ReapEvents
<1>2. UNCHANGED <<receipts, git, dispatcher>>
  BY DEF ReapEvents
<1>3. \A e \in Event : Expired(e) => event[e].state = "publishing"
  BY DEF Expired
<1>4. KeepsEvents
  BY <1>1, <1>3, UnpublishedRow DEF KeepsEvents
<1>5. event' \in [Event -> EventRows]
  <2>1. \A e \in Event : event[e] \in EventRows /\ Unpublished(e) \in EventRows
    BY UnpublishedRow DEF OutboxInv, OutboxTypes
  <2> QED BY <2>1 DEF ReapEvents
<1>6. OutboxTypes'
  BY <1>2, <1>5 DEF OutboxInv, OutboxTypes
<1>7. \A e \in Event : Limits(e)' /\ (event'[e].state = "published" => event[e].state = "published")
  BY <1>1, UnpublishedRow DEF OutboxInv, Outbox, Limits
<1> QED BY <1>2, <1>4, <1>6, <1>7, OutboxStep DEF OutboxInv

LEMMA EventLapsesStep == ASSUME OutboxInv, NEW e \in Event, EventLapses(e) PROVE OutboxInv'
<1>1. event' = [event EXCEPT ![e].live = FALSE] /\ UNCHANGED <<receipts, git, dispatcher>>
  BY DEF EventLapses
<1>2. event' \in [Event -> EventRows]
  BY <1>1 DEF OutboxInv, OutboxTypes, EventRows
<1>3. \A f \in Event : /\ event'[f].kind = event[f].kind /\ event'[f].revision = event[f].revision
                        /\ event'[f].state = event[f].state /\ event'[f].attempt = event[f].attempt
  BY <1>1 DEF OutboxInv, OutboxTypes, EventRows
<1>4. KeepsEvents
  BY <1>3 DEF KeepsEvents
<1>5. OutboxTypes'
  BY <1>1, <1>2 DEF OutboxInv, OutboxTypes
<1>6. \A f \in Event : Limits(f)' /\ (event'[f].state = "published" => event[f].state = "published")
  BY <1>3 DEF OutboxInv, Outbox, Limits
<1> QED BY <1>1, <1>4, <1>5, <1>6, OutboxStep DEF OutboxInv

LEMMA IdleIsDispatcher == DispatcherIdle \in Dispatchers
  BY DEF DispatcherIdle, Dispatchers

LEMMA EndedStep == ASSUME OutboxInv, NEW w \in Worker, Ended(w) PROVE OutboxInv'
<1>1. /\ \A f \in Event : /\ event'[f].kind = event[f].kind /\ event'[f].revision = event[f].revision
                           /\ event'[f].state = event[f].state /\ event'[f].attempt = event[f].attempt
      /\ event' \in [Event -> EventRows]
  BY DEF Ended, OutboxInv, OutboxTypes, EventRows
<1>2. dispatcher' = [dispatcher EXCEPT ![w] = DispatcherIdle] /\ UNCHANGED <<receipts, git>>
  BY DEF Ended
<1>3. OutboxTypes'
  BY <1>1, <1>2, IdleIsDispatcher DEF OutboxInv, OutboxTypes
<1>4. KeepsEvents
  BY <1>1 DEF KeepsEvents
<1>5. \A f \in Event : Limits(f)' /\ (event'[f].state = "published" => event[f].state = "published")
  BY <1>1 DEF OutboxInv, Outbox, Limits
<1>6. \A v \in Worker : dispatcher'[v] \in {dispatcher[v], DispatcherIdle}
  BY <1>2 DEF OutboxInv, OutboxTypes
<1> QED BY <1>2, <1>3, <1>4, <1>5, <1>6, OutboxStep DEF OutboxInv

LEMMA ClaimEventStep ==
    ASSUME OutboxInv, NEW w \in Worker, NEW e \in Event, ClaimEvent(w, e)
    PROVE  OutboxInv'
<1> DEFINE d == [at |-> IF Routed(e) THEN "fan_out" ELSE "mark", event |-> e, failed |-> FALSE]
<1>1. /\ event' = [event EXCEPT ![e].state = "publishing", ![e].attempt = @ + 1, ![e].owner = w, ![e].live = TRUE]
      /\ dispatcher' = [dispatcher EXCEPT ![w] = d]
      /\ event[e].state \in {"queued", "retryable"}
      /\ UNCHANGED <<receipts, git>>
  BY DEF ClaimEvent
<1>2. event[e].attempt < EventAttempts /\ event[e].attempt \in Nat
  BY <1>1 DEF OutboxInv, Outbox, OutboxTypes, EventRows
<1>3. event' \in [Event -> EventRows]
  BY <1>1, <1>2, DeliveryAssumption DEF OutboxInv, OutboxTypes, EventRows, EventStates, DeliveryAssumption
<1>4. d \in Dispatchers
  BY DEF Dispatchers
<1>5. OutboxTypes'
  BY <1>1, <1>3, <1>4 DEF OutboxInv, OutboxTypes
<1>6. \A f \in Event :
        /\ event'[f].kind = event[f].kind /\ event'[f].revision = event[f].revision
        /\ event'[f].state = IF f = e THEN "publishing" ELSE event[f].state
        /\ f # e => event'[f].attempt = event[f].attempt
  BY <1>1 DEF OutboxInv, OutboxTypes, EventRows
<1>7. KeepsEvents
  <2>1. event[e].state # "none"
    BY <1>1
  <2> QED BY <1>6, <2>1 DEF KeepsEvents
<1>8. \A f \in Event : Limits(f)' /\ (event'[f].state = "published" => event[f].state = "published")
  BY <1>6 DEF OutboxInv, Outbox, Limits
<1>9. dispatcher'[w] = d /\ \A v \in Worker \ {w} : dispatcher'[v] = dispatcher[v]
  BY <1>1 DEF OutboxInv, OutboxTypes
<1>10. Dispatches(w)'
  <2>1. Routed(e)' <=> Routed(e)
    BY <1>6 DEF Routed
  <2> QED BY <1>6, <1>9, <2>1 DEF Dispatches, Kept
<1> QED BY <1>1, <1>5, <1>7, <1>8, <1>9, <1>10, OutboxStep DEF OutboxInv

\* The steps of a dispatcher between its claim and its mark.
LEMMA LaneStep ==
    ASSUME OutboxInv, NEW w \in Worker, NEW d \in Dispatchers, event' = event,
           dispatcher' = [dispatcher EXCEPT ![w] = d], Dispatches(w)',
           receipts \subseteq receipts', receipts' \subseteq Event,
           \/ git' = git
           \/ /\ git' \in [Worker -> Repositories] /\ Repository(w)'
              /\ git[w].documents \subseteq git'[w].documents
              /\ \A v \in Worker \ {w} : git'[v] = git[v]
    PROVE  OutboxInv'
<1>1. KeepsEvents
  BY DEF KeepsEvents
<1>2. OutboxTypes'
  BY DEF OutboxInv, OutboxTypes
<1>3. \A e \in Event : Limits(e)' /\ (event'[e].state = "published" => event[e].state = "published")
  BY DEF OutboxInv, Outbox, Limits
<1>4. \A v \in Worker \ {w} : dispatcher'[v] = dispatcher[v]
  BY DEF OutboxInv, OutboxTypes
<1>5. \A v \in Worker :
        /\ git[v].documents \subseteq git'[v].documents
        /\ git'[v] = git[v] \/ Repository(v)'
        /\ (git'[v] = git[v] /\ dispatcher'[v] \in {dispatcher[v], DispatcherIdle}) \/ Dispatches(v)'
  BY <1>4
<1> QED BY <1>1, <1>2, <1>3, <1>5, OutboxStep

LEMMA FanOutStep == ASSUME OutboxInv, NEW w \in Worker, FanOut(w) \/ FanOutFails(w) PROVE OutboxInv'
<1>1. dispatcher[w] \in Dispatchers /\ Dispatches(w) /\ dispatcher[w].at = "fan_out"
  BY DEF OutboxInv, OutboxTypes, FanOut, FanOutFails
<1>2. dispatcher[w].event \in Event /\ event' = event /\ git' = git
  BY <1>1 DEF Dispatches, FanOut, FanOutFails
<1>3. CASE FanOut(w)
  <2> DEFINE e == [dispatcher[w] EXCEPT !.at = "project"]
  <2>1. /\ dispatcher' = [dispatcher EXCEPT ![w] = e] /\ e \in Dispatchers
        /\ receipts' = receipts \union {dispatcher[w].event}
    BY <1>1, <1>3 DEF FanOut, Dispatchers
  <2>2. dispatcher'[w] = e /\ e.at = "project" /\ e.event = dispatcher[w].event
    BY <1>1, <2>1 DEF OutboxInv, OutboxTypes, Dispatchers
  <2>3. Dispatches(w)'
    BY <1>1, <1>2, <2>1, <2>2 DEF Dispatches, Routed
  <2>4. receipts \subseteq receipts' /\ receipts' \subseteq Event
    BY <1>2, <2>1 DEF OutboxInv
  <2> QED BY <1>2, <2>1, <2>3, <2>4, LaneStep
<1>4. CASE FanOutFails(w)
  <2> DEFINE e == [dispatcher[w] EXCEPT !.at = "project", !.failed = TRUE]
  <2>1. dispatcher' = [dispatcher EXCEPT ![w] = e] /\ e \in Dispatchers /\ receipts' = receipts
    BY <1>1, <1>4 DEF FanOutFails, Dispatchers
  <2>2. dispatcher'[w] = e /\ e.at = "project" /\ e.event = dispatcher[w].event /\ e.failed = TRUE
    BY <1>1, <2>1 DEF OutboxInv, OutboxTypes, Dispatchers
  <2>3. Dispatches(w)'
    BY <1>1, <1>2, <2>1, <2>2 DEF Dispatches, Routed, Kept
  <2>4. receipts \subseteq receipts' /\ receipts' \subseteq Event
    BY <2>1 DEF OutboxInv
  <2> QED BY <1>2, <2>1, <2>3, <2>4, LaneStep
<1> QED BY <1>3, <1>4

LEMMA WriteDocumentStep == ASSUME OutboxInv, NEW w \in Worker, WriteDocument(w) PROVE OutboxInv'
<1> DEFINE d == [dispatcher[w] EXCEPT !.at = "commit"]
           g == [git[w] EXCEPT !.dirty = TRUE]
<1>1. dispatcher[w] \in Dispatchers /\ git[w] \in Repositories /\ Dispatches(w) /\ Repository(w)
  BY DEF OutboxInv, OutboxTypes
<1>2. /\ dispatcher[w].at = "project" /\ MayWrite(w, dispatcher[w].event)
      /\ git' = [git EXCEPT ![w] = g] /\ dispatcher' = [dispatcher EXCEPT ![w] = d]
      /\ event' = event /\ receipts' = receipts
  BY DEF WriteDocument
<1>3. d \in Dispatchers /\ d.at = "commit" /\ d.event = dispatcher[w].event /\ d.failed = dispatcher[w].failed
  BY <1>1 DEF Dispatchers
<1>4. g \in Repositories /\ g.head = git[w].head /\ g.documents = git[w].documents
  BY <1>1 DEF Repositories
<1> HIDE DEF d, g
<1>5. /\ git' \in [Worker -> Repositories] /\ git'[w] = g /\ dispatcher'[w] = d
      /\ \A v \in Worker \ {w} : git'[v] = git[v]
  BY <1>2, <1>4 DEF OutboxInv, OutboxTypes
<1>6. Repository(w)'
  <2>1. Enqueued("asset")' = Enqueued("asset")
    BY <1>2, CountIsKept DEF KeepsEvents
  <2> QED BY <1>1, <1>2, <1>4, <1>5, <2>1 DEF Repository, IsAsset
<1>7. Dispatches(w)'
  BY <1>1, <1>2, <1>3, <1>4, <1>5 DEF Dispatches, Routed, Kept, MayWrite
<1> QED BY <1>2, <1>3, <1>4, <1>5, <1>6, <1>7, LaneStep DEF OutboxInv

LEMMA NothingToWriteStep == ASSUME OutboxInv, NEW w \in Worker, NothingToWrite(w) PROVE OutboxInv'
<1> DEFINE e == dispatcher[w].event
           there == ~git[w].dirty /\ InRepository(w, e)
           d == [dispatcher[w] EXCEPT !.at = "mark", !.failed = @ \/ ~there]
<1>1. dispatcher[w] \in Dispatchers /\ git[w] \in Repositories /\ Dispatches(w) /\ Repository(w)
  BY DEF OutboxInv, OutboxTypes
<1>2. /\ dispatcher[w].at = "project" /\ dispatcher' = [dispatcher EXCEPT ![w] = d]
      /\ event' = event /\ receipts' = receipts /\ git' = git
  BY DEF NothingToWrite
<1>3. e \in Event /\ event[e].state # "none" /\ Routed(e) /\ event[e] \in EventRows
  BY <1>1, <1>2 DEF Dispatches, OutboxInv, OutboxTypes
<1>4. there => e \in git[w].documents
  <2>1. CASE event[e].kind = "asset"
    BY <1>1, <1>3, <2>1 DEF InRepository, Repository, IsAsset, Repositories, EventRows
  <2>2. CASE event[e].kind # "asset"
    BY <2>2 DEF InRepository
  <2> QED BY <2>1, <2>2
<1>5. there \in BOOLEAN
  BY <1>3 DEF InRepository
<1> HIDE DEF there
<1>6. d \in Dispatchers /\ d.at = "mark" /\ d.event = e /\ d.failed = (dispatcher[w].failed \/ ~there)
  BY <1>1, <1>5 DEF Dispatchers
<1>7. dispatcher'[w] = d
  BY <1>2 DEF OutboxInv, OutboxTypes
<1>8. ~d.failed => there /\ ~dispatcher[w].failed
  BY <1>6
<1> HIDE DEF d
<1>9. Dispatches(w)'
  BY <1>1, <1>2, <1>3, <1>4, <1>6, <1>7, <1>8 DEF Dispatches, Routed, Kept
<1> QED BY <1>2, <1>6, <1>9, LaneStep DEF OutboxInv

\* The revision that is committed is the next one of the repository, so that
\* no other event has it.
LEMMA CommitDocumentStep == ASSUME OutboxInv, NEW w \in Worker, CommitDocument(w) PROVE OutboxInv'
<1> DEFINE e == dispatcher[w].event
           head == IF event[e].kind = "asset" THEN event[e].revision ELSE git[w].head
           g == [head |-> head, documents |-> git[w].documents \union {e}, dirty |-> FALSE]
           d == [dispatcher[w] EXCEPT !.at = "mark"]
<1>1. dispatcher[w] \in Dispatchers /\ git[w] \in Repositories /\ Dispatches(w) /\ Repository(w)
  BY DEF OutboxInv, OutboxTypes
<1>2. /\ dispatcher[w].at = "commit" /\ dispatcher' = [dispatcher EXCEPT ![w] = d]
      /\ git' = [git EXCEPT ![w] = g] /\ event' = event /\ receipts' = receipts
  BY DEF CommitDocument
<1>3. e \in Event /\ event[e].state # "none" /\ event[e] \in EventRows
  BY <1>1, <1>2 DEF Dispatches, OutboxInv, OutboxTypes
<1>4. event[e].kind = "asset" => head = git[w].head + 1
  BY <1>1, <1>2, <1>3 DEF Dispatches, EventRows, Repositories
<1>5. g \in Repositories
  BY <1>1, <1>3 DEF Repositories, EventRows
<1>6. d \in Dispatchers /\ d.at = "mark" /\ d.event = e /\ d.failed = dispatcher[w].failed
  BY <1>1 DEF Dispatchers
<1>7. /\ git' \in [Worker -> Repositories] /\ git'[w] = g /\ dispatcher'[w] = d
      /\ \A v \in Worker \ {w} : git'[v] = git[v]
  BY <1>2, <1>5 DEF OutboxInv, OutboxTypes
<1>8. Repository(w)'
  <2>1. Enqueued("asset")' = Enqueued("asset")
    BY <1>2, CountIsKept DEF KeepsEvents
  <2>2. head <= Enqueued("asset")
    BY <1>1, <1>3 DEF OutboxInv, Outbox, IsAsset, Repository
  <2>3. \A f \in git'[w].documents : event'[f].state # "none"
    BY <1>1, <1>2, <1>3, <1>7 DEF Repository
  <2>4. ASSUME NEW f \in Event, IsAsset(f)' PROVE f \in git'[w].documents <=> event'[f].revision <= git'[w].head
    <3>1. IsAsset(f) /\ (f \in git[w].documents <=> event[f].revision <= git[w].head)
          /\ event[f].revision \in Nat /\ git[w].head \in Nat
      BY <1>1, <1>2, <2>4 DEF IsAsset, Repository, OutboxInv, OutboxTypes, EventRows, Repositories
    <3>2. CASE IsAsset(e)
      <4>1. event[f].revision = event[e].revision => f = e
        BY <1>3, <3>1, <3>2 DEF OutboxInv, OneAssetPerRevision
      <4> QED BY <1>2, <1>4, <1>7, <3>1, <3>2, <4>1 DEF IsAsset
    <3>3. CASE ~IsAsset(e)
      <4>1. f # e /\ head = git[w].head
        BY <1>3, <3>1, <3>3 DEF IsAsset
      <4> QED BY <1>2, <1>7, <3>1, <4>1
    <3> QED BY <3>2, <3>3
  <2> QED BY <1>7, <2>1, <2>2, <2>3, <2>4 DEF Repository
<1>9. git[w].documents \subseteq git'[w].documents /\ e \in git'[w].documents
  BY <1>7
<1> HIDE DEF d, g
<1>10. Dispatches(w)'
  BY <1>1, <1>2, <1>3, <1>6, <1>7, <1>9 DEF Dispatches, Routed, Kept
<1> QED BY <1>2, <1>6, <1>7, <1>8, <1>9, <1>10, LaneStep DEF OutboxInv

LEMMA CommitFailsStep == ASSUME OutboxInv, NEW w \in Worker, CommitFails(w) PROVE OutboxInv'
<1> DEFINE d == [dispatcher[w] EXCEPT !.at = "mark", !.failed = TRUE]
           g == [git[w] EXCEPT !.dirty = FALSE]
<1>1. dispatcher[w] \in Dispatchers /\ git[w] \in Repositories /\ Dispatches(w) /\ Repository(w)
  BY DEF OutboxInv, OutboxTypes
<1>2. /\ dispatcher[w].at = "commit"
      /\ git' = [git EXCEPT ![w] = g] /\ dispatcher' = [dispatcher EXCEPT ![w] = d]
      /\ event' = event /\ receipts' = receipts
  BY DEF CommitFails
<1>3. d \in Dispatchers /\ d.at = "mark" /\ d.event = dispatcher[w].event /\ d.failed = TRUE
  BY <1>1 DEF Dispatchers
<1>4. g \in Repositories /\ g.head = git[w].head /\ g.documents = git[w].documents
  BY <1>1 DEF Repositories
<1> HIDE DEF d, g
<1>5. /\ git' \in [Worker -> Repositories] /\ git'[w] = g /\ dispatcher'[w] = d
      /\ \A v \in Worker \ {w} : git'[v] = git[v]
  BY <1>2, <1>4 DEF OutboxInv, OutboxTypes
<1>6. Repository(w)'
  <2>1. Enqueued("asset")' = Enqueued("asset")
    BY <1>2, CountIsKept DEF KeepsEvents
  <2> QED BY <1>1, <1>2, <1>4, <1>5, <2>1 DEF Repository, IsAsset
<1>7. Dispatches(w)'
  BY <1>1, <1>2, <1>3, <1>4, <1>5 DEF Dispatches, Routed, Kept
<1> QED BY <1>2, <1>3, <1>4, <1>5, <1>6, <1>7, LaneStep DEF OutboxInv

LEMMA MarkEventStep == ASSUME OutboxInv, NEW w \in Worker, MarkEvent(w) PROVE OutboxInv'
<1> DEFINE e == dispatcher[w].event
           published == [event[e] EXCEPT !.state = "published", !.owner = Nobody, !.live = FALSE]
           row == IF Succeeded(w) THEN published ELSE Unpublished(e)
<1>1. dispatcher[w] \in Dispatchers /\ Dispatches(w)
  BY DEF OutboxInv, OutboxTypes
<1>2. /\ dispatcher[w].at = "mark" /\ event[e].state = "publishing"
      /\ event' = [event EXCEPT ![e] = row] /\ dispatcher' = [dispatcher EXCEPT ![w] = DispatcherIdle]
      /\ UNCHANGED <<receipts, git>>
  BY DEF MarkEvent
<1>3. e \in Event /\ event[e] \in EventRows
  BY <1>1, <1>2 DEF Dispatches, OutboxInv, OutboxTypes
<1>4. /\ published \in EventRows /\ published.state = "published"
      /\ published.kind = event[e].kind /\ published.revision = event[e].revision
  BY <1>3 DEF EventRows, EventStates
<1> HIDE DEF published
<1>5. /\ row \in EventRows /\ row.kind = event[e].kind /\ row.revision = event[e].revision
      /\ row.state \in {"published", "retryable", "dead_letter"}
      /\ row.state = "retryable" => row.attempt < EventAttempts
      /\ row.state = "published" => Succeeded(w)
  BY <1>3, <1>4, UnpublishedRow
<1> HIDE DEF row
<1>6. event' \in [Event -> EventRows] /\ event'[e] = row /\ \A f \in Event \ {e} : event'[f] = event[f]
  BY <1>2, <1>3, <1>5 DEF OutboxInv, OutboxTypes
<1>7. KeepsEvents
  BY <1>2, <1>5, <1>6 DEF KeepsEvents
<1>8. OutboxTypes'
  BY <1>2, <1>6, IdleIsDispatcher DEF OutboxInv, OutboxTypes
<1>9. \A f \in Event : Limits(f)'
  BY <1>5, <1>6 DEF OutboxInv, Outbox, Limits
<1>10. Succeeded(w) /\ Routed(e) => e \in receipts' /\ \E v \in Worker : e \in git'[v].documents
  BY <1>1, <1>2 DEF Dispatches, Kept, Succeeded
<1>11. \A f \in Event : event'[f].state = "published" =>
         \/ event[f].state = "published"
         \/ Routed(f) => f \in receipts' /\ \E v \in Worker : f \in git'[v].documents
  BY <1>5, <1>6, <1>10
<1>12. \A v \in Worker : dispatcher'[v] \in {dispatcher[v], DispatcherIdle}
  BY <1>2 DEF OutboxInv, OutboxTypes
<1> QED BY <1>2, <1>7, <1>8, <1>9, <1>11, <1>12, OutboxStep DEF OutboxInv

LEMMA OutboxInit == Init => OutboxInv
<1> SUFFICES ASSUME Init PROVE OutboxInv
  OBVIOUS
<1>1. NoEvent \in EventRows /\ NoEvent.state = "none" /\ NoEvent.attempt = 0 /\ NoEvent.revision = 0
  BY DeliveryAssumption DEF NoEvent, EventRows, Kinds, EventStates, DeliveryAssumption
<1>2. \A e \in Event : event[e] = NoEvent
  BY DEF Init
<1>3. OutboxTypes /\ receipts \subseteq Event
  BY <1>1, IdleIsDispatcher DEF Init, OutboxTypes, Repositories
<1>4. \A e \in Event : Outbox(e)
  BY <1>1, <1>2 DEF Outbox, IsAsset
<1>5. \A w \in Worker : Repository(w)
  BY <1>1, <1>2, CountIsNatural DEF Init, Repository, IsAsset
<1>6. \A w \in Worker : Dispatches(w)
  BY DEF Init, Dispatches, DispatcherIdle
<1> QED BY <1>1, <1>2, <1>3, <1>4, <1>5, <1>6 DEF OutboxInv, OneAssetPerRevision, IsAsset, PublishedIsDone

LEMMA OutboxNext == ASSUME OutboxInv, [Next]_vars PROVE OutboxInv'
<1>1. CASE UNCHANGED vars
  BY <1>1, OutboxKept DEF vars, outboxVars
<1>2. ASSUME NEW e \in Event, NEW kind \in Kinds, Enqueue(e, kind) PROVE OutboxInv'
  BY <1>2, EnqueueStep
<1>3. ASSUME NEW s \in Subscriber, SaveSubscription(s) PROVE OutboxInv'
  BY <1>3, OutboxKept DEF SaveSubscription
<1>4. ASSUME NEW p \in Pairs, ReplayDelivery(p) \/ DeliveryLapses(p) PROVE OutboxInv'
  BY <1>4, OutboxKept DEF ReplayDelivery, DeliveryLapses
<1>5. ASSUME NEW e \in Event, EventLapses(e) PROVE OutboxInv'
  BY <1>5, EventLapsesStep
<1>6. ASSUME NEW w \in Worker, Dispatch(w) PROVE OutboxInv'
  <2>1. CASE MarkRefused(w)
    BY <2>1, EndedStep DEF MarkRefused
  <2>2. CASE \E e \in Event : ClaimEvent(w, e)
    BY <2>2, ClaimEventStep
  <2> QED BY <1>6, <2>1, <2>2, ReapEventsStep, FanOutStep, WriteDocumentStep, NothingToWriteStep,
             CommitDocumentStep, MarkEventStep DEF Dispatch
<1>7. ASSUME NEW w \in Worker, Send(w) PROVE OutboxInv'
  BY <1>7, OutboxKept DEF Send, ClaimDelivery, Post, Finish, FinishRefused
<1>8. ASSUME NEW w \in Worker, FanOutFails(w) \/ CommitFails(w) PROVE OutboxInv'
  BY <1>8, FanOutStep, CommitFailsStep
<1>9. ASSUME NEW w \in Worker, Crash(w) \/ Restart(w) PROVE OutboxInv'
  BY <1>9, EndedStep, OutboxKept DEF Crash, Restart
<1> QED BY <1>1, <1>2, <1>3, <1>4, <1>5, <1>6, <1>7, <1>8, <1>9 DEF Next

LEMMA OutboxInvariance == Spec => []OutboxInv
  BY OutboxInit, OutboxNext, PTL DEF Spec

\* An event that is marked published was fanned out, and its document is in a
\* repository, whatever crashed, stalled or failed.
THEOREM PublishedEventsAreDone == Spec => []PublishedIsDone
<1>1. OutboxInv => PublishedIsDone
  BY DEF OutboxInv
<1> QED BY <1>1, OutboxInvariance, PTL

\* Git gets the revisions of an asset in order and without a gap, in every
\* repository and however often and in whatever order events are delivered.
THEOREM RevisionsInOrder == Spec => []GitKeepsOrder
<1>1. ASSUME OutboxInv PROVE GitKeepsOrder
  <2>1. ASSUME NEW w \in Worker, NEW e \in git[w].documents, event[e].kind = "asset"
        PROVE  /\ event[e].revision <= git[w].head
               /\ \A f \in Event : event[f].kind = "asset" /\ event[f].revision \in 1..event[e].revision
                    => f \in git[w].documents
    <3>1. e \in Event /\ Repository(w) /\ IsAsset(e) /\ git[w].head \in Nat
      BY <1>1, <2>1 DEF OutboxInv, OutboxTypes, Repositories, Repository, IsAsset
    <3>2. event[e].revision <= git[w].head /\ event[e].revision \in Nat
      BY <1>1, <2>1, <3>1 DEF Repository, OutboxInv, OutboxTypes, EventRows
    <3>3. ASSUME NEW f \in Event, event[f].kind = "asset", event[f].revision \in 1..event[e].revision
          PROVE  f \in git[w].documents
      <4>1. event[f].state # "none"
        BY <1>1, <3>2, <3>3 DEF OutboxInv, Outbox
      <4> QED BY <3>1, <3>2, <3>3, <4>1 DEF Repository, IsAsset
    <3> QED BY <3>2, <3>3
  <2> QED BY <2>1 DEF GitKeepsOrder
<1> QED BY <1>1, OutboxInvariance, PTL

-----------------------------------------------------------------------------
(* The deliveries and those who send them.                                 *)

\* What was sent and what is about to be sent is within the attempts that the
\* row counts, and the run says what the row says, but for attempts that are
\* one too many.
Sending(p) == {w \in Worker : sender[w].at = "post" /\ sender[w].pair = p}
Row(p) ==
    /\ run[p] = delivery[p].state \/ {run[p], delivery[p].state} \subseteq {"queued", "running"}
    /\ delivery[p].state = "none" => delivery[p].max = Budget /\ delivery[p].attempt = 0
    /\ IsFiniteSet(Sending(p))
    /\ sends[p] + Cardinality(Sending(p)) <= Counted(delivery[p])

Sends(w) ==
    /\ sender[w].at # "idle" => sender[w].pair \in Pairs /\ delivery[sender[w].pair].state # "none"
    /\ sender[w].at = "finish" =>
        /\ sender[w].plan \in {"give_up", "cancel", "ok", "failed"}
        /\ sender[w].plan = "ok" => sends[sender[w].pair] > 0

WebhookInv ==
    /\ WebhookTypes /\ subscription \in [Subscriber -> SubscriptionRows]
    /\ \A p \in Pairs : Row(p)
    /\ \A w \in Worker : Sends(w)

LEMMA IdleIsSender == SenderIdle \in Senders
  BY DEF SenderIdle, Senders

LEMMA RowFrame ==
    ASSUME WebhookInv, WebhookTypes', NEW p \in Pairs, run'[p] = run[p], sends'[p] = sends[p],
           delivery'[p].state = delivery[p].state, delivery'[p].max = delivery[p].max,
           delivery'[p].attempt = delivery[p].attempt,
           Sending(p)' \subseteq Sending(p)
    PROVE  Row(p)'
<1>1. Row(p) /\ Counted(delivery[p])' = Counted(delivery[p])
  BY DEF WebhookInv, Counted
<1>2. IsFiniteSet(Sending(p)) /\ Sending(p)' \in SUBSET Sending(p)
  BY <1>1 DEF Row
<1>3. IsFiniteSet(Sending(p)') /\ Cardinality(Sending(p)') <= Cardinality(Sending(p))
  <2> DEFINE S == Sending(p)
             T == Sending(p)'
  <2>1. IsFiniteSet(S) /\ T \in SUBSET S
    BY <1>2
  <2> HIDE DEF S, T
  <2>2. IsFiniteSet(T) /\ Cardinality(T) <= Cardinality(S)
    BY <2>1, FS_Subset, Zenon
  <2> QED BY <2>2 DEF S, T
<1>4. /\ Cardinality(Sending(p)) \in Nat /\ Cardinality(Sending(p)') \in Nat
      /\ sends[p] \in Nat /\ Counted(delivery[p]) \in Nat
  <2>1. Cardinality(Sending(p)) \in Nat /\ Cardinality(Sending(p)') \in Nat
    BY <1>2, <1>3, FS_CardinalityType
  <2> QED BY <2>1, DeliveryAssumption DEF WebhookInv, WebhookTypes, DeliveryRows, Counted, DeliveryAssumption
<1>5. sends'[p] + Cardinality(Sending(p)') <= Counted(delivery[p])'
  BY <1>1, <1>3, <1>4 DEF Row
<1> QED BY <1>1, <1>3, <1>5 DEF Row

LEMMA SendsFrame ==
    ASSUME WebhookInv, NEW w \in Worker, sender'[w] \in {sender[w], SenderIdle},
           \A p \in Pairs : (delivery'[p].state = "none" => delivery[p].state = "none") /\ sends'[p] = sends[p]
    PROVE  Sends(w)'
<1>1. CASE sender'[w] = SenderIdle
  BY <1>1 DEF Sends, SenderIdle
<1>2. CASE sender'[w] = sender[w]
  BY <1>2 DEF WebhookInv, Sends
<1> QED BY <1>1, <1>2

LEMMA WebhookKept ==
    ASSUME WebhookInv, UNCHANGED webhookVars, subscription' \in [Subscriber -> SubscriptionRows]
    PROVE  WebhookInv'
<1>1. WebhookTypes'
  BY DEF WebhookInv, WebhookTypes, webhookVars
<1>2. \A p \in Pairs : Sending(p)' = Sending(p)
  BY DEF Sending, webhookVars
<1>3. \A p \in Pairs : Row(p)'
  BY <1>1, <1>2, RowFrame DEF webhookVars
<1>4. \A w \in Worker : Sends(w)'
  BY SendsFrame DEF webhookVars
<1> QED BY <1>1, <1>3, <1>4 DEF WebhookInv

-----------------------------------------------------------------------------
(* DeliveryContract.                                                       *)

promises == [p \in Pairs |-> PromiseOf(run[p])]
renewals == {p \in Pairs : delivery[p].max = Renewed}

LEMMA ContractStutter ==
    ASSUME receipts' = receipts, sends' = sends,
           \A p \in Pairs : PromiseOf(run'[p]) = PromiseOf(run[p]) /\ delivery'[p].max = delivery[p].max
    PROVE  UNCHANGED Contract!contractVars
<1>1. promises' = promises /\ renewals' = renewals
  BY DEF promises, renewals
<1> QED BY <1>1 DEF Contract!contractVars, promises, renewals

ContractStep == [Contract!ContractNext]_(Contract!contractVars)

\* A step that moves no row, and perhaps ends what a lane was doing.
LEMMA RowsStay ==
    ASSUME WebhookInv, receipts' = receipts, run' = run, sends' = sends,
           subscription' \in [Subscriber -> SubscriptionRows],
           delivery' \in [Pairs -> DeliveryRows],
           \A p \in Pairs : /\ delivery'[p].state = delivery[p].state /\ delivery'[p].max = delivery[p].max
                            /\ delivery'[p].attempt = delivery[p].attempt,
           sender' \in [Worker -> Senders],
           \A w \in Worker : sender'[w] \in {sender[w], SenderIdle}
    PROVE  WebhookInv' /\ ContractStep
<1>1. WebhookTypes'
  BY DEF WebhookInv, WebhookTypes
<1>2. \A p \in Pairs : Sending(p)' \subseteq Sending(p)
  BY DEF Sending, SenderIdle
<1>3. \A p \in Pairs : Row(p)'
  BY <1>1, <1>2, RowFrame
<1>4. \A w \in Worker : Sends(w)'
  BY SendsFrame
<1>5. ContractStep
  BY ContractStutter DEF ContractStep
<1> QED BY <1>1, <1>3, <1>4, <1>5 DEF WebhookInv

LEMMA WebhookLapses == ASSUME WebhookInv, NEW p \in Pairs, DeliveryLapses(p) PROVE WebhookInv' /\ ContractStep
<1>1. delivery' = [delivery EXCEPT ![p].live = FALSE]
  BY DEF DeliveryLapses
<1>2. /\ delivery' \in [Pairs -> DeliveryRows]
      /\ \A q \in Pairs : /\ delivery'[q].state = delivery[q].state /\ delivery'[q].max = delivery[q].max
                           /\ delivery'[q].attempt = delivery[q].attempt
  BY <1>1 DEF WebhookInv, WebhookTypes, DeliveryRows
<1> QED BY <1>2, RowsStay DEF DeliveryLapses, WebhookInv, WebhookTypes

LEMMA WebhookEnded == ASSUME WebhookInv, NEW w \in Worker, Ended(w) PROVE WebhookInv' /\ ContractStep
<1>1. /\ delivery' \in [Pairs -> DeliveryRows]
      /\ \A q \in Pairs : /\ delivery'[q].state = delivery[q].state /\ delivery'[q].max = delivery[q].max
                           /\ delivery'[q].attempt = delivery[q].attempt
  BY DEF Ended, WebhookInv, WebhookTypes, DeliveryRows
<1>2. sender' \in [Worker -> Senders] /\ \A v \in Worker : sender'[v] \in {sender[v], SenderIdle}
  BY IdleIsSender DEF Ended, WebhookInv, WebhookTypes
<1> QED BY <1>1, <1>2, RowsStay DEF Ended, WebhookInv

LEMMA WebhookRefused == ASSUME WebhookInv, NEW w \in Worker, FinishRefused(w) PROVE WebhookInv' /\ ContractStep
<1>1. sender' \in [Worker -> Senders] /\ \A v \in Worker : sender'[v] \in {sender[v], SenderIdle}
  BY IdleIsSender DEF FinishRefused, WebhookInv, WebhookTypes
<1> QED BY <1>1, RowsStay DEF FinishRefused, WebhookInv, WebhookTypes

LEMMA WebhookSaved == ASSUME WebhookInv, NEW s \in Subscriber, SaveSubscription(s) PROVE WebhookInv' /\ ContractStep
<1>1. subscription' \in [Subscriber -> SubscriptionRows]
  BY DeliveryAssumption DEF SaveSubscription, WebhookInv, SubscriptionRows, DeliveryAssumption
<1> QED BY <1>1, RowsStay DEF SaveSubscription, WebhookInv, WebhookTypes, webhookVars

\* The first fan-out of an event decides whom it is owed; a later one finds
\* the receipt.
LEMMA WebhookFanOut ==
    ASSUME OutboxInv, WebhookInv, NEW w \in Worker, FanOut(w)
    PROVE  WebhookInv' /\ ContractStep
<1> DEFINE e == dispatcher[w].event
           new == {<<s, e>> : s \in Subscribed(e)}
           Added(p) == p \in new /\ delivery[p].state = "none"
           Fresh(p) == [NoDelivery EXCEPT !.state = "queued", !.version = subscription[p[1]].version]
<1>1. e \in Event
  BY DEF OutboxInv, FanOut, Dispatches
<1>2. /\ receipts' = receipts \union {e} /\ UNCHANGED <<subscription, sends, sender>>
      /\ delivery' = [p \in Pairs |-> IF Added(p) THEN Fresh(p) ELSE delivery[p]]
      /\ run' = [p \in Pairs |-> IF Added(p) THEN "queued" ELSE run[p]]
  BY DEF FanOut
<1>3. ASSUME NEW p \in Pairs
      PROVE  /\ Fresh(p) \in DeliveryRows
             /\ Fresh(p).state = "queued" /\ Fresh(p).attempt = 0 /\ Fresh(p).max = Budget
  <2>1. NoDelivery \in DeliveryRows /\ NoDelivery.attempt = 0 /\ NoDelivery.max = Budget
    BY DeliveryAssumption DEF NoDelivery, DeliveryRows, DeliveryStates, DeliveryAssumption
  <2>2. subscription[p[1]].version \in 0..MaxVersion
    BY DEF WebhookInv, SubscriptionRows, Pairs
  <2> QED BY <2>1, <2>2 DEF DeliveryRows, DeliveryStates
<1>4. ASSUME NEW p \in Pairs, Added(p)
      PROVE  /\ run[p] = "none" /\ delivery[p].max = Budget
             /\ sends[p] = 0 /\ Sending(p) = {}
             /\ p[2] = e /\ p[1] \in Subscribed(e)
  <2>1. Row(p) /\ delivery[p].state = "none" /\ p \in new
    BY <1>4 DEF WebhookInv
  <2>2. p[2] = e /\ p[1] \in Subscribed(e)
    BY <2>1
  <2>3. Sending(p) = {}
    BY <2>1 DEF WebhookInv, Sends, Sending
  <2>4. Cardinality(Sending(p)) = 0 /\ sends[p] \in Nat /\ Counted(delivery[p]) = 0
    BY <2>1, <2>3, FS_EmptySet, DeliveryAssumption
    DEF Row, Counted, WebhookInv, WebhookTypes, DeliveryAssumption
  <2>5. sends[p] = 0
    BY <2>1, <2>4 DEF Row
  <2> QED BY <2>1, <2>2, <2>3, <2>5 DEF Row
<1> HIDE DEF Fresh, new
<1>5. WebhookTypes'
  <2>1. delivery' \in [Pairs -> DeliveryRows]
    BY <1>2, <1>3 DEF WebhookInv, WebhookTypes
  <2>2. run' \in [Pairs -> DeliveryStates]
    BY <1>2 DEF WebhookInv, WebhookTypes, DeliveryStates
  <2> QED BY <1>2, <2>1, <2>2 DEF WebhookInv, WebhookTypes
<1>6. ASSUME NEW p \in Pairs PROVE Row(p)'
  <2>1. Sending(p)' = Sending(p)
    BY <1>2 DEF Sending
  <2>2. CASE ~Added(p)
    BY <1>2, <1>5, <2>1, <2>2, RowFrame
  <2>3. CASE Added(p)
    <3>1. delivery'[p] = Fresh(p) /\ run'[p] = "queued" /\ sends'[p] = 0 /\ Sending(p)' = {}
      BY <1>2, <1>4, <2>1, <2>3
    <3>2. Counted(delivery[p])' = 0
      BY <1>3, <3>1, DeliveryAssumption DEF Counted, DeliveryAssumption
    <3> QED BY <1>3, <3>1, <3>2, FS_EmptySet DEF Row
  <2> QED BY <2>2, <2>3
<1>7. \A v \in Worker : Sends(v)'
  BY <1>2, <1>3, SendsFrame
<1>8. ContractStep
  <2>1. ASSUME NEW p \in Pairs
        PROVE  /\ delivery'[p].max = delivery[p].max
               /\ PromiseOf(run'[p]) = IF Added(p) THEN "owed" ELSE PromiseOf(run[p])
    BY <1>2, <1>3, <1>4 DEF PromiseOf
  <2>2. CASE e \in receipts
    <3>1. \A p \in Pairs : ~Added(p)
      BY <1>4, <2>2 DEF Subscribed
    <3> QED BY <1>2, <2>1, <2>2, <3>1, ContractStutter DEF ContractStep
  <2>3. CASE e \notin receipts
    <3> DEFINE S == {s \in Subscriber : Added(<<s, e>>)}
    <3>1. \A p \in Pairs : Added(p) <=> p[2] = e /\ p[1] \in S
      <4>1. \A p \in Pairs : p = <<p[1], p[2]>> /\ p[1] \in Subscriber
        BY DEF Pairs
      <4> QED BY <1>4, <4>1
    <3> HIDE DEF S
    <3>2. promises' = [p \in Pairs |-> IF p[2] = e /\ p[1] \in S THEN "owed" ELSE promises[p]]
      BY <2>1, <3>1 DEF promises
    <3>3. renewals' = renewals
      BY <2>1 DEF renewals
    <3>4. S \in SUBSET Subscriber
      BY DEF S
    <3>5. Contract!Decide(e, S)
      BY <1>2, <2>3, <3>2, <3>3 DEF Contract!Decide, Contract!Promises, Pairs, promises, renewals
    <3> QED BY <1>1, <3>4, <3>5 DEF ContractStep, Contract!ContractNext
  <2> QED BY <2>2, <2>3
<1> QED BY <1>2, <1>5, <1>6, <1>7, <1>8 DEF WebhookInv

\* One row moves, and with it one promise.
LEMMA OnePromise ==
    ASSUME WebhookInv, NEW p \in Pairs, NEW state \in DeliveryStates, run' = [run EXCEPT ![p] = state]
    PROVE  promises' = [promises EXCEPT ![p] = PromiseOf(state)]
<1>1. run'[p] = state /\ \A q \in Pairs \ {p} : run'[q] = run[q]
  BY DEF WebhookInv, WebhookTypes
<1>2. promises' = [q \in Pairs |-> PromiseOf(run'[q])]
  BY DEF promises, PromiseOf
<1>3. PromiseOf(run'[p]) = PromiseOf(state) /\ \A q \in Pairs \ {p} : PromiseOf(run'[q]) = promises[q]
  BY <1>1 DEF promises
<1>4. promises = [q \in Pairs |-> promises[q]]
  BY DEF promises
<1> HIDE DEF promises
<1> QED BY <1>2, <1>3, <1>4, Zenon

\* The numbers a row is compared by.
LEMMA RowNumbers ==
    ASSUME WebhookInv, NEW p \in Pairs
    PROVE  /\ delivery[p] \in DeliveryRows /\ sends[p] \in Nat /\ run[p] \in DeliveryStates
           /\ IsFiniteSet(Sending(p)) /\ Cardinality(Sending(p)) \in Nat
           /\ sends[p] + Cardinality(Sending(p)) <= Counted(delivery[p])
           /\ Counted(delivery[p]) <= delivery[p].max /\ Counted(delivery[p]) <= delivery[p].attempt
           /\ delivery[p].attempt \in Nat /\ delivery[p].max \in Nat /\ Counted(delivery[p]) \in Nat
<1>1. Row(p) /\ delivery[p] \in DeliveryRows /\ sends[p] \in Nat /\ run[p] \in DeliveryStates
  BY DEF WebhookInv, WebhookTypes
<1>2. Cardinality(Sending(p)) \in Nat
  BY <1>1, FS_CardinalityType DEF Row
<1>3. delivery[p].attempt \in Nat /\ delivery[p].max \in Nat
  BY <1>1, DeliveryAssumption DEF DeliveryRows, DeliveryAssumption
<1> QED BY <1>1, <1>2, <1>3 DEF Row, Counted

LEMMA WebhookReplay ==
    ASSUME WebhookInv, NEW p \in Pairs, ReplayDelivery(p)
    PROVE  WebhookInv' /\ ContractStep
<1> DEFINE row == [delivery[p] EXCEPT !.state = "queued", !.max = Renewed]
<1>1. /\ delivery[p].state = "dead_letter" /\ delivery[p].max = Budget
      /\ delivery' = [delivery EXCEPT ![p] = row] /\ run' = [run EXCEPT ![p] = row.state]
      /\ UNCHANGED <<receipts, subscription, sends, sender>>
  BY DEF ReplayDelivery, Replayable, Write, Projected
<1>2. /\ row \in DeliveryRows /\ row.state = "queued" /\ row.max = Renewed
      /\ row.attempt = delivery[p].attempt
  BY RowNumbers DEF DeliveryRows, DeliveryStates
<1> HIDE DEF row
<1>3. /\ delivery'[p] = row /\ run'[p] = "queued" /\ WebhookTypes'
      /\ \A q \in Pairs \ {p} : delivery'[q] = delivery[q] /\ run'[q] = run[q]
  BY <1>1, <1>2 DEF WebhookInv, WebhookTypes, DeliveryStates
<1>4. \A q \in Pairs : Sending(q)' = Sending(q)
  BY <1>1 DEF Sending
<1>5. Row(p)'
  <2>1. Counted(delivery[p]) <= Counted(delivery[p])' /\ Counted(delivery[p])' \in Nat
    BY <1>1, <1>2, <1>3, RowNumbers, DeliveryAssumption DEF Counted, DeliveryAssumption
  <2>2. sends'[p] + Cardinality(Sending(p)') <= Counted(delivery[p])'
    BY <1>1, <1>4, <2>1, RowNumbers
  <2> QED BY <1>2, <1>3, <1>4, <2>2, RowNumbers DEF Row
<1>6. \A q \in Pairs : Row(q)'
  BY <1>1, <1>3, <1>4, <1>5, RowFrame
<1>7. \A w \in Worker : Sends(w)'
  BY <1>1, <1>2, <1>3, SendsFrame
<1>8. ContractStep
  <2>1. promises' = [promises EXCEPT ![p] = "owed"]
    BY <1>1, <1>2, OnePromise DEF PromiseOf, DeliveryStates
  <2>2. promises[p] = "broken"
    <3>1. run[p] = "dead_letter"
      BY <1>1 DEF WebhookInv, Row
    <3> QED BY <3>1 DEF promises, PromiseOf
  <2>3. renewals' = renewals \union {p} /\ p \notin renewals
    BY <1>1, <1>2, <1>3, DeliveryAssumption DEF renewals, DeliveryAssumption
  <2>4. Contract!Renew(p)
    BY <1>1, <2>1, <2>2, <2>3 DEF Contract!Renew, promises, renewals
  <2>5. p \in Contract!Promises
    BY DEF Contract!Promises, Pairs
  <2> QED BY <2>4, <2>5 DEF ContractStep, Contract!ContractNext
<1> QED BY <1>1, <1>3, <1>6, <1>7, <1>8 DEF WebhookInv

LEMMA WebhookClaim ==
    ASSUME WebhookInv, NEW w \in Worker, NEW p \in Pairs, ClaimDelivery(w, p)
    PROVE  WebhookInv' /\ ContractStep
<1> DEFINE old == delivery[p]
           row == [old EXCEPT !.state = "running", !.attempt = @ + 1, !.owner = w, !.live = TRUE]
           plan == PlanFor(p)
           s == [at |-> IF plan = "post" THEN "post" ELSE "finish", pair |-> p, plan |-> plan]
<1>1. /\ sender[w].at = "idle" /\ old.state \in {"queued", "running"}
      /\ delivery' = [delivery EXCEPT ![p] = row]
      /\ sender' = [sender EXCEPT ![w] = s] /\ UNCHANGED <<receipts, subscription, sends>>
  BY DEF ClaimDelivery, Claimable
<1>2. /\ row \in DeliveryRows /\ row.state = "running" /\ row.attempt = old.attempt + 1
      /\ row.max = old.max
  <2>1. old \in DeliveryRows /\ old.attempt \in Nat
    BY RowNumbers
  <2> HIDE DEF old
  <2>2. row = [old EXCEPT !.state = "running", !.attempt = old.attempt + 1, !.owner = w, !.live = TRUE]
    BY DEF row
  <2> HIDE DEF row
  <2>3. row = [state |-> "running", attempt |-> old.attempt + 1, max |-> old.max, version |-> old.version,
               owner |-> w, live |-> TRUE]
    BY <2>1, <2>2 DEF DeliveryRows
  <2>4. old.max \in {Budget, Renewed} /\ old.version \in 0..MaxVersion
    BY <2>1 DEF DeliveryRows
  <2> QED BY <2>1, <2>3, <2>4 DEF DeliveryRows, DeliveryStates
<1>3. /\ plan \in {"give_up", "cancel", "post"}
      /\ plan = "post" => old.attempt + 1 <= old.max
  BY RowNumbers DEF PlanFor
<1>4. s \in Senders
  BY <1>3 DEF Senders
<1>5. s.pair = p /\ s.plan = plan /\ (s.at = "post" <=> plan = "post") /\ s.at \in {"post", "finish"}
  OBVIOUS
<1> HIDE DEF row, plan, s
<1>6. /\ delivery' \in [Pairs -> DeliveryRows] /\ delivery'[p] = row
      /\ \A q \in Pairs \ {p} : delivery'[q] = delivery[q]
      /\ sender' \in [Worker -> Senders] /\ sender'[w] = s
      /\ \A v \in Worker \ {w} : sender'[v] = sender[v]
  BY <1>1, <1>2, <1>4 DEF WebhookInv, WebhookTypes
<1>7. /\ run'[p] \in {"running", run[p]} /\ run' \in [Pairs -> DeliveryStates]
      /\ \A q \in Pairs \ {p} : run'[q] = run[q]
  <2>1. run' = [run EXCEPT ![p] = IF delivery'[p].attempt <= delivery[p].max
                                 THEN Projected(p, delivery'[p]) ELSE run[p]]
    BY DEF ClaimDelivery
  <2>2. Projected(p, delivery'[p]) = "running"
    BY <1>2, <1>6 DEF Projected
  <2> QED BY <2>1, <2>2 DEF WebhookInv, WebhookTypes, DeliveryStates
<1>8. WebhookTypes'
  BY <1>1, <1>6, <1>7 DEF WebhookInv, WebhookTypes
<1>9. run[p] \in {"queued", "running"}
  BY <1>1 DEF WebhookInv, Row
<1>10. Row(p)'
  <2>1. Sending(p)' = IF plan = "post" THEN Sending(p) \union {w} ELSE Sending(p)
    BY <1>1, <1>5, <1>6 DEF Sending
  <2>2. w \notin Sending(p)
    BY <1>1 DEF Sending
  <2>3. /\ IsFiniteSet(Sending(p)')
        /\ Cardinality(Sending(p)') = Cardinality(Sending(p)) + (IF plan = "post" THEN 1 ELSE 0)
    BY <2>1, <2>2, RowNumbers, FS_AddElement
  <2>4. /\ Counted(delivery[p])' \in Nat /\ Counted(delivery[p]) <= Counted(delivery[p])'
        /\ plan = "post" => Counted(delivery[p])' = Counted(delivery[p]) + 1
    BY <1>2, <1>3, <1>6, RowNumbers DEF Counted
  <2>5. sends'[p] + Cardinality(Sending(p)') <= Counted(delivery[p])'
    BY <1>1, <2>3, <2>4, RowNumbers
  <2> QED BY <1>2, <1>6, <1>7, <1>9, <2>3, <2>5 DEF Row
<1>11. ASSUME NEW q \in Pairs \ {p} PROVE Row(q)'
  <2>1. Sending(q)' = Sending(q)
    BY <1>1, <1>5, <1>6 DEF Sending
  <2> QED BY <1>1, <1>6, <1>7, <1>8, <2>1, RowFrame
<1>12. Sends(w)'
  BY <1>2, <1>3, <1>5, <1>6 DEF Sends
<1>13. \A v \in Worker \ {w} : Sends(v)'
  BY <1>1, <1>2, <1>6, SendsFrame
<1>14. ContractStep
  <2>1. \A q \in Pairs : PromiseOf(run'[q]) = PromiseOf(run[q]) /\ delivery'[q].max = delivery[q].max
    BY <1>2, <1>6, <1>7, <1>9 DEF PromiseOf
  <2> QED BY <1>1, <2>1, ContractStutter DEF ContractStep
<1> QED BY <1>1, <1>8, <1>10, <1>11, <1>12, <1>13, <1>14 DEF WebhookInv

LEMMA WebhookPost == ASSUME WebhookInv, NEW w \in Worker, Post(w) PROVE WebhookInv' /\ ContractStep
<1>p. PICK p \in Pairs : p = sender[w].pair /\ delivery[p].state # "none"
  BY DEF Post, WebhookInv, Sends
<1>1. PICK answer \in {"ok", "failed"} :
        sender' = [sender EXCEPT ![w].at = "finish", ![w].plan = answer]
  BY DEF Post
<1>2. /\ sender[w].at = "post" /\ sends' = [sends EXCEPT ![p] = @ + 1]
      /\ UNCHANGED <<receipts, subscription, delivery, run>>
  BY <1>p DEF Post
<1>3. p \in Pairs /\ delivery[p].state # "none" /\ sender[w] \in Senders
  BY <1>p DEF WebhookInv, WebhookTypes
<1>4. /\ sender' \in [Worker -> Senders]
      /\ sender'[w].at = "finish" /\ sender'[w].pair = p /\ sender'[w].plan = answer
      /\ \A v \in Worker \ {w} : sender'[v] = sender[v]
  BY <1>p, <1>1, <1>3 DEF WebhookInv, WebhookTypes, Senders
<1>5. /\ sends' \in [Pairs -> Nat] /\ sends'[p] = sends[p] + 1 /\ sends[p] \in Nat
      /\ \A q \in Pairs \ {p} : sends'[q] = sends[q]
  BY <1>2, <1>3 DEF WebhookInv, WebhookTypes
<1>6. WebhookTypes'
  BY <1>2, <1>4, <1>5 DEF WebhookInv, WebhookTypes
<1>7. w \in Sending(p) /\ Sending(p)' = Sending(p) \ {w}
  BY <1>p, <1>2, <1>4 DEF Sending
<1>8. IsFiniteSet(Sending(p)') /\ Cardinality(Sending(p)') = Cardinality(Sending(p)) - 1
  BY <1>3, <1>7, RowNumbers, FS_RemoveElement
<1>9. Row(p)'
  <2>1. Counted(delivery[p])' = Counted(delivery[p])
    BY <1>2 DEF Counted
  <2>2. sends'[p] + Cardinality(Sending(p)') <= Counted(delivery[p])
    BY <1>3, <1>5, <1>8, RowNumbers
  <2> QED BY <1>2, <1>3, <1>8, <2>1, <2>2 DEF WebhookInv, Row, Counted
<1>10. ASSUME NEW q \in Pairs \ {p} PROVE Row(q)'
  <2>1. Sending(q)' = Sending(q)
    BY <1>p, <1>2, <1>4 DEF Sending
  <2> QED BY <1>2, <1>5, <1>6, <2>1, RowFrame
<1>11. ASSUME NEW v \in Worker PROVE Sends(v)'
  <2>1. CASE v = w
    BY <1>p, <1>2, <1>3, <1>4, <1>5, <2>1 DEF Sends
  <2>2. CASE v # w
    <3>1. Sends(v) /\ sender'[v] = sender[v] /\ \A q \in Pairs : sends[q] \in Nat /\ sends'[q] >= sends[q]
      BY <1>4, <1>5, <2>2 DEF WebhookInv, WebhookTypes
    <3> QED BY <1>2, <3>1 DEF Sends
  <2> QED BY <2>1, <2>2
<1>12. ContractStep
  <2>1. promises' = promises /\ renewals' = renewals
    BY <1>2 DEF promises, renewals
  <2>2. promises[p] # "none"
    <3>1. run[p] \in DeliveryStates \ {"none"}
      BY <1>3 DEF WebhookInv, WebhookTypes, Row
    <3> QED BY <1>3, <3>1 DEF promises, PromiseOf, DeliveryStates
  <2>3. sends[p] < delivery[p].max
    <3>1. Cardinality(Sending(p)) # 0
      BY <1>3, <1>7, RowNumbers, FS_EmptySet
    <3> QED BY <1>3, <3>1, RowNumbers
  <2>4. delivery[p].max = IF p \in renewals THEN Renewed ELSE Budget
    BY <1>3, RowNumbers DEF renewals, DeliveryRows
  <2>5. Contract!SendTo(p)
    BY <1>2, <2>1, <2>2, <2>3, <2>4 DEF Contract!SendTo, Contract!BudgetOf, promises, renewals
  <2>6. p \in Contract!Promises
    BY <1>3 DEF Contract!Promises, Pairs
  <2> QED BY <2>5, <2>6 DEF ContractStep, Contract!ContractNext
<1> QED BY <1>2, <1>6, <1>9, <1>10, <1>11, <1>12 DEF WebhookInv

LEMMA WebhookFinish == ASSUME WebhookInv, NEW w \in Worker, Finish(w) PROVE WebhookInv' /\ ContractStep
<1>1. PICK p \in Pairs : p = sender[w].pair
  BY DEF Finish, WebhookInv, Sends
<1> DEFINE old == delivery[p]
           state == Outcome(sender[w].plan, old)
           row == [old EXCEPT !.state = state, !.attempt = Counted(old), !.owner = Nobody, !.live = FALSE]
<1>2. /\ sender[w].at = "finish" /\ old.state = "running"
      /\ delivery' = [delivery EXCEPT ![p] = row] /\ run' = [run EXCEPT ![p] = row.state]
      /\ sender' = [sender EXCEPT ![w] = SenderIdle] /\ UNCHANGED <<receipts, subscription, sends>>
  BY <1>1 DEF Finish, MayFinish, Write, Projected
<1>3. /\ state \in {"succeeded", "cancelled", "dead_letter", "queued"}
      /\ state = "succeeded" => sends[p] > 0
  BY <1>1, <1>2 DEF WebhookInv, Sends, Outcome
<1>4. old \in DeliveryRows /\ Counted(old) \in Nat /\ Counted(old) <= old.max /\ old.max \in Nat
  BY RowNumbers
<1> HIDE DEF state
<1>5. /\ row \in DeliveryRows /\ row.state = state /\ row.attempt = Counted(old) /\ row.max = old.max
  <2> DEFINE n == Counted(old)
  <2>0. row = [old EXCEPT !.state = state, !.attempt = n, !.owner = Nobody, !.live = FALSE]
    OBVIOUS
  <2> HIDE DEF row, n, old
  <2>1. row = [state |-> state, attempt |-> n, max |-> old.max, version |-> old.version,
               owner |-> Nobody, live |-> FALSE]
    BY <1>4, <2>0 DEF DeliveryRows
  <2> USE DEF n
  <2>2. old.max \in {Budget, Renewed} /\ old.version \in 0..MaxVersion
    BY <1>4 DEF DeliveryRows
  <2> HIDE DEF row
  <2> QED BY <1>3, <1>4, <2>1, <2>2 DEF DeliveryRows, DeliveryStates
<1> HIDE DEF row
<1>6. /\ delivery' \in [Pairs -> DeliveryRows] /\ delivery'[p] = row
      /\ run' \in [Pairs -> DeliveryStates] /\ run'[p] = state
      /\ \A q \in Pairs \ {p} : delivery'[q] = delivery[q] /\ run'[q] = run[q]
      /\ sender' \in [Worker -> Senders] /\ \A v \in Worker : sender'[v] \in {sender[v], SenderIdle}
  BY <1>2, <1>3, <1>5, IdleIsSender DEF WebhookInv, WebhookTypes, DeliveryStates
<1>7. WebhookTypes'
  BY <1>2, <1>6 DEF WebhookInv, WebhookTypes
<1>8. \A q \in Pairs : Sending(q)' = Sending(q)
  BY <1>2, <1>6 DEF Sending, SenderIdle, WebhookInv, WebhookTypes
<1>9. Row(p)'
  <2>1. Counted(delivery[p])' = Counted(old)
    BY <1>4, <1>5, <1>6 DEF Counted
  <2>2. sends'[p] + Cardinality(Sending(p)') <= Counted(delivery[p])'
    BY <1>2, <1>8, <2>1, RowNumbers
  <2> QED BY <1>3, <1>5, <1>6, <1>8, <2>2, RowNumbers DEF Row
<1>10. \A q \in Pairs : Row(q)'
  BY <1>2, <1>6, <1>7, <1>8, <1>9, RowFrame
<1>11. \A v \in Worker : Sends(v)'
  BY <1>2, <1>3, <1>5, <1>6, SendsFrame
<1>12. ContractStep
  <2>1. promises' = [promises EXCEPT ![p] = PromiseOf(state)]
    BY <1>2, <1>3, <1>5, OnePromise DEF DeliveryStates
  <2>2. promises[p] = "owed"
    <3>1. run[p] \in {"queued", "running"}
      BY <1>2 DEF WebhookInv, Row
    <3> QED BY <3>1 DEF promises, PromiseOf
  <2>3. renewals' = renewals
    BY <1>5, <1>6 DEF renewals
  <2>4. p \in Contract!Promises
    BY DEF Contract!Promises, Pairs
  <2>5. CASE state = "succeeded"
    <3>1. Contract!Keep(p)
      BY <1>2, <1>3, <2>1, <2>2, <2>3, <2>5 DEF Contract!Keep, promises, renewals, PromiseOf
    <3> QED BY <2>4, <3>1 DEF ContractStep, Contract!ContractNext
  <2>6. CASE state \in {"cancelled", "dead_letter"}
    <3>1. PromiseOf(state) \in {"released", "broken"}
      BY <2>6 DEF PromiseOf
    <3>2. Contract!Drop(p)
      BY <1>2, <2>1, <2>2, <2>3, <3>1 DEF Contract!Drop, promises, renewals
    <3> QED BY <2>4, <3>2 DEF ContractStep, Contract!ContractNext
  <2>7. CASE state = "queued"
    <3>1. PromiseOf(run[p]) = "owed" /\ PromiseOf(state) = "owed"
      BY <2>2, <2>7 DEF promises, PromiseOf
    <3>2. \A q \in Pairs : PromiseOf(run'[q]) = PromiseOf(run[q]) /\ delivery'[q].max = delivery[q].max
      BY <1>5, <1>6, <3>1
    <3> QED BY <1>2, <3>2, ContractStutter DEF ContractStep
  <2> QED BY <1>3, <2>5, <2>6, <2>7
<1> QED BY <1>2, <1>7, <1>10, <1>11, <1>12 DEF WebhookInv

-----------------------------------------------------------------------------
(* The webhooks, and the module as a whole.                                *)

LEMMA WebhookInit == Init => WebhookInv
<1> SUFFICES ASSUME Init PROVE WebhookInv
  OBVIOUS
<1>1. NoDelivery \in DeliveryRows /\ SenderIdle \in Senders
  BY DeliveryAssumption, IdleIsSender DEF NoDelivery, DeliveryRows, DeliveryStates, DeliveryAssumption
<1>2. WebhookTypes
  BY <1>1 DEF Init, WebhookTypes, DeliveryStates
<1>3. subscription \in [Subscriber -> SubscriptionRows]
  BY DeliveryAssumption DEF Init, SubscriptionRows, DeliveryAssumption
<1>4. ASSUME NEW p \in Pairs PROVE Row(p)
  <2>1. Sending(p) = {}
    BY DEF Init, Sending, SenderIdle
  <2>2. /\ run[p] = "none" /\ sends[p] = 0
        /\ delivery[p].state = "none" /\ delivery[p].max = Budget /\ delivery[p].attempt = 0
    BY DEF Init, NoDelivery
  <2>3. Counted(delivery[p]) = 0
    BY <2>2, DeliveryAssumption DEF Counted, DeliveryAssumption
  <2> QED BY <2>1, <2>2, <2>3, FS_EmptySet DEF Row
<1>5. \A w \in Worker : Sends(w)
  BY DEF Init, Sends, SenderIdle
<1> QED BY <1>2, <1>3, <1>4, <1>5 DEF WebhookInv

\* A step of the outbox alone.
LEMMA WebhookIdle ==
    ASSUME WebhookInv, UNCHANGED <<receipts, subscription, delivery, run, sends, sender>>
    PROVE  WebhookInv' /\ ContractStep
<1>1. WebhookInv'
  BY WebhookKept DEF webhookVars, WebhookInv
<1>2. ContractStep
  BY ContractStutter DEF ContractStep
<1> QED BY <1>1, <1>2

LEMMA WebhookNext ==
    ASSUME OutboxInv, WebhookInv, [Next]_vars
    PROVE  WebhookInv' /\ ContractStep
<1>1. CASE UNCHANGED vars
  BY <1>1, WebhookIdle DEF vars
<1>2. ASSUME NEW e \in Event, NEW kind \in Kinds, Enqueue(e, kind) PROVE WebhookInv' /\ ContractStep
  BY <1>2, WebhookIdle DEF Enqueue, webhookVars
<1>3. ASSUME NEW s \in Subscriber, SaveSubscription(s) PROVE WebhookInv' /\ ContractStep
  BY <1>3, WebhookSaved
<1>4. ASSUME NEW p \in Pairs, ReplayDelivery(p) \/ DeliveryLapses(p) PROVE WebhookInv' /\ ContractStep
  BY <1>4, WebhookReplay, WebhookLapses
<1>5. ASSUME NEW e \in Event, EventLapses(e) PROVE WebhookInv' /\ ContractStep
  BY <1>5, WebhookIdle DEF EventLapses, webhookVars
<1>6. ASSUME NEW w \in Worker PROVE Dispatch(w) => WebhookInv' /\ ContractStep
  <2>1. ReapEvents(w) \/ (\E e \in Event : ClaimEvent(w, e)) => WebhookInv' /\ ContractStep
    <3>1. ReapEvents(w) => UNCHANGED <<receipts, subscription, delivery, run, sends, sender>>
      BY Zenon DEF ReapEvents, webhookVars
    <3>2. ASSUME NEW e \in Event, ClaimEvent(w, e)
          PROVE  UNCHANGED <<receipts, subscription, delivery, run, sends, sender>>
      BY <3>2, Zenon DEF ClaimEvent, webhookVars
    <3> QED BY <3>1, <3>2, WebhookIdle
  <2>2. FanOut(w) => WebhookInv' /\ ContractStep
    BY WebhookFanOut
  <2>3. WriteDocument(w) \/ NothingToWrite(w) \/ CommitDocument(w) \/ MarkEvent(w) => WebhookInv' /\ ContractStep
    BY WebhookIdle DEF WriteDocument, NothingToWrite, CommitDocument, MarkEvent, webhookVars
  <2>4. MarkRefused(w) => WebhookInv' /\ ContractStep
    BY WebhookEnded DEF MarkRefused
  <2> QED BY <2>1, <2>2, <2>3, <2>4 DEF Dispatch
<1>7. ASSUME NEW w \in Worker, Send(w) PROVE WebhookInv' /\ ContractStep
  BY <1>7, WebhookClaim, WebhookPost, WebhookFinish, WebhookRefused DEF Send
<1>8. ASSUME NEW w \in Worker, FanOutFails(w) \/ CommitFails(w) \/ Restart(w) PROVE WebhookInv' /\ ContractStep
  BY <1>8, WebhookIdle DEF FanOutFails, CommitFails, Restart, webhookVars
<1>9. ASSUME NEW w \in Worker, Crash(w) PROVE WebhookInv' /\ ContractStep
  BY <1>9, WebhookEnded DEF Crash
<1> QED BY <1>1, <1>2, <1>3, <1>4, <1>5, <1>6, <1>7, <1>8, <1>9 DEF Next

LEMMA WebhookInvariance == Spec => []WebhookInv
<1>1. Init => WebhookInv
  BY WebhookInit
<1>2. OutboxInv /\ WebhookInv /\ [Next]_vars => WebhookInv'
  BY WebhookNext
<1> QED BY <1>1, <1>2, OutboxInvariance, PTL DEF Spec

\* Every table keeps its columns and their limits.
THEOREM Types == Spec => []TypeOK
<1> DEFINE Rest == up \subseteq Worker /\ faults \in 0..MaxFaults
<1>1. Init => Rest
  BY DeliveryAssumption DEF Init, DeliveryAssumption
<1>2. Rest /\ [Next]_vars => Rest'
  <2> SUFFICES ASSUME Rest, [Next]_vars PROVE Rest'
    OBVIOUS
  <2> USE DeliveryAssumption DEF DeliveryAssumption
  <2>1. CASE UNCHANGED vars
    BY <2>1 DEF vars
  <2>2. ASSUME NEW e \in Event, NEW kind \in Kinds, Enqueue(e, kind) PROVE Rest'
    BY <2>2 DEF Enqueue
  <2>3. ASSUME NEW s \in Subscriber, SaveSubscription(s) PROVE Rest'
    BY <2>3 DEF SaveSubscription
  <2>4. ASSUME NEW p \in Pairs, ReplayDelivery(p) \/ DeliveryLapses(p) PROVE Rest'
    BY <2>4 DEF ReplayDelivery, DeliveryLapses, Lapse, Fault
  <2>5. ASSUME NEW e \in Event, EventLapses(e) PROVE Rest'
    BY <2>5 DEF EventLapses, Lapse, Fault
  <2>6. ASSUME NEW w \in Worker, Dispatch(w) PROVE Rest'
    <3>1. \/ UNCHANGED <<up, faults>>
          \/ up' = up \ {w} /\ UNCHANGED faults
      BY <2>6, Zenon DEF Dispatch, ReapEvents, ClaimEvent, FanOut, WriteDocument, NothingToWrite,
                         CommitDocument, MarkEvent, MarkRefused, Ended
    <3> QED BY <3>1
  <2>7. ASSUME NEW w \in Worker, Send(w) PROVE Rest'
    <3>1. UNCHANGED <<up, faults>>
      BY <2>7, Zenon DEF Send, ClaimDelivery, Post, Finish, FinishRefused
    <3> QED BY <3>1
  <2>8. ASSUME NEW w \in Worker, FanOutFails(w) \/ CommitFails(w) \/ Crash(w) \/ Restart(w) PROVE Rest'
    BY <2>8 DEF FanOutFails, CommitFails, Crash, Restart, Ended, Fault
  <2> QED BY <2>1, <2>2, <2>3, <2>4, <2>5, <2>6, <2>7, <2>8 DEF Next
<1>3. OutboxInv /\ WebhookInv /\ Rest => TypeOK
  BY DEF OutboxInv, WebhookInv, TypeOK
<1> QED BY <1>1, <1>2, <1>3, OutboxInvariance, WebhookInvariance, PTL DEF Spec

\* Crashes, stalls, late answers, second fan-outs and the replay of a dead
\* letter never make a run say what DeliveryContract does not allow: each step
\* of the tables is a step of the promise or leaves it alone.
THEOREM WebhooksKeepTheirPromise == Spec => KeepsItsPromise
<1>1. Init => Contract!ContractInit
  <2> SUFFICES ASSUME Init PROVE Contract!ContractInit
    OBVIOUS
  <2>1. receipts = {} /\ sends = [p \in Contract!Promises |-> 0]
    BY DEF Init, Contract!Promises, Pairs
  <2>2. promises = [p \in Contract!Promises |-> "none"]
    BY DEF Init, promises, PromiseOf, Contract!Promises, Pairs
  <2>3. renewals = {}
    BY DeliveryAssumption DEF Init, renewals, NoDelivery, DeliveryAssumption
  <2> QED BY <2>1, <2>2, <2>3 DEF Contract!ContractInit, promises, renewals
<1>2. OutboxInv /\ WebhookInv /\ [Next]_vars => ContractStep
  BY WebhookNext
<1>3. ContractStep <=> [Contract!ContractNext]_(Contract!contractVars)
  BY DEF ContractStep
<1> QED BY <1>1, <1>2, <1>3, OutboxInvariance, WebhookInvariance, PTL
    DEF Spec, KeepsItsPromise, Contract!ContractSpec

=============================================================================
