-------------------------- MODULE DeliveryContract --------------------------
(***************************************************************************)
(* What webhooks promise a subscriber: which events it is owed is decided  *)
(* once per event; what is owed is sent at least once before it counts as  *)
(* kept, a bounded number of times in all, and ends kept, released or      *)
(* broken; a broken promise may be renewed once.  No rows, leases, workers *)
(* or crashes: Delivery.tla has those, and implements this module.         *)
(***************************************************************************)
EXTENDS Naturals

CONSTANTS
    Subscriber,   \* the subscriptions that may exist
    Event,        \* the events that may happen
    Budget,       \* sends per promise
    Renewed       \* sends per promise that was renewed

VARIABLES
    decided,      \* the events whose subscribers are decided
    promise,      \* where each promise stands
    sends,        \* how often each event was sent to each subscriber
    renewed       \* the promises renewed

contractVars == <<decided, promise, sends, renewed>>

Promises == Subscriber \X Event
ContractInit ==
    /\ decided = {}
    /\ promise = [p \in Promises |-> "none"]
    /\ sends = [p \in Promises |-> 0]
    /\ renewed = {}

\* Whoever subscribes later is not owed this event.
Decide(e, S) ==
    /\ e \notin decided
    /\ decided' = decided \union {e}
    /\ promise' = [p \in Promises |-> IF p[2] = e /\ p[1] \in S THEN "owed" ELSE promise[p]]
    /\ UNCHANGED <<sends, renewed>>

BudgetOf(p) == IF p \in renewed THEN Renewed ELSE Budget

\* A sender that lost its claim may still send after the promise has ended.
SendTo(p) ==
    /\ promise[p] # "none"
    /\ sends[p] < BudgetOf(p)
    /\ sends' = [sends EXCEPT ![p] = @ + 1]
    /\ UNCHANGED <<decided, promise, renewed>>

Keep(p) ==
    /\ promise[p] = "owed"
    /\ sends[p] > 0
    /\ promise' = [promise EXCEPT ![p] = "kept"]
    /\ UNCHANGED <<decided, sends, renewed>>

\* The subscriber changed or withdrew its subscription, or sending failed.
Drop(p) ==
    /\ promise[p] = "owed"
    /\ \E s \in {"released", "broken"} : promise' = [promise EXCEPT ![p] = s]
    /\ UNCHANGED <<decided, sends, renewed>>

Renew(p) ==
    /\ promise[p] = "broken"
    /\ p \notin renewed
    /\ promise' = [promise EXCEPT ![p] = "owed"]
    /\ renewed' = renewed \union {p}
    /\ UNCHANGED <<decided, sends>>

ContractNext ==
    \/ \E e \in Event, S \in SUBSET Subscriber : Decide(e, S)
    \/ \E p \in Promises : SendTo(p) \/ Keep(p) \/ Drop(p) \/ Renew(p)

ContractSpec == ContractInit /\ [][ContractNext]_contractVars

=============================================================================
