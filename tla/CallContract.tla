---------------------------- MODULE CallContract ----------------------------
(***************************************************************************)
(* What a request under an idempotency key promises the client who pays    *)
(* for it: the outside world is called at most once for a key, whoever     *)
(* asks again; the outcome is written once; nothing succeeds without the   *)
(* call; and once the outcome is known no call is still to come.  Only an  *)
(* unknown outcome leaves that open, which is what it means.               *)
(* ExternalCall.tla, with its handlers, leases and sweeps, implements this *)
(* module.                                                                 *)
(***************************************************************************)
CONSTANT Key    \* the idempotency keys

VARIABLES
    outcome,    \* where the request under each key stands
    called      \* whether its call was made

contractVars == <<outcome, called>>

Known == {"succeeded", "clarified", "failed", "cancelled"}
Outcomes == {"new", "open", "unknown"} \union Known

ContractInit ==
    /\ outcome = [k \in Key |-> "new"]
    /\ called = [k \in Key |-> FALSE]

Open(k) ==
    /\ outcome[k] = "new"
    /\ outcome' = [outcome EXCEPT ![k] = "open"]
    /\ UNCHANGED called

Call(k) ==
    /\ ~called[k]
    /\ outcome[k] \in {"open", "unknown"}
    /\ called' = [called EXCEPT ![k] = TRUE]
    /\ UNCHANGED outcome

\* One sweep closes every request whose time is up.
GiveUp(K) ==
    /\ \A k \in K : outcome[k] = "open"
    /\ outcome' = [k \in Key |-> IF k \in K THEN "unknown" ELSE outcome[k]]
    /\ UNCHANGED called

Settle(k, result) ==
    /\ outcome[k] = "open"
    /\ result = "succeeded" => called[k]
    /\ outcome' = [outcome EXCEPT ![k] = result]
    /\ UNCHANGED called

\* A claim may sweep before it opens its own request.
GiveUpAndOpen(K, k) ==
    /\ \A j \in K : outcome[j] = "open"
    /\ outcome[k] = "new"
    /\ outcome' = [j \in Key |-> CASE j = k -> "open" [] j \in K -> "unknown" [] OTHER -> outcome[j]]
    /\ UNCHANGED called

ContractNext ==
    \/ \E k \in Key : Open(k) \/ Call(k) \/ \E result \in Known : Settle(k, result)
    \/ \E K \in SUBSET Key : GiveUp(K) \/ \E k \in Key : GiveUpAndOpen(K, k)

ContractSpec == ContractInit /\ [][ContractNext]_contractVars

=============================================================================
