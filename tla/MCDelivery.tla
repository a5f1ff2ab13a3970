----------------------------- MODULE MCDelivery -----------------------------
(* Small instances of Delivery for TLC.                                    *)
EXTENDS Delivery

Few(assets, releases, proposals) ==
    [kind \in Kinds |-> CASE kind = "asset" -> assets [] kind = "release" -> releases [] OTHER -> proposals]

\* Two revisions of an asset, one beside a release, or an event without subscribers.
MCMixes == {Few(2, 0, 0), Few(1, 1, 0), Few(0, 0, 1)}

=============================================================================
