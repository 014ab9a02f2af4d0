---------------------------- MODULE MCAccounting ----------------------------
(* The requests are served by n1; n2, where there is one, only recovers. *)
EXTENDS Accounting, TLC

CONSTANTS r1, r2, n1, n2

OneRequest == {r1}
TwoRequests == {r1, r2}
OneReplica == {n1}
TwoReplicas == {n1, n2}
HomeOf == [r \in Requests |-> n1]
OnePrice == {1}
TwoPrices == {1, 3}
Swaps == Permutations({r1, r2})
=============================================================================
