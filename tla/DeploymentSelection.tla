------------------------ MODULE DeploymentSelection -------------------------
(***************************************************************************)
(* The choice among the candidates of one priority band (pickLocked), as   *)
(* functions of the candidates, their place in the alias, their weights    *)
(* and prices, and the round-robin counter.                                *)
(***************************************************************************)
EXTENDS Integers, FiniteSetsExt

\* A missing or negative weight counts as one.
Share(weight, d) == IF weight[d] <= 0 THEN 1 ELSE weight[d]
Total(set, weight) == MapThenSumSet(LAMBDA d : Share(weight, d), set)

\* The offset at which the share of d begins.
Before(set, weight, place, d) == Total({e \in set : place[e] < place[d]}, weight)

\* Mutant of Rotate: idx <= offset.
RotateOffByOne(set, weight, place, n) ==
    LET idx == n % Total(set, weight)
        reached == {e \in set : idx <= Before(set, weight, place, e) + Share(weight, e)}
    IN  CHOOSE d \in reached : \A e \in reached : place[d] <= place[e]

\* Weighted round robin: the deployment into whose share idx falls.
Rotate(set, weight, place, n) ==
    LET idx == n % Total(set, weight)
        reached == {e \in set : idx < Before(set, weight, place, e) + Share(weight, e)}
    IN  CHOOSE d \in reached : \A e \in reached : place[d] <= place[e]

\* The first after a stable sort by price.
Cheapest(set, cost, place) ==
    CHOOSE d \in set : \A e \in set :
        cost[d] < cost[e] \/ (cost[d] = cost[e] /\ place[d] <= place[e])

UsesCost(set, byCost) == byCost /\ Cardinality(set) > 1
=============================================================================
