----------------------------- MODULE MCBudget -------------------------------
(***************************************************************************)
(* Budget admission, and the row locks of the totals that it charges.  A   *)
(* behaviour runs one of the two, its scene.                               *)
(*                                                                         *)
(* Two teams share a user.  The user has a daily budget, the first team a  *)
(* monthly one, the second team none; one request has a key with a budget, *)
(* one a customer with a budget, and the last one has no budget.           *)
(***************************************************************************)
EXTENDS BudgetAdmission, Sequences

CONSTANTS a, b, c, e

Teams == {"team1", "team2"}
MCScopes == Teams \cup {"user", "key", "customer"}
MCTeamOf == [r \in Requests |-> IF r \in {b, e} THEN "team2" ELSE "team1"]
MCOtherScopes == [r \in Requests |->
    CASE r = a -> {"user", "key"} [] r = b -> {"user"} [] r = e -> {} [] OTHER -> {"user", "customer"}]
MCCustomers == {"customer"}
MCLimit == [s \in Scopes |->
    CASE s = "user" -> 3 [] s = "team1" -> 4 [] s = "key" -> 2 [] s = "customer" -> 2 [] OTHER -> NoLimit]
MCPeriod == [s \in Scopes |-> IF s \in {"user", "customer"} THEN "day" ELSE "month"]
\* Hashed keys: the user sorts between the teams, and the customer collides.
MCLockKey == [s \in Scopes |->
    CASE s = "team1" -> 1 [] s = "team2" -> 4 [] s = "user" -> 2 [] s = "key" -> 3 [] OTHER -> 2]
MCEstimate == [r \in Requests |-> 2]
MCCosts == {1, 3}

VARIABLES scene, write, locked

rowVars == <<write, locked>>

\* Rows 1 and 2 are keys, 3 a service account, 4 a team, 5 and 6 users.  The last
\* transaction is a recovery batch of two requests of the same identities.
Rows == INSTANCE BudgetRowLocks WITH
    Transactions <- 1..4,
    Writes <- << << {1, 4, 5} >>, << {2, 4, 5} >>, << {1, 3, 4, 6} >>, << {2, 3, 4}, {2, 3, 4} >> >>

BudgetInit == scene \in {"admission", "rows"} /\ Init /\ Rows!Init

BudgetNext ==
    /\ UNCHANGED scene
    /\ \/ scene = "admission" /\ Next /\ UNCHANGED rowVars
       \/ scene = "rows" /\ Rows!Next /\ UNCHANGED vars

\* The fairness of BudgetAdmission; Proceed is not enabled in the other scene.
BudgetSpec ==
    /\ BudgetInit /\ [][BudgetNext]_<<scene, vars, rowVars>>
    /\ WF_vars(Proceed)
-----------------------------------------------------------------------------
(***************************************************************************)
(* The daily totals of every scope, budgeted or not, are the sums of its   *)
(* reservations by the day they were made, and never negative              *)
(* (budget_apply_daily, Settle).                                           *)
(***************************************************************************)
TotalsExact == TypeOK /\ TotalsByScope

=============================================================================
