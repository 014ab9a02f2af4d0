--------------------------- MODULE BudgetRowLocks ---------------------------
(***************************************************************************)
(* The row locks of budget_daily_totals.  Every transaction that changes a *)
(* reservation or inserts a priced usage row runs budget_apply_daily once  *)
(* for each such write, and holds the rows it has updated until it ends.   *)
(* An admission and a completion make one write; a recovery batch makes    *)
(* one for each intent it settles.                                         *)
(***************************************************************************)
EXTENDS Integers, FiniteSets, FiniteSetsExt, Sequences

CONSTANTS
    Transactions,
    Writes      \* Writes[t]: for each write, its rows as (scope, subject_id) ranks

VARIABLES
    write,     \* the write each transaction is at
    locked     \* the rows it has locked; empty again once it has ended

vars == <<write, locked>>

Ended(t) == write[t] > Len(Writes[t])
Rows == UNION {UNION {Writes[t][i] : i \in 1..Len(Writes[t])} : t \in Transactions}

\* The variables have their types, and an ended transaction has no locks.
TypeOK ==
    /\ write \in [Transactions -> Nat \ {0}]
    /\ locked \in [Transactions -> SUBSET Rows]
    /\ \A t \in Transactions : Ended(t) => locked[t] = {}

Init ==
    /\ write = [t \in Transactions |-> 1]
    /\ locked = [t \in Transactions |-> {}]

Rest(t) == Writes[t][write[t]] \ locked[t]


\* The next row of the loop, ORDER BY scope, subject_id.
Wanted(t) == {Min(Rest(t))}

Free(row) == \A t \in Transactions : row \notin locked[t]

LockRow(t) ==
    /\ ~Ended(t) /\ Rest(t) # {}
    /\ \E row \in Wanted(t) :
        Free(row) /\ locked' = [locked EXCEPT ![t] = @ \cup {row}]
    /\ UNCHANGED write

\* The loop is done: the next write of the batch, or the end of the transaction.
Applied(t) ==
    /\ ~Ended(t) /\ Rest(t) = {}
    /\ write' = [write EXCEPT ![t] = @ + 1]
    /\ locked' = [locked EXCEPT ![t] = IF write[t] = Len(Writes[t]) THEN {} ELSE @]

\* A timeout, an error, or the deadlock detector ends the transaction.
RolledBack(t) ==
    /\ ~Ended(t)
    /\ write' = [write EXCEPT ![t] = Len(Writes[t]) + 1]
    /\ locked' = [locked EXCEPT ![t] = {}]

Next == \E t \in Transactions : LockRow(t) \/ Applied(t) \/ RolledBack(t)

Spec == Init /\ [][Next]_vars
-----------------------------------------------------------------------------
\* t waits for a row that u has locked.
WaitsFor(t, u) == ~Ended(t) /\ Rest(t) # {} /\ \E row \in Wanted(t) : row \in locked[u]

(***************************************************************************)
(* No set of transactions waits for itself.  "Same order for all normal    *)
(* writes" (budget_apply_daily in migration 0041): no admission or         *)
(* completion is aborted as the victim of a deadlock.                      *)
(***************************************************************************)
NoWaitCycle ==
    ~\E T \in SUBSET Transactions \ {{}} : \A t \in T : \E u \in T \ {t} : WaitsFor(t, u)
=============================================================================
