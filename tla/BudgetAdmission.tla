-------------------------- MODULE BudgetAdmission --------------------------
(***************************************************************************)
(* Budget admission: the transactions of budget.Service.Admit on the       *)
(* requests of several gateways, the advisory locks that serialize them,   *)
(* the UTC windows they check and the budget_daily_totals they charge.     *)
(*                                                                         *)
(* A scope is one team, user, service account, key or customer.  Each      *)
(* request makes one attempt.  The reply of a commit is never lost here:   *)
(* Accounting covers that.                                                 *)
(***************************************************************************)
EXTENDS Integers, FiniteSets, FiniteSetsExt

CONSTANTS
    Requests, Scopes,
    TeamOf,        \* TeamOf[r]: the team scope of request r
    OtherScopes,   \* OtherScopes[r]: its user, service account, key, customer
    Customers,     \* the scopes that are customers
    Limit,         \* Limit[s]: the limit, NoLimit for nil
    Period,        \* Period[s]: "day" or "month"
    LockKey,       \* LockKey[s]: the advisory lock key; keys may collide
    Estimate,      \* Estimate[r]: maxEstimatedCost over the targets
    Costs,         \* what a request may settle at
    MonthLength,   \* days in a month
    LastDay        \* bound: the last day of the model

NoLimit == -1
Days == 0..LastDay

ASSUME BudgetAssumption ==
    /\ IsFiniteSet(Requests) /\ IsFiniteSet(Scopes)
    /\ TeamOf \in [Requests -> Scopes] /\ OtherScopes \in [Requests -> SUBSET Scopes]
    /\ Customers \subseteq Scopes
    /\ Limit \in [Scopes -> Nat \cup {NoLimit}] /\ Period \in [Scopes -> {"day", "month"}]
    /\ LockKey \in [Scopes -> Int]
    /\ Estimate \in [Requests -> Nat] /\ Costs \subseteq Nat
    /\ MonthLength \in Nat \ {0} /\ LastDay \in Nat
    /\ \A r \in Requests : TeamOf[r] \notin OtherScopes[r]

VARIABLES
    day,       \* today, on the gateways' clocks and in Postgres
    pc,        \* where Admit is for each request
    began,     \* the day its transaction began: NOW(), so created_at
    checked,   \* the day of time.Now(), taken once the locks are held
    holder,    \* who holds each advisory lock
    status,    \* budget_reservations.status
    amount,    \* what the reservation charges: the estimate, then the settled cost
    totals     \* budget_daily_totals

tx == <<pc, holder>>
vars == <<day, tx, began, checked, status, amount, totals>>

Nobody == "nobody"
LockKeys == {LockKey[s] : s \in Scopes}
ScopesOf(r) == {TeamOf[r]} \cup OtherScopes[r]

TypeOK ==
    /\ day \in Days
    /\ pc \in [Requests -> {"idle", "locking", "passed", "admitted", "denied", "failed"}]
    /\ began \in [Requests -> Days] /\ checked \in [Requests -> Days]
    /\ holder \in [LockKeys -> Requests \cup {Nobody}]
    /\ status \in [Requests -> {"none", "reserved", "settled"}]
    /\ amount \in [Requests -> Nat]
    /\ totals \in [Scopes -> [Days -> Nat]]

Init ==
    /\ day = 0
    /\ pc = [r \in Requests |-> "idle"]
    /\ began = [r \in Requests |-> 0] /\ checked = [r \in Requests |-> 0]
    /\ holder = [k \in LockKeys |-> Nobody]
    /\ status = [r \in Requests |-> "none"]
    /\ amount = [r \in Requests |-> 0]
    /\ totals = [s \in Scopes |-> [d \in Days |-> 0]]
-----------------------------------------------------------------------------
\* A customer's zero limit is a limit; everywhere else it means none.
Budgeted(s) == IF s \in Customers THEN Limit[s] # NoLimit ELSE Limit[s] > 0

\* The team is locked whether or not it has a budget.
LocksOf(r) == {LockKey[s] : s \in {TeamOf[r]} \cup {o \in OtherScopes[r] : Budgeted(o)}}
Held(r) == {k \in LockKeys : holder[k] = r}

\* budgetWindow: the UTC day or month around d.
BudgetWindow(s, d) ==
    IF Period[s] = "day" THEN {d} ELSE {e \in Days : e \div MonthLength = d \div MonthLength}

BudgetUsedForScope(s, window) == MapThenSumSet(LAMBDA d : totals[s][d], window)

WouldExceed(used, need, limit) == used < 0 \/ used > limit \/ need > limit - used

\* Mutant of ScopeExceeded: the estimate is left out of the comparison.
ScopeExceededUsed(r, s) ==
    BudgetUsedForScope(s, BudgetWindow(s, day)) > Limit[s]

ScopeExceeded(r, s) ==
    WouldExceed(BudgetUsedForScope(s, BudgetWindow(s, day)), Estimate[r], Limit[s])

\* Mutant of ApplyDaily: the charge goes to the current day.
ApplyDailyToday(r, d, delta) ==
    totals' = [s \in Scopes |->
        IF s \in ScopesOf(r) THEN [totals[s] EXCEPT ![day] = @ + delta] ELSE totals[s]]

\* budget_apply_daily: one row for each identity of the request.
ApplyDaily(r, d, delta) ==
    totals' = [s \in Scopes |->
        IF s \in ScopesOf(r) THEN [totals[s] EXCEPT ![d] = @ + delta] ELSE totals[s]]

Release(r, l) ==
    /\ pc' = [pc EXCEPT ![r] = l]
    /\ holder' = [k \in LockKeys |-> IF holder[k] = r THEN Nobody ELSE holder[k]]
-----------------------------------------------------------------------------
\* No scope of the request has a budget: Admit returns without a reservation.
Unbudgeted(r) ==
    /\ pc[r] = "idle" /\ \A s \in ScopesOf(r) : ~Budgeted(s)
    /\ pc' = [pc EXCEPT ![r] = "admitted"]
    /\ UNCHANGED <<day, began, checked, holder, status, amount, totals>>

Begin(r) ==
    /\ pc[r] = "idle" /\ \E s \in ScopesOf(r) : Budgeted(s)
    /\ pc' = [pc EXCEPT ![r] = "locking"]
    /\ began' = [began EXCEPT ![r] = day]
    /\ UNCHANGED <<day, checked, holder, status, amount, totals>>

\* Mutant of TakeLock: the locks are taken in no particular order.
TakeLockAny(r) ==
    /\ pc[r] = "locking"
    /\ \E k \in LocksOf(r) \ Held(r) :
        holder[k] = Nobody /\ holder' = [holder EXCEPT ![k] = r]
    /\ UNCHANGED <<day, pc, began, checked, status, amount, totals>>

\* pg_advisory_xact_lock on the next key of the sorted list.
TakeLock(r) ==
    LET rest == LocksOf(r) \ Held(r) IN
    /\ pc[r] = "locking" /\ rest # {}
    /\ holder[Min(rest)] = Nobody
    /\ holder' = [holder EXCEPT ![Min(rest)] = r]
    /\ UNCHANGED <<day, pc, began, checked, status, amount, totals>>

\* With every lock held: read the clock, then the totals of each budgeted scope.
Check(r) ==
    /\ pc[r] = "locking" /\ LocksOf(r) \subseteq Held(r)
    /\ checked' = [checked EXCEPT ![r] = day]
    /\ IF \E s \in ScopesOf(r) : Budgeted(s) /\ ScopeExceeded(r, s)
       THEN Release(r, "denied")
       ELSE pc' = [pc EXCEPT ![r] = "passed"] /\ UNCHANGED holder
    /\ UNCHANGED <<day, began, status, amount, totals>>

\* INSERT (its trigger charges the estimate to the day of created_at), COMMIT.
Commit(r) ==
    /\ pc[r] = "passed"
    /\ status' = [status EXCEPT ![r] = "reserved"]
    /\ amount' = [amount EXCEPT ![r] = Estimate[r]]
    /\ ApplyDaily(r, began[r], Estimate[r])
    /\ Release(r, "admitted")
    /\ UNCHANGED <<day, began, checked>>

\* The admission timeout or an error rolls the transaction back.
RollBack(r) ==
    /\ pc[r] \in {"locking", "passed"}
    /\ Release(r, "failed")
    /\ UNCHANGED <<day, began, checked, status, amount, totals>>

\* Settlement at completion takes no budget lock; the difference goes to the
\* day of the reservation.
Settle(r) ==
    /\ status[r] = "reserved"
    /\ \E c \in Costs :
        /\ status' = [status EXCEPT ![r] = "settled"]
        /\ amount' = [amount EXCEPT ![r] = c]
        /\ ApplyDaily(r, began[r], c - amount[r])
    /\ UNCHANGED <<day, tx, began, checked>>

Midnight ==
    /\ day < LastDay
    /\ day' = day + 1
    /\ UNCHANGED <<tx, began, checked, status, amount, totals>>

Admit(r) == Unbudgeted(r) \/ Begin(r) \/ TakeLock(r) \/ Check(r) \/ Commit(r)

Next ==
    \/ \E r \in Requests : Admit(r) \/ RollBack(r) \/ Settle(r)
    \/ Midnight

Spec == Init /\ [][Next]_vars

(***************************************************************************)
(* While the locks of some transaction are free, one of them proceeds.     *)
(* Timeouts are not fair: admission may not depend on them to get out of a *)
(* deadlock.                                                               *)
(***************************************************************************)
Proceed == \E r \in Requests : TakeLock(r) \/ Check(r) \/ Commit(r)
FairSpec == Spec /\ WF_vars(Proceed)
-----------------------------------------------------------------------------
Charged(s, window) ==
    {r \in Requests : status[r] # "none" /\ s \in ScopesOf(r) /\ began[r] \in window}

Excess(r) == IF amount[r] > Estimate[r] THEN amount[r] - Estimate[r] ELSE 0

\* The transaction crossed a window boundary between its start and its check.
Crossed(r, s) == BudgetWindow(s, began[r]) # BudgetWindow(s, checked[r])

(***************************************************************************)
(* Concurrent admissions never reserve the same balance: in each window of *)
(* a budgeted scope, what was admitted stays within the limit, except for  *)
(* settlements above their own estimate and for transactions that were     *)
(* open across the window's end (Admit; docs/key-budgets.md).              *)
(***************************************************************************)
WithinLimit ==
    \A s \in Scopes, d \in Days : Budgeted(s) =>
        LET in == {r \in Charged(s, BudgetWindow(s, d)) : ~Crossed(r, s)}
        IN  MapThenSumSet(LAMBDA r : amount[r], in) <=
                Limit[s] + MapThenSumSet(Excess, Charged(s, BudgetWindow(s, d)))

(***************************************************************************)
(* The same without the exception for transactions open at the end of a    *)
(* window: "Atomic advisory-lock reservations prevent simultaneous         *)
(* requests from reserving the same remaining balance"                     *)
(* (docs/key-budgets.md).                                                  *)
(***************************************************************************)
WithinLimitAtMidnight ==
    \A s \in Scopes, d \in Days : Budgeted(s) =>
        LET in == Charged(s, BudgetWindow(s, d))
        IN  MapThenSumSet(LAMBDA r : amount[r], in) <= Limit[s] + MapThenSumSet(Excess, in)

(***************************************************************************)
(* The daily totals of every scope, budgeted or not, are the sums of its   *)
(* reservations by the day they were made (budget_apply_daily).            *)
(***************************************************************************)
TotalsByScope ==
    \A s \in Scopes, d \in Days :
        totals[s][d] = MapThenSumSet(LAMBDA r : amount[r], Charged(s, {d}))

(***************************************************************************)
(* Sorted locks cannot deadlock: an admission that waits for a lock is     *)
(* decided without the help of a timeout (the sort in Admit).              *)
(***************************************************************************)
AdmissionsDecide == \A r \in Requests : pc[r] = "locking" ~> pc[r] \notin {"locking", "passed"}
=============================================================================
