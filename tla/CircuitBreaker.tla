--------------------------- MODULE CircuitBreaker ---------------------------
(***************************************************************************)
(* The circuit breaker of one deployment: the state of each replica and    *)
(* its mirror in Redis.  The attempts of a replica record their outcome    *)
(* under the registry's lock first and in Redis afterwards, one command at *)
(* a time; every Redis command may fail.  Times are kept relative to now,  *)
(* and the commands of an attempt take no time that the cooldown notices.  *)
(***************************************************************************)
EXTENDS Integers, FiniteSets, FiniteSetsExt

CONSTANTS
    Replicas,
    Attempts,
    Home,        \* the replica of each attempt
    Threshold,   \* breakerFailureThreshold
    Cooldown     \* breakerCooldown

\* Counts are told apart up to Threshold, ages up to Never.
Capped(n) == Min({n, Threshold})
Never == Cooldown + 1

VARIABLES
    failures,       \* ConsecutiveFailures of each replica
    age,            \* the time since its LastFailure, Never when it is zero
    open,           \* the time left until its OpenUntil, 0 when closed
    store,          \* the two Redis keys: count and its TTL, the time left of open_until
    attempt,        \* what each attempt records
    streak,         \* the failures fully recorded since the last success or Redis error
    sinceFailure    \* the time since the last failure on any replica

vars == <<failures, age, open, store, attempt, streak, sinceFailure>>

Idle == [step |-> "idle"]
Pending == {w \in Attempts : attempt[w] # Idle}

TypeOK ==
    /\ failures \in [Replicas -> 0..Threshold] /\ streak \in 0..Threshold
    /\ age \in [Replicas -> 0..Never] /\ sinceFailure \in 0..Never
    /\ open \in [Replicas -> 0..Cooldown]
    /\ store \in [count : 0..Threshold, ttl : 0..Cooldown, open : 0..Cooldown]
    /\ \A w \in Attempts : attempt[w] \in {Idle}
        \cup [step : {"incr", "set", "merge", "delcount", "delopen"}, clean : BOOLEAN]

Init ==
    /\ failures = [r \in Replicas |-> 0]
    /\ age = [r \in Replicas |-> Never]
    /\ open = [r \in Replicas |-> 0]
    /\ store = [count |-> 0, ttl |-> 0, open |-> 0]
    /\ attempt = [w \in Attempts |-> Idle]
    /\ streak = 0
    /\ sinceFailure = Never

\* RecordFailure of a retryable error, under the lock.
RecordFailure(w) ==
    LET r == Home[w]
        n == Capped((IF age[r] > Cooldown THEN 0 ELSE failures[r]) + 1)
    IN  /\ attempt[w] = Idle
        /\ failures' = [failures EXCEPT ![r] = n]
        /\ age' = [age EXCEPT ![r] = 0]
        /\ open' = [open EXCEPT ![r] = IF n >= Threshold THEN Cooldown ELSE @]
        /\ attempt' = [attempt EXCEPT ![w] =
            [step |-> "incr", clean |-> \A v \in Pending : attempt[v].step \in {"incr", "set", "merge"}]]
        /\ sinceFailure' = 0
        /\ UNCHANGED <<store, streak>>

\* The last command of a failure: it is part of the streak unless a success overlapped.
Recorded(w) ==
    /\ streak' = IF attempt[w].clean THEN Capped(streak + 1) ELSE streak
    /\ attempt' = [attempt EXCEPT ![w] = Idle]

\* Mutant of Incr: the new count does not renew the key's expiry.
IncrKeepsTTL(w) ==
    /\ attempt[w].step = "incr"
    /\ store' = [store EXCEPT !.count = Capped(@ + 1), !.ttl = IF @ = 0 THEN Cooldown ELSE @]
    /\ IF store'.count < Threshold
       THEN Recorded(w)
       ELSE attempt' = [attempt EXCEPT ![w].step = "set"] /\ UNCHANGED streak
    /\ UNCHANGED <<failures, age, open, sinceFailure>>

\* INCR and PEXPIRE; below the threshold this is all.
Incr(w) ==
    /\ attempt[w].step = "incr"
    /\ store' = [store EXCEPT !.count = Capped(@ + 1), !.ttl = Cooldown]
    /\ IF store'.count < Threshold
       THEN Recorded(w)
       ELSE attempt' = [attempt EXCEPT ![w].step = "set"] /\ UNCHANGED streak
    /\ UNCHANGED <<failures, age, open, sinceFailure>>

\* SET open_until.
SetOpen(w) ==
    /\ attempt[w].step = "set"
    /\ store' = [store EXCEPT !.open = Cooldown]
    /\ attempt' = [attempt EXCEPT ![w].step = "merge"]
    /\ UNCHANGED <<failures, age, open, streak, sinceFailure>>

\* RecordFailure takes the lock again and merges what Redis answered.
Merge(w) ==
    /\ attempt[w].step = "merge"
    /\ open' = [open EXCEPT ![Home[w]] = Max({@, Cooldown})]
    /\ failures' = [failures EXCEPT ![Home[w]] = Threshold]
    /\ Recorded(w)
    /\ UNCHANGED <<age, store, sinceFailure>>

\* What a success does to the streak and to the failures that are being recorded.
Interrupt(w, next) ==
    /\ streak' = 0
    /\ attempt' = [v \in Attempts |->
        IF v = w THEN next
        ELSE IF attempt[v] = Idle THEN Idle ELSE [attempt[v] EXCEPT !.clean = FALSE]]

\* RecordSuccess under the lock; LastFailure stays.
RecordSuccess(w) ==
    /\ attempt[w] = Idle
    /\ failures' = [failures EXCEPT ![Home[w]] = 0]
    /\ open' = [open EXCEPT ![Home[w]] = 0]
    /\ Interrupt(w, [step |-> "delcount", clean |-> FALSE])
    /\ UNCHANGED <<age, store, sinceFailure>>

DelCount(w) ==
    /\ attempt[w].step = "delcount"
    /\ store' = [store EXCEPT !.count = 0, !.ttl = 0]
    /\ Interrupt(w, [step |-> "delopen", clean |-> FALSE])
    /\ UNCHANGED <<failures, age, open, sinceFailure>>

DelOpen(w) ==
    /\ attempt[w].step = "delopen"
    /\ store' = [store EXCEPT !.open = 0]
    /\ Interrupt(w, Idle)
    /\ UNCHANGED <<failures, age, open, sinceFailure>>

\* A Redis command fails or times out: the rest of the record is dropped.
RedisError(w) ==
    /\ attempt[w].step \in {"incr", "set", "delcount", "delopen"}
    /\ Interrupt(w, Idle)
    /\ UNCHANGED <<failures, age, open, store, sinceFailure>>

\* isOpenLocked of a replica that is closed and finds the deployment open in Redis.
IsOpen(r) ==
    /\ open[r] = 0 /\ store.open > 0
    /\ open' = [open EXCEPT ![r] = store.open]
    /\ UNCHANGED <<failures, age, store, attempt, streak, sinceFailure>>

Less(n) == Max({0, n - 1})
Older(n) == Min({Never, n + 1})

Tick ==
    /\ Pending = {}
    /\ open' = [r \in Replicas |-> Less(open[r])]
    /\ age' = [r \in Replicas |-> Older(age[r])]
    /\ store' = [count |-> IF store.ttl <= 1 THEN 0 ELSE store.count,
                 ttl |-> Less(store.ttl), open |-> Less(store.open)]
    /\ sinceFailure' = Older(sinceFailure)
    /\ streak' = IF sinceFailure' >= Cooldown THEN 0 ELSE streak
    /\ UNCHANGED <<failures, attempt>>

Next ==
    \/ \E w \in Attempts :
        \/ RecordFailure(w) \/ Incr(w) \/ SetOpen(w) \/ Merge(w)
        \/ RecordSuccess(w) \/ DelCount(w) \/ DelOpen(w) \/ RedisError(w)
    \/ \E r \in Replicas : IsOpen(r)
    \/ Tick

Spec == Init /\ [][Next]_vars
-----------------------------------------------------------------------------
SeesOpen(r) == open[r] > 0 \/ store.open > 0

(***************************************************************************)
(* A deployment that is open anywhere failed within the last cooldown:     *)
(* neither the mirror nor the local copies of it keep the breaker open     *)
(* longer (isOpenLocked, RecordFailure).                                   *)
(***************************************************************************)
OpenHasCause == \A r \in Replicas : SeesOpen(r) => sinceFailure < Cooldown

(***************************************************************************)
(* Failures in a row, on whichever replicas, open the breaker for all of   *)
(* them ("a peer replica's breaker decisions are honored within the        *)
(* round-trip of a single Redis GET", BreakerStore).                       *)
(***************************************************************************)
StreakIsSeen == Pending = {} /\ streak >= Threshold => \A r \in Replicas : SeesOpen(r)
=============================================================================
