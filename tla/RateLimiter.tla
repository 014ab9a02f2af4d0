---------------------------- MODULE RateLimiter -----------------------------
(***************************************************************************)
(* The request and token rates of teams, keys and customers, counted in    *)
(* fixed windows.  A check reads the clock, builds the counters of the     *)
(* current window, and decides later: in the script of the shared Redis,   *)
(* or under the mutex of the memory backend.                               *)
(***************************************************************************)
EXTENDS Integers, FiniteSets, FiniteSetsExt

CONSTANTS
    Backend,       \* "redis" or "memory"
    Checks,
    Rates,         \* the limited (scope, metric) pairs
    Limit,         \* the limit of each
    Increment,     \* Increment[c][m]: 1, the tokens, or 0 when the rate is not limited
    WindowSize,
    Millisecond,   \* in units of the clock
    MaxCounters,   \* the capacity of the memory backend
    MaxTime        \* bound on the clock

VARIABLES
    now,        \* the clock of the gateways and of Redis
    used,       \* the counter of each rate and window
    expires,    \* when it goes away, 0 when there is none
    prunedAt,   \* Limiter.prunedAt, -1 for the zero time
    check,      \* step and clock reading of each check
    onTime      \* what each window admitted before its end

vars == <<now, used, expires, prunedAt, check, onTime>>

Bucket(t) == t \div WindowSize
WindowEnd(t) == (Bucket(t) + 1) * WindowSize
Buckets == 0..Bucket(MaxTime)
Counters == Rates \X Buckets

TypeOK ==
    /\ now \in 0..MaxTime
    /\ used \in [Counters -> Nat] /\ onTime \in [Counters -> Nat]
    /\ expires \in [Counters -> 0..(MaxTime + WindowSize)]
    /\ prunedAt \in -1..MaxTime
    /\ \A k \in Counters : expires[k] = 0 => used[k] = 0
    /\ \A c \in Checks :
        /\ check[c].step \in {"new", "built", "allowed", "denied", "failed"}
        /\ check[c].at \in 0..MaxTime

Init ==
    /\ now = 0
    /\ used = [k \in Counters |-> 0]
    /\ expires = [k \in Counters |-> 0]
    /\ prunedAt = -1
    /\ check = [c \in Checks |-> [step |-> "new", at |-> 0]]
    /\ onTime = [k \in Counters |-> 0]

\* buildSpecs for the clock reading t.
Specs(c, t) == {<<m, Bucket(t)>> : m \in {n \in Rates : Increment[c][n] > 0}}

\* Check reads the clock; without a limit it allows at once.
Build(c) ==
    /\ check[c].step = "new"
    /\ check' = [check EXCEPT ![c] =
        [step |-> IF Specs(c, now) = {} THEN "allowed" ELSE "built", at |-> now]]
    /\ UNCHANGED <<now, used, expires, prunedAt, onTime>>

\* The counters that have not expired when the clock shows t.
Live(t) == {k \in Counters : expires[k] > t}
Current(k, t) == IF k \in Live(t) THEN used[k] ELSE 0

Exceeds(c, k, t) == Current(k, t) + Increment[c][k[1]] > Limit[k[1]]


\* The counters that a check increases: all of them, or none when one is full.
Checked(c, ks, t) == IF \E k \in ks : Exceeds(c, k, t) THEN {} ELSE ks

\* The counters afterwards: the increased ones and the others of kept.  A new one
\* expires at until.
Apply(c, ks, t, kept, until) ==
    LET more == Checked(c, ks, t)
    IN  /\ used' = [k \in Counters |->
            IF k \in more THEN Current(k, t) + Increment[c][k[1]]
            ELSE IF k \in kept THEN used[k] ELSE 0]
        /\ expires' = [k \in Counters |->
            IF k \in more /\ Current(k, t) = 0 THEN until
            ELSE IF k \in kept THEN expires[k] ELSE 0]

\* The check has its answer, and the window of ks has admitted it if it is in time.
Answer(c, ks, t) ==
    LET allowed == ~\E k \in ks : Exceeds(c, k, t)
    IN  /\ check' = [check EXCEPT ![c] =
            [step |-> IF allowed THEN "allowed" ELSE "denied", at |-> 0]]
        /\ onTime' = [k \in Counters |-> onTime[k] +
            IF allowed /\ k \in ks /\ Bucket(now) = k[2] THEN Increment[c][k[1]] ELSE 0]

\* Mutant of Remaining: one unit short.
RemainingShort(t) == (WindowEnd(t) - t) - 1

\* The rest of the window in whole milliseconds.
Remaining(t) == ((WindowEnd(t) - t) \div Millisecond) * Millisecond

\* allowScript; PEXPIRE counts from the time the script runs.
RunScript(c) ==
    /\ Backend = "redis" /\ check[c].step = "built"
    /\ Apply(c, Specs(c, check[c].at), now, Live(now), now + Remaining(check[c].at))
    /\ UNCHANGED <<now, prunedAt>>

CheckRedis(c) == RunScript(c) /\ Answer(c, Specs(c, check[c].at), now)

\* The script ran, its answer is lost, and the request is refused.
LoseAnswer(c) ==
    /\ RunScript(c)
    /\ check' = [check EXCEPT ![c].step = "failed"]
    /\ UNCHANGED onTime

\* Redis is not available: enforceRateLimit refuses the request.
Unavailable(c) ==
    /\ Backend = "redis" /\ check[c].step = "built"
    /\ check' = [check EXCEPT ![c].step = "failed"]
    /\ UNCHANGED <<now, used, expires, prunedAt, onTime>>

PruneDue(t) == prunedAt = -1 \/ t - prunedAt >= WindowSize
Stored == {k \in Counters : expires[k] > 0}

Overfull(kept, ks) == Cardinality(kept \cup ks) > MaxCounters

\* checkMemory, for the clock reading of Check; the mutex may have been awaited.
CheckMemory(c) ==
    LET t == check[c].at
        ks == Specs(c, t)
        kept == IF PruneDue(t) THEN Live(t) ELSE Stored
    IN  /\ Backend = "memory" /\ check[c].step = "built"
        /\ prunedAt' = IF PruneDue(t) THEN t ELSE prunedAt
        /\ \/ /\ Overfull(kept, ks)
              /\ Apply(c, {}, t, kept, 0)
              /\ check' = [check EXCEPT ![c].step = "failed"]
              /\ UNCHANGED onTime
           \/ /\ ~Overfull(kept, ks)
              /\ Apply(c, ks, t, kept, WindowEnd(t))
              /\ Answer(c, ks, t)
        /\ UNCHANGED now

Tick ==
    /\ now < MaxTime
    /\ now' = now + 1
    /\ UNCHANGED <<used, expires, prunedAt, check, onTime>>

Next ==
    \/ \E c \in Checks :
        Build(c) \/ CheckRedis(c) \/ LoseAnswer(c) \/ Unavailable(c) \/ CheckMemory(c)
    \/ Tick

Spec == Init /\ [][Next]_vars
-----------------------------------------------------------------------------
(***************************************************************************)
(* What a window admits before its end is within the limit of every rate:  *)
(* no counter that traffic still reaches in time is dropped or starts from *)
(* zero ("Never evict live counters to admit traffic, which would reset a  *)
(* caller's limit", checkMemory; PEXPIRE in allowScript).                  *)
(***************************************************************************)
WindowWithinLimit == \A k \in Counters : onTime[k] <= Limit[k[1]]

\* While a window lasts, its counters hold at least what it admitted, and no more than
\* that and what lost answers took: a denied check leaves no trace (allowScript).
CountersAreExact ==
    \A k \in Counters : Bucket(now) = k[2] =>
        LET lost == MapThenSumSet(LAMBDA c : Increment[c][k[1]], {c \in Checks :
                        check[c].step = "failed" /\ Bucket(check[c].at) = k[2]})
        IN  onTime[k] <= used[k] /\ used[k] <= onTime[k] + lost

\* The memory backend never stores more counters than its capacity (checkMemory).
MemoryIsBounded == Backend = "memory" => Cardinality(Stored) <= MaxCounters
=============================================================================
