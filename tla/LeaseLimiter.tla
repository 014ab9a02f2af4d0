---------------------------- MODULE LeaseLimiter ----------------------------
(***************************************************************************)
(* Distributed concurrency limits.  A request that runs on any replica     *)
(* takes one lease in Redis over all its scopes (team, key and owner when  *)
(* it enters; model and customer when its body is parsed; the provider at  *)
(* an attempt), works, and releases it.  A script runs atomically, by the  *)
(* clock of Redis; its answer can be lost.  Each scope is a sorted set of  *)
(* lease expiries under a key that expires as a whole.                     *)
(***************************************************************************)
EXTENDS Integers, FiniteSets, FiniteSetsExt

CONSTANTS
    Requests,
    Scopes,
    ScopesOf,      \* the limited scopes of each request
    Limit,         \* the limit of each scope
    Deadline,      \* server.v1_deadline
    Buffer,        \* what a lease adds to the deadline, and the time a handler may
                   \* take to return once its deadline has passed
    Minimum,       \* the shortest lease
    KeyGrace,      \* what the key adds to the lease
    EntryLease     \* the requests whose lease is taken by tenantConcurrencyMiddleware

\* Every time is kept as the time left from now on, so that the clock needs no bound.
VARIABLES
    lease,      \* the time left of each lease of each scope, 0 for none
    keyLeft,    \* the time left of each scope's key
    step,       \* what each request does
    timeLeft    \* the time left to each request's deadline; negative after it

vars == <<lease, keyLeft, step, timeLeft>>

NoClaim == -Minimum     \* the time left of a request that has no lease in Redis
LongestLease == Max({Minimum, Deadline + Buffer})

TypeOK ==
    /\ lease \in [Scopes -> [Requests -> 0..LongestLease]]
    /\ keyLeft \in [Scopes -> 0..(LongestLease + KeyGrace)]
    /\ step \in [Requests -> {"new", "started", "running", "ended"}]
    /\ timeLeft \in [Requests -> NoClaim..Deadline]

Init ==
    /\ lease = [s \in Scopes |-> [r \in Requests |-> 0]]
    /\ keyLeft = [s \in Scopes |-> 0]
    /\ step = [r \in Requests |-> "new"]
    /\ timeLeft = [r \in Requests |-> NoClaim]

\* The leases of a scope that the script counts.
Members(s) == {r \in Requests : keyLeft[s] > 0 /\ lease[s][r] > 0}

\* Mutant of TTL: the lease ends with the request's deadline.
TTLDeadline(r) == timeLeft[r]

\* concurrencyLeaseTTL, and the same from the time left in acquireConcurrencyScopes.
TTL(r) == Max({Minimum, Buffer + IF r \in EntryLease THEN Deadline ELSE timeLeft[r]})

\* deadlineMiddleware starts the clock of the request.
Start(r) ==
    /\ step[r] = "new"
    /\ step' = [step EXCEPT ![r] = "started"]
    /\ timeLeft' = [timeLeft EXCEPT ![r] = Deadline]
    /\ UNCHANGED <<lease, keyLeft>>

FullScopes(r) == {s \in ScopesOf[r] : Cardinality(Members(s) \ {r}) >= Limit[s]}

\* Mutant of Grant: the member is added to each scope as it passes its check.
GrantEach(r, answered) ==
    /\ step[r] = "started" /\ timeLeft[r] > 0
    /\ lease' = [s \in Scopes |->
        IF s \in ScopesOf[r] \ FullScopes(r) /\ FullScopes(r) # ScopesOf[r]
        THEN [m \in Requests |-> IF m = r THEN TTL(r)
                                 ELSE IF m \in Members(s) THEN lease[s][m] ELSE 0]
        ELSE lease[s]]
    /\ keyLeft' = [s \in Scopes |->
        IF s \in ScopesOf[r] THEN TTL(r) + KeyGrace ELSE keyLeft[s]]
    /\ step' = [step EXCEPT ![r] =
        IF answered /\ FullScopes(r) = {} THEN "running" ELSE "ended"]
    /\ UNCHANGED timeLeft

\* acquireScript: all scopes have room, the member is added to every one.  Without
\* an answer the request fails, and its lease stays.
Grant(r, answered) ==
    /\ step[r] = "started" /\ timeLeft[r] > 0
    /\ FullScopes(r) = {}
    /\ lease' = [s \in Scopes |->
        IF s \in ScopesOf[r]
        THEN [m \in Requests |-> IF m = r THEN TTL(r)
                                 ELSE IF m \in Members(s) THEN lease[s][m] ELSE 0]
        ELSE lease[s]]
    /\ keyLeft' = [s \in Scopes |->
        IF s \in ScopesOf[r] THEN TTL(r) + KeyGrace ELSE keyLeft[s]]
    /\ step' = [step EXCEPT ![r] = IF answered THEN "running" ELSE "ended"]
    /\ UNCHANGED timeLeft

\* acquireScript: a scope is full, nothing is added.
Refuse(r) ==
    /\ step[r] = "started" /\ timeLeft[r] > 0
    /\ FullScopes(r) # {}
    /\ step' = [step EXCEPT ![r] = "ended"]
    /\ timeLeft' = [timeLeft EXCEPT ![r] = NoClaim]
    /\ UNCHANGED <<lease, keyLeft>>

\* Redis cannot be reached, or the deadline has passed: the request fails closed.
Unavailable(r) ==
    /\ step[r] = "started"
    /\ step' = [step EXCEPT ![r] = "ended"]
    /\ timeLeft' = [timeLeft EXCEPT ![r] = NoClaim]
    /\ UNCHANGED <<lease, keyLeft>>

\* The handler returns, and releaseScript removes the member from every scope.
Release(r) ==
    /\ step[r] = "running"
    /\ step' = [step EXCEPT ![r] = "ended"]
    /\ lease' = [s \in Scopes |-> [lease[s] EXCEPT ![r] = 0]]
    /\ timeLeft' = [timeLeft EXCEPT ![r] = NoClaim]
    /\ UNCHANGED keyLeft

\* The replica stops, or the release fails: the lease stays.
Abandon(r) ==
    /\ step[r] = "running"
    /\ step' = [step EXCEPT ![r] = "ended"]
    /\ UNCHANGED <<lease, keyLeft, timeLeft>>

\* Time passes; a handler returns within Buffer of its deadline.
Tick ==
    /\ \A r \in Requests : step[r] = "running" => timeLeft[r] + Buffer > 1
    /\ lease' = [s \in Scopes |-> [r \in Requests |-> Max({0, lease[s][r] - 1})]]
    /\ keyLeft' = [s \in Scopes |-> Max({0, keyLeft[s] - 1})]
    /\ timeLeft' = [r \in Requests |-> Max({NoClaim, timeLeft[r] - 1})]
    /\ UNCHANGED step

Next ==
    \/ \E r \in Requests :
        \/ Start(r) \/ Refuse(r) \/ Unavailable(r) \/ Release(r) \/ Abandon(r)
        \/ \E answered \in BOOLEAN : Grant(r, answered)
    \/ Tick

Spec == Init /\ [][Next]_vars
-----------------------------------------------------------------------------
Running(s) == {r \in Requests : step[r] = "running" /\ s \in ScopesOf[r]}

(***************************************************************************)
(* No more requests run in a scope than its limit: a lease outlives its    *)
(* request, whatever expires first ("Model/customer permits span the full  *)
(* request, including every fallback and stream", admitRequestConcurrency).*)
(***************************************************************************)
CapHeld == \A s \in Scopes : Cardinality(Running(s)) <= Limit[s]

\* A live lease is in all the scopes of its request or in none: the script checks
\* every scope before it adds to any.
AllOrNothing ==
    \A r \in Requests : \A s, t \in ScopesOf[r] : r \in Members(s) => r \in Members(t)

(***************************************************************************)
(* A full scope is full of requests that run, or that failed or stopped    *)
(* with a lease not long ago: a lost answer, a failed release or a crash   *)
(* costs its slot for a bounded time (Lease.Release).                      *)
(***************************************************************************)
SlotsComeBack ==
    \A r \in Requests : \A s \in FullScopes(r) :
        Limit[s] <= Cardinality({m \in Requests \ {r} :
            s \in ScopesOf[m] /\ step[m] # "started" /\ timeLeft[m] > NoClaim})
=============================================================================
