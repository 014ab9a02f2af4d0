------------------------- MODULE DeploymentRegistry -------------------------
(***************************************************************************)
(* The in-memory registry of one replica: the deployments loaded from the  *)
(* database, and one concurrency counter per deployment that outlives the  *)
(* refreshes.  Administration handlers change a row and refresh; requests  *)
(* resolve a deployment, take a permit of its counter and release it.      *)
(***************************************************************************)
EXTENDS Integers, FiniteSets

CONSTANTS
    Deployments,
    Requests,
    Handlers,
    Limits,        \* the values of max_parallel_requests, 0 for unlimited
    MaxChanges,    \* bound on the row changes
    MaxCounters    \* bound on the counters ever allocated

Absent == -1
NoCounter == 0
Counters == 1..MaxCounters

VARIABLES
    rows,         \* the deployments table: each deployment's limit, or Absent
    changes,      \* the number of row changes so far
    handler,      \* step and rows read by each administration handler
    registered,   \* Registry.deployments
    counterOf,    \* Registry.deploymentLimits
    limit,        \* Counter.limit
    inFlight,     \* Counter.inFlight
    allocated,    \* the number of counters allocated
    request       \* step, deployment, counter and the loaded inFlight of each request

vars == <<rows, changes, handler, registered, counterOf, limit, inFlight, allocated, request>>

Rows == [Deployments -> Limits \cup {Absent}]
Idle == [step |-> "idle"]
Permits(c) == {p \in Requests : request[p].step = "held" /\ request[p].counter = c}
Outstanding(d) == {p \in Requests : request[p].step = "held" /\ request[p].dep = d}

TypeOK ==
    /\ rows \in Rows /\ registered \in Rows
    /\ changes \in 0..MaxChanges /\ allocated \in 0..MaxCounters
    /\ counterOf \in [Deployments -> 0..allocated]
    /\ limit \in [Counters -> Limits]
    /\ inFlight \in [Counters -> 0..Cardinality(Requests)]
    /\ \A h \in Handlers : handler[h] \in
        {Idle, [step |-> "changed"]} \cup [step : {"read"}, rows : Rows]
    /\ \A p \in Requests : request[p] \in {Idle}
        \cup [step : {"resolved"}, dep : Deployments]
        \cup [step : {"loaded"}, dep : Deployments, counter : Counters, current : Nat]
        \cup [step : {"held", "released"}, dep : Deployments, counter : Counters]

\* Mutant of KeptCounter: a refresh drops the counters of all deployments that left.
KeptCounterForgets(newDep, d) == counterOf[d] # NoCounter /\ newDep[d] # Absent

\* The counters after a swap to newDep: one per deployment of newDep, the old one
\* where there is one, and the counters still in use of the deployments that left.
KeptCounter(newDep, d) ==
    /\ counterOf[d] # NoCounter
    /\ newDep[d] # Absent \/ inFlight[counterOf[d]] # 0

\* New loads the tables before the replica serves.
Init ==
    LET present == {d \in Deployments : rows[d] # Absent}
    IN  /\ rows \in Rows
        /\ changes = 0
        /\ handler = [h \in Handlers |-> Idle]
        /\ registered = rows
        /\ allocated = Cardinality(present)
        /\ counterOf \in {ids \in [Deployments -> 0..allocated] :
            {ids[d] : d \in present} = 1..allocated
            /\ \A d \in Deployments \ present : ids[d] = NoCounter}
        /\ limit = [c \in Counters |->
            IF c <= allocated THEN rows[CHOOSE d \in present : counterOf[d] = c]
            ELSE CHOOSE l \in Limits : TRUE]
        /\ inFlight = [c \in Counters |-> 0]
        /\ request = [p \in Requests |-> Idle]

\* What a handler that has changed the row of d does next is refresh the registry.
WriteRow(h, d, l) ==
    /\ handler[h] = Idle /\ changes < MaxChanges
    /\ rows' = [rows EXCEPT ![d] = l]
    /\ changes' = changes + 1
    /\ handler' = [handler EXCEPT ![h] = [step |-> "changed"]]
    /\ UNCHANGED <<registered, counterOf, limit, inFlight, allocated, request>>

\* CreateDeployment, and UpdateDeployment when there is a row; both upsert it.
PutDeployment(h) == \E d \in Deployments : \E l \in Limits \ {rows[d]} : WriteRow(h, d, l)

DeleteDeployment(h) == \E d \in Deployments : rows[d] # Absent /\ WriteRow(h, d, Absent)

\* Refresh reads the tables before it takes the registry's lock.
ReadRows(h) ==
    /\ handler[h].step = "changed"
    /\ handler' = [handler EXCEPT ![h] = [step |-> "read", rows |-> rows]]
    /\ UNCHANGED <<rows, changes, registered, counterOf, limit, inFlight, allocated, request>>

\* A failed or cancelled query leaves the registry as it is; the handler ignores it.
RefreshFails(h) ==
    /\ handler[h].step = "changed"
    /\ handler' = [handler EXCEPT ![h] = Idle]
    /\ UNCHANGED <<rows, changes, registered, counterOf, limit, inFlight, allocated, request>>

\* TryAcquireDeployment holds the registry's read lock from its load to its swap.
ReadLocked == \E p \in Requests : request[p].step = "loaded"

\* Mutant of SetLimits: only a new counter gets the configured limit.
SetLimitsNew(newDep, ids) ==
    [c \in Counters |->
        IF \E d \in Deployments : newDep[d] # Absent /\ ids[d] = c /\ counterOf[d] # c
        THEN newDep[CHOOSE d \in Deployments : ids[d] = c] ELSE limit[c]]

\* SetLimit on the counters that stay, NewCounter for the deployments without one.
SetLimits(newDep, ids) ==
    [c \in Counters |->
        IF \E d \in Deployments : newDep[d] # Absent /\ ids[d] = c
        THEN newDep[CHOOSE d \in Deployments : ids[d] = c] ELSE limit[c]]

\* The counters by deployment: those kept, and fresh ones for the others of newDep.
NextCounters(newDep) ==
    {ids \in [Deployments -> 0..MaxCounters] :
        LET fresh == {d \in Deployments : newDep[d] # Absent /\ ~KeptCounter(newDep, d)}
        IN  /\ \A d \in Deployments \ fresh :
                ids[d] = IF KeptCounter(newDep, d) THEN counterOf[d] ELSE NoCounter
            /\ {ids[d] : d \in fresh} = (allocated + 1)..(allocated + Cardinality(fresh))}

Swap(h) ==
    /\ handler[h].step = "read" /\ ~ReadLocked
    /\ \E ids \in NextCounters(handler[h].rows) :
        /\ counterOf' = ids
        /\ limit' = SetLimits(handler[h].rows, ids)
        /\ allocated' = allocated +
            Cardinality({d \in Deployments : ids[d] > allocated})
    /\ registered' = handler[h].rows
    /\ handler' = [handler EXCEPT ![h] = Idle]
    /\ UNCHANGED <<rows, changes, inFlight, request>>

\* The router hands out a deployment of the registry.
Resolve(p) ==
    /\ request[p] = Idle
    /\ \E d \in {e \in Deployments : registered[e] # Absent} :
        request' = [request EXCEPT ![p] = [step |-> "resolved", dep |-> d]]
    /\ UNCHANGED <<rows, changes, handler, registered, counterOf, limit, inFlight, allocated>>

Loaded(p, c) ==
    [step |-> "loaded", dep |-> request[p].dep, counter |-> c, current |-> inFlight[c]]

\* The first half of Counter.TryAcquire; without a counter the deployment is refused.
Load(p) ==
    /\ request[p].step = "resolved"
    /\ LET c == counterOf[request[p].dep]
       IN  request' = [request EXCEPT ![p] = IF c = NoCounter THEN Idle ELSE Loaded(p, c)]
    /\ UNCHANGED <<rows, changes, handler, registered, counterOf, limit, inFlight, allocated>>

Full(c, current) == limit[c] > 0 /\ current >= limit[c]

\* The second half: saturated, taken, or again because inFlight moved in between.
CompareAndSwap(p) ==
    /\ request[p].step = "loaded"
    /\ LET c == request[p].counter
           n == request[p].current
           held == [step |-> "held", dep |-> request[p].dep, counter |-> c]
       IN  \/ Full(c, n) /\ request' = [request EXCEPT ![p] = Idle] /\ UNCHANGED inFlight
           \/ /\ ~Full(c, n) /\ inFlight[c] = n
              /\ inFlight' = [inFlight EXCEPT ![c] = n + 1]
              /\ request' = [request EXCEPT ![p] = held]
           \/ /\ ~Full(c, n) /\ inFlight[c] # n
              /\ request' = [request EXCEPT ![p] = Loaded(p, c)]
              /\ UNCHANGED inFlight
    /\ UNCHANGED <<rows, changes, handler, registered, counterOf, limit, allocated>>

\* The explicit release, then the deferred one that the sync.Once makes a no-op.
Release(p) ==
    /\ request[p].step \in {"held", "released"}
    /\ IF request[p].step = "held"
       THEN /\ inFlight' = [inFlight EXCEPT ![request[p].counter] = @ - 1]
            /\ request' = [request EXCEPT ![p].step = "released"]
       ELSE /\ request' = [request EXCEPT ![p] = Idle]
            /\ UNCHANGED inFlight
    /\ UNCHANGED <<rows, changes, handler, registered, counterOf, limit, allocated>>

Next ==
    \/ \E h \in Handlers : PutDeployment(h) \/ DeleteDeployment(h)
        \/ ReadRows(h) \/ RefreshFails(h) \/ Swap(h)
    \/ \E p \in Requests : Resolve(p) \/ Load(p) \/ CompareAndSwap(p) \/ Release(p)

Spec == Init /\ [][Next]_vars
-----------------------------------------------------------------------------
(***************************************************************************)
(* The counter of every live permit is the one the registry consults, and  *)
(* it counts exactly the live permits: "a hot configuration update never   *)
(* forgets work already in flight" (Refresh).                              *)
(***************************************************************************)
WorkIsCounted ==
    /\ \A c \in Counters : inFlight[c] = Cardinality(Permits(c))
    /\ \A d \in Deployments, p \in Requests :
        p \in Outstanding(d) => request[p].counter = counterOf[d]

\* A registered deployment has a counter with the registered limit (Refresh swaps both
\* under one lock).
LimitsAreRegistered ==
    \A d \in Deployments : registered[d] # Absent =>
        counterOf[d] # NoCounter /\ limit[counterOf[d]] = registered[d]

(***************************************************************************)
(* A permit is granted only while the deployment's outstanding permits, of *)
(* every counter it ever had, are under the registered limit: a lowered    *)
(* limit and an "immediate remove/re-add cycle" are safe (Refresh,         *)
(* TryAcquireDeployment).                                                  *)
(***************************************************************************)
NoGrantAboveLimit ==
    \A p \in Requests :
        (request[p].step # "held" /\ request'[p].step = "held") =>
            LET d == request[p].dep
            IN  registered[d] > 0 => Cardinality(Outstanding(d)) < registered[d]
=============================================================================
