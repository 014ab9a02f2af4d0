--------------------------- MODULE RequestRouting ---------------------------
(***************************************************************************)
(* How requests for one model alias find an upstream: the choice of a      *)
(* deployment by priority, health and weight or price, the local permit,   *)
(* the provider's lease and the started marker that an attempt needs, and  *)
(* the fallback to the next deployment when one of them is refused or the  *)
(* attempt fails.                                                          *)
(***************************************************************************)
EXTENDS Integers, FiniteSets

CONSTANTS
    Requests,
    Streams,         \* the requests that stream
    Guarded,         \* the requests with a guardrail
    Deployments,
    Priority,        \* of each deployment in the alias
    Matching,        \* of each request: what is enabled, capable and of its tags and region
    Provider,        \* of each deployment
    Unguarded,       \* the providers that guardrails do not support
    LocalLimit,      \* of each deployment, 0 for none
    LeaseLimit       \* of each provider

ASSUME RoutingAssumption ==
    /\ Streams \subseteq Requests /\ Guarded \subseteq Requests
    /\ Priority \in [Deployments -> Int]
    /\ Matching \in [Requests -> SUBSET Deployments]

AnyDeployment == CHOOSE d \in Deployments : TRUE
Providers == {Provider[d] : d \in Deployments}

VARIABLES
    open,        \* the deployments whose circuit is open
    inFlight,    \* local permits taken, by deployment
    leases,      \* the requests that hold a lease, by provider
    request      \* step, deployments tried, target, last error, saturation, marker

vars == <<open, inFlight, leases, request>>

Outcomes == {"none", "ok", "upstream", "concurrency", "saturated", "unhealthy",
             "unavailable", "accounting", "guardrail", "cancelled"}

TypeOK ==
    /\ open \subseteq Deployments
    /\ inFlight \in [Deployments -> 0..Cardinality(Requests)]
    /\ leases \in [Providers -> SUBSET Requests]
    /\ request \in [Requests -> [
        step : {"resolve", "local", "lease", "mark", "call", "stream", "done"},
        tried : SUBSET Deployments, target : Deployments, lastErr : Outcomes,
        saturated : BOOLEAN, started : BOOLEAN, cancelled : BOOLEAN, outcome : Outcomes]]

Init ==
    /\ open = {}
    /\ inFlight = [d \in Deployments |-> 0]
    /\ leases = [p \in Providers |-> {}]
    /\ request = [r \in Requests |->
        [step |-> "resolve", tried |-> {}, target |-> AnyDeployment,
         lastErr |-> "none", saturated |-> FALSE, started |-> FALSE, cancelled |-> FALSE,
         outcome |-> "none"]]
-----------------------------------------------------------------------------
Eligible(r) == Matching[r] \ request[r].tried
Band(set) == {d \in set : \A e \in set : Priority[d] <= Priority[e]}

\* Mutant of Candidates: a band is taken whole before the health of the next is looked at.
CandidatesBandFirst(r) ==
    LET band == Band(Eligible(r))
    IN  IF band \ open # {} THEN band \ open ELSE band

\* The first band with a healthy deployment, or else the first band with any.
Candidates(r) ==
    IF Eligible(r) \ open # {} THEN Band(Eligible(r) \ open) ELSE Band(Eligible(r))

End(r, outcome) ==
    [request[r] EXCEPT !.step = "done", !.outcome = outcome, !.tried = {},
        !.target = AnyDeployment, !.lastErr = "none", !.saturated = FALSE, !.cancelled = FALSE]


Exhausted(r) ==
    IF request[r].lastErr # "none" THEN request[r].lastErr
    ELSE IF request[r].saturated THEN "saturated" ELSE "unhealthy"

\* Mutant of Choose: the deployment is marked as tried only when it is called.
ChooseUntried(r, d) ==
    request' = [request EXCEPT ![r].target = d, ![r].step =
        IF r \in Guarded /\ Provider[d] \in Unguarded THEN "done" ELSE "local"]

\* A guarded request never falls back from a provider without guardrail support.
Choose(r, d) ==
    LET chosen == [request[r] EXCEPT !.target = d, !.tried = @ \cup {d}]
    IN  request' = [request EXCEPT ![r] =
            IF r \in Guarded /\ Provider[d] \in Unguarded
            THEN End(r, "guardrail")
            ELSE [chosen EXCEPT !.step = "local"]]

(***************************************************************************)
(* ResolveWithContext and the head of the fallback loop; streams look at   *)
(* their context first.  All requests for the alias share the round-robin  *)
(* counter, so it may be the turn of any candidate (DeploymentSelection    *)
(* says which).                                                            *)
(***************************************************************************)
Resolve(r) ==
    /\ request[r].step = "resolve"
    /\ \/ /\ r \in Streams /\ request[r].cancelled
          /\ request' = [request EXCEPT ![r] = End(r, "cancelled")]
       \/ /\ ~(r \in Streams /\ request[r].cancelled)
          /\ \/ /\ Candidates(r) = {}
                /\ request' = [request EXCEPT ![r] = End(r, Exhausted(r))]
             \/ \E d \in Candidates(r) : Choose(r, d)
    /\ UNCHANGED <<open, inFlight, leases>>
-----------------------------------------------------------------------------
Target(r) == request[r].target

TryAcquireDeployment(r) ==
    LET d == Target(r)
    IN  /\ request[r].step = "local"
        /\ IF LocalLimit[d] > 0 /\ inFlight[d] >= LocalLimit[d]
           THEN /\ request' = [request EXCEPT ![r].saturated = TRUE, ![r].step = "resolve"]
                /\ UNCHANGED inFlight
           ELSE /\ inFlight' = [inFlight EXCEPT ![d] = @ + 1]
                /\ request' = [request EXCEPT ![r].step = "lease"]
        /\ UNCHANGED <<open, leases>>

\* Mutant of FreeLocal: the deferred release counts again.
FreeLocalTwice(r) == inFlight' = [inFlight EXCEPT ![Target(r)] = @ - 2]

FreeLocal(r) == inFlight' = [inFlight EXCEPT ![Target(r)] = @ - 1]
FreeLease(r) == leases' = [leases EXCEPT ![Provider[Target(r)]] = @ \ {r}]

\* The provider's cap refuses, which lets the request fall back, or cannot be checked.
AcquireRoutingScope(r) ==
    LET p == Provider[Target(r)]
    IN  /\ request[r].step = "lease"
        /\ \/ /\ Cardinality(leases[p]) < LeaseLimit[p]
              /\ leases' = [leases EXCEPT ![p] = @ \cup {r}]
              /\ request' = [request EXCEPT ![r].step = "mark"]
              /\ UNCHANGED inFlight
           \/ /\ Cardinality(leases[p]) >= LeaseLimit[p]
              /\ request' = [request EXCEPT ![r].lastErr = "concurrency", ![r].step = "resolve"]
              /\ FreeLocal(r) /\ UNCHANGED leases
           \/ /\ request' = [request EXCEPT ![r] = End(r, "unavailable")]
              /\ FreeLocal(r) /\ UNCHANGED leases
        /\ UNCHANGED <<open>>

\* Mutant of MarkStarted: a failure frees the lease alone.
MarkKeepsLocal(r) ==
    /\ request[r].step = "mark"
    /\ \/ /\ request' = [request EXCEPT ![r].started = TRUE, ![r].step = "call"]
          /\ UNCHANGED <<inFlight, leases>>
       \/ /\ request' = [request EXCEPT ![r] = End(r, "accounting")]
          /\ FreeLease(r) /\ UNCHANGED inFlight
    /\ UNCHANGED <<open>>

MarkStarted(r) ==
    /\ request[r].step = "mark"
    /\ \/ /\ request' = [request EXCEPT ![r].started = TRUE, ![r].step = "call"]
          /\ UNCHANGED <<inFlight, leases>>
       \/ /\ request' = [request EXCEPT ![r] = End(r, "accounting")]
          /\ FreeLease(r) /\ FreeLocal(r)
    /\ UNCHANGED <<open>>

\* The attempt succeeds; a stream keeps its permit.
CallSucceeds(r) ==
    /\ request[r].step = "call"
    /\ IF r \in Streams
       THEN /\ request' = [request EXCEPT ![r].step = "stream"]
            /\ UNCHANGED <<inFlight, leases>>
       ELSE /\ request' = [request EXCEPT ![r] = End(r, "ok")]
            /\ FreeLease(r) /\ FreeLocal(r)
    /\ UNCHANGED <<open>>

\* An error that can be retried falls back, unless the request itself is cancelled.
CallFails(r) ==
    /\ request[r].step = "call"
    /\ \/ ~request[r].cancelled
          /\ request' = [request EXCEPT ![r].lastErr = "upstream", ![r].step = "resolve"]
       \/ request' = [request EXCEPT ![r] = End(r, "upstream")]
    /\ FreeLease(r) /\ FreeLocal(r)
    /\ UNCHANGED <<open>>

\* Whatever its end, a stream that was begun is not tried again.
StreamEnds(r) ==
    /\ request[r].step = "stream"
    /\ \E outcome \in {"ok", "upstream"} : request' = [request EXCEPT ![r] = End(r, outcome)]
    /\ FreeLease(r) /\ FreeLocal(r)
    /\ UNCHANGED <<open>>

CancelRequest(r) ==
    /\ ~request[r].cancelled /\ request[r].step # "done"
    /\ request' = [request EXCEPT ![r].cancelled = TRUE]
    /\ UNCHANGED <<open, inFlight, leases>>

\* The circuit of a deployment opens, by this or another replica's failures, and closes.
Circuit(d) ==
    /\ open' = IF d \in open THEN open \ {d} ELSE open \cup {d}
    /\ UNCHANGED <<inFlight, leases, request>>

Work(r) ==
    \/ Resolve(r) \/ TryAcquireDeployment(r) \/ AcquireRoutingScope(r) \/ MarkStarted(r)
    \/ CallSucceeds(r) \/ CallFails(r) \/ StreamEnds(r)

Next ==
    \/ \E r \in Requests : Work(r) \/ CancelRequest(r)
    \/ \E d \in Deployments : Circuit(d)

Spec == Init /\ [][Next]_vars

\* Handlers run, and attempts and streams have timeouts.
FairSpec == Spec /\ \A r \in Requests : WF_vars(Work(r))
-----------------------------------------------------------------------------
(***************************************************************************)
(* Permits and leases are held exactly by the attempts under way: every    *)
(* refusal, failure and end of tryAcquireUpstream and of the fallback      *)
(* loops gives back what was taken before it.                              *)
(***************************************************************************)
NothingLeaks ==
    /\ TypeOK
    /\ \A d \in Deployments : inFlight[d] = Cardinality({r \in Requests :
        request[r].step \in {"lease", "mark", "call", "stream"} /\ Target(r) = d})
    /\ \A p \in Providers : leases[p] = {r \in Requests :
        request[r].step \in {"mark", "call", "stream"} /\ Provider[Target(r)] = p}


(***************************************************************************)
(* A deployment with an open circuit is chosen only when every other one   *)
(* that is left is open too, and among the healthy ones the lowest         *)
(* priority goes first (ResolveWithContext).                               *)
(***************************************************************************)
HealthyFirst ==
    [][\A r \in Requests : \A d \in request'[r].tried \ request[r].tried :
        \A e \in Eligible(r) \ open : d \notin open /\ Priority[d] <= Priority[e]]_vars

\* Every request ends: the fallback loop runs out of deployments.
EveryRequestEnds == \A r \in Requests : <>(request[r].step = "done")
=============================================================================
