---------------------------- MODULE RequestEntry ----------------------------
(***************************************************************************)
(* The middleware around every /v1 and /passthrough handler, in the order  *)
(* server.New stacks it: registration for shutdown, the deadline, the      *)
(* admission gate, the second look at draining, authentication, the        *)
(* tenant's concurrency scopes.  A keep-alive connection sends one request *)
(* after another; each enters layer by layer, is turned away by one of     *)
(* them or reaches its handler, and unwinds through the deferred functions *)
(* of the layers it entered, innermost first.  Two of them wait for a      *)
(* callback that context.AfterFunc may have started on a goroutine of its  *)
(* own.  The gate's queue is AdmissionGate's and the leases' lifetimes are *)
(* LeaseLimiter's; here both are sets with a limit.                        *)
(***************************************************************************)
EXTENDS Integers, FiniteSets

CONSTANTS Conns,
          Callers,      \* [team, key, keyId, user, account: a limit or 0; keyId: 0 for a JWT]
          Slots,        \* the gate's capacity
          MaxServed     \* bound: requests per connection

VARIABLES stage,        \* the innermost layer each connection's request has entered
          unwinding,    \* it is on its way out
          caller,       \* who it authenticated as
          ctx,          \* its context: "live" or "over"
          deadline,     \* deadlineMiddleware's AfterFunc
          cancel,       \* inferenceLifecycle's AfterFunc on the server's context
          served,       \* requests the connection has finished
          touched,      \* requests whose connection a callback changed after they had ended
          active,       \* activeRequests
          slots,        \* the connections that hold a permit of the gate
          lease,        \* the scopes each connection holds a lease in
          draining, stopping,
          queuedAtDrain \* connections that were in the gate's queue when draining began

entryVars == <<stage, unwinding, caller, ctx, deadline, cancel, served, touched, active, slots,
               lease, draining, stopping, queuedAtDrain>>

Nobody == [team |-> 0, key |-> 0, keyId |-> 0, user |-> 0, account |-> 0]

\* The layers from the outside in: "idle", "registered", "timed", "gate" (waits
\* for its permit), "permitted", "checked", "known", "handler".
HasDeadline(c) == stage[c] \notin {"idle", "registered"}

EntryInit ==
    /\ stage = [c \in Conns |-> "idle"]
    /\ unwinding = [c \in Conns |-> FALSE]
    /\ caller = [c \in Conns |-> Nobody]
    /\ ctx = [c \in Conns |-> "live"]
    /\ deadline = [c \in Conns |-> "unset"]
    /\ cancel = [c \in Conns |-> "unset"]
    /\ served = [c \in Conns |-> 0]
    /\ touched = {}
    /\ active = 0
    /\ slots = {}
    /\ lease = [c \in Conns |-> {}]
    /\ draining = FALSE /\ stopping = FALSE
    /\ queuedAtDrain = {}

Enters(c, from, to) ==
    /\ stage[c] = from /\ ~unwinding[c]
    /\ stage' = [stage EXCEPT ![c] = to]
    /\ UNCHANGED <<unwinding, served, touched, draining, stopping, queuedAtDrain>>

\* A layer answers by itself: the layers already entered unwind.
TurnsAway(c, at) ==
    /\ stage[c] = at /\ ~unwinding[c]
    /\ unwinding' = [unwinding EXCEPT ![c] = TRUE]
    /\ UNCHANGED <<stage, caller, ctx, deadline, cancel, served, touched, active, slots, lease,
                   draining, stopping, queuedAtDrain>>

\* inferenceLifecycle, under requestsMu: a request that arrives while the
\* server drains is answered at once and enters nothing.
Register(c) ==
    /\ served[c] < MaxServed
    /\ ~draining
    /\ Enters(c, "idle", "registered")
    /\ active' = active + 1
    /\ ctx' = [ctx EXCEPT ![c] = "live"]
    /\ cancel' = [cancel EXCEPT ![c] = "armed"]
    /\ UNCHANGED <<caller, deadline, slots, lease>>

\* deadlineMiddleware: the timeout, and the callback that interrupts a blocked
\* upload once the context is over.
SetDeadline(c) ==
    /\ Enters(c, "registered", "timed")
    /\ deadline' = [deadline EXCEPT ![c] = IF ctx[c] = "over" THEN "running" ELSE "armed"]
    /\ UNCHANGED <<caller, ctx, cancel, active, slots, lease>>

\* admissionMiddleware: the request waits at the gate ...
Queue(c) ==
    /\ Enters(c, "timed", "gate")
    /\ UNCHANGED <<caller, ctx, deadline, cancel, active, slots, lease>>

\* ... is given a slot, or leaves (no place, the wait or the context is over).
Admit(c) ==
    /\ Cardinality(slots) < Slots
    /\ Enters(c, "gate", "permitted")
    /\ slots' = slots \cup {c}
    /\ UNCHANGED <<caller, ctx, deadline, cancel, active, lease>>

GateRefuses(c) == TurnsAway(c, "gate")

\* Mutant of RecheckDraining: the look at draining is left to registration.
RecheckNothing(c) ==
    /\ Enters(c, "permitted", "checked")
    /\ UNCHANGED <<caller, ctx, deadline, cancel, active, slots, lease>>

\* rejectDrained: draining is looked at again after the wait at the gate.
RecheckDraining(c) ==
    /\ ~draining
    /\ Enters(c, "permitted", "checked")
    /\ UNCHANGED <<caller, ctx, deadline, cancel, active, slots, lease>>

RejectDrained(c) == draining /\ TurnsAway(c, "permitted")

\* auth.Bearer names the caller or answers 401.
Authenticate(c, who) ==
    /\ Enters(c, "checked", "known")
    /\ caller' = [caller EXCEPT ![c] = who]
    /\ UNCHANGED <<ctx, deadline, cancel, active, slots, lease>>

Unauthenticated(c) == TurnsAway(c, "checked")

\* tenantConcurrencyScopes: a caller with a JWT (key 0) has no scope of its key,
\* and the owner's limit applies to a user or to a service account.
TenantConcurrencyScopes(k) ==
    (IF k.team > 0 THEN {[kind |-> "team", limit |-> k.team]} ELSE {})
        \cup (IF k.keyId > 0 /\ k.key > 0
              THEN {[kind |-> "key", id |-> k.keyId, limit |-> k.key]} ELSE {})
        \cup (IF k.user > 0 THEN {[kind |-> "user", limit |-> k.user]}
              ELSE IF k.account > 0 THEN {[kind |-> "service_account", limit |-> k.account]} ELSE {})

HasRoom(s) == Cardinality({d \in Conns : s \in lease[d]}) < s.limit

\* tenantConcurrencyMiddleware: all scopes or none.  GET /v1/models, and a
\* caller without limits, pass without a lease.
TakeLease(c) ==
    /\ \A s \in TenantConcurrencyScopes(caller[c]) : HasRoom(s)
    /\ Enters(c, "known", "handler")
    /\ lease' = [lease EXCEPT ![c] = TenantConcurrencyScopes(caller[c])]
    /\ UNCHANGED <<caller, ctx, deadline, cancel, active, slots>>

PassUnlimited(c) ==
    /\ Enters(c, "known", "handler")
    /\ UNCHANGED <<caller, ctx, deadline, cancel, active, slots, lease>>

\* A scope is full, or Redis does not answer.
NoLease(c) == TenantConcurrencyScopes(caller[c]) # {} /\ TurnsAway(c, "known")

HandlerReturns(c) == TurnsAway(c, "handler")

(***************************************************************************)
(* The way out.                                                            *)
(***************************************************************************)
Leaves(c, from, to) ==
    /\ unwinding[c] /\ stage[c] = from
    /\ stage' = [stage EXCEPT ![c] = to]
    /\ UNCHANGED <<touched, draining, stopping, queuedAtDrain>>

\* The deferred lease.Release; a member whose removal failed in Redis runs out
\* there, which is LeaseLimiter's.
ReleaseLease(c) ==
    /\ Leaves(c, "handler", "known")
    /\ lease' = [lease EXCEPT ![c] = {}]
    /\ UNCHANGED <<unwinding, caller, ctx, deadline, cancel, served, active, slots>>

\* admissionMiddleware's deferred Release; the layers between have none.
ReleasePermit(c) ==
    /\ \E from \in {"known", "checked", "permitted"} : Leaves(c, from, "gate")
    /\ slots' = slots \ {c}
    /\ caller' = [caller EXCEPT ![c] = Nobody]
    /\ UNCHANGED <<unwinding, ctx, deadline, cancel, served, active, lease>>

\* deadlineMiddleware's deferred stop: a callback that has started is waited for.
JoinDeadline(c) ==
    /\ \E from \in {"gate", "timed"} : Leaves(c, from, "registered")
    /\ deadline[c] # "running"
    /\ deadline' = [deadline EXCEPT ![c] = "unset"]
    /\ UNCHANGED <<unwinding, caller, ctx, cancel, served, active, slots, lease>>

\* inferenceLifecycle's deferred function: the same for the server's
\* cancellation, then the count.  The connection is free for its next request.
Deregister(c) ==
    /\ Leaves(c, "registered", "idle")
    /\ cancel[c] # "running"
    /\ cancel' = [cancel EXCEPT ![c] = "unset"]
    /\ active' = active - 1
    /\ unwinding' = [unwinding EXCEPT ![c] = FALSE]
    /\ served' = [served EXCEPT ![c] = @ + 1]
    /\ UNCHANGED <<caller, ctx, deadline, slots, lease>>

(***************************************************************************)
(* What happens beside the requests.                                       *)
(***************************************************************************)
Starts(f, cs) == [c \in Conns |-> IF c \in cs /\ f[c] = "armed" THEN "running" ELSE f[c]]

\* The deadline passes or the client leaves: the context is over and its
\* callback starts on a goroutine.
ContextEnds(c) ==
    /\ stage[c] # "idle" /\ ctx[c] = "live"
    /\ ctx' = [ctx EXCEPT ![c] = "over"]
    /\ deadline' = Starts(deadline, {c})
    /\ UNCHANGED <<stage, unwinding, caller, cancel, served, touched, active, slots, lease,
                   draining, stopping, queuedAtDrain>>

\* The deadline's callback sets the connection's read deadline and closes done.
\* The request it was started for is the connection's current one unless the
\* connection has gone on.
DeadlineCallback(c) ==
    /\ deadline[c] = "running"
    /\ deadline' = [deadline EXCEPT ![c] = "done"]
    /\ touched' = IF HasDeadline(c) THEN touched ELSE touched \cup {c}
    /\ UNCHANGED <<stage, unwinding, caller, ctx, cancel, served, active, slots, lease,
                   draining, stopping, queuedAtDrain>>

\* The server's callback cancels the request's context, which starts the
\* deadline's callback in its turn.
CancelCallback(c) ==
    /\ cancel[c] = "running"
    /\ cancel' = [cancel EXCEPT ![c] = "done"]
    /\ ctx' = [ctx EXCEPT ![c] = "over"]
    /\ deadline' = Starts(deadline, {c})
    /\ UNCHANGED <<stage, unwinding, caller, served, touched, active, slots, lease,
                   draining, stopping, queuedAtDrain>>

\* Drain, under requestsMu.
Drain ==
    /\ ~draining
    /\ draining' = TRUE
    /\ queuedAtDrain' = {c \in Conns : stage[c] \in {"registered", "timed", "gate"}}
    /\ UNCHANGED <<stage, unwinding, caller, ctx, deadline, cancel, served, touched, active,
                   slots, lease, stopping>>

\* Shutdown cancels the context of every request.
CancelRequests ==
    /\ draining /\ ~stopping
    /\ stopping' = TRUE
    /\ cancel' = Starts(cancel, Conns)
    /\ UNCHANGED <<stage, unwinding, caller, ctx, deadline, served, touched, active, slots,
                   lease, draining, queuedAtDrain>>

EntryNext ==
    \/ \E c \in Conns :
          \/ Register(c) \/ SetDeadline(c) \/ Queue(c) \/ Admit(c) \/ GateRefuses(c)
          \/ RecheckDraining(c) \/ RejectDrained(c)
          \/ \E who \in Callers : Authenticate(c, who)
          \/ Unauthenticated(c) \/ TakeLease(c) \/ PassUnlimited(c) \/ NoLease(c)
          \/ HandlerReturns(c) \/ ReleaseLease(c) \/ ReleasePermit(c) \/ JoinDeadline(c)
          \/ Deregister(c) \/ ContextEnds(c) \/ DeadlineCallback(c) \/ CancelCallback(c)
    \/ Drain
    \/ CancelRequests

EntrySpec == EntryInit /\ [][EntryNext]_entryVars

(***************************************************************************)
(* Properties.                                                             *)
(***************************************************************************)
\* However a request leaves, it leaves nothing behind: a connection between
\* two requests holds no permit and no lease and is not counted, and no
\* callback of an ended request is still to change the connection
\* (server.go: "Join the callback before net/http reuses the writer").
NothingOutlivesTheRequest ==
    /\ touched = {}
    /\ active = Cardinality({c \in Conns : stage[c] # "idle"})
    /\ \A c \in Conns : stage[c] = "idle" =>
          /\ c \notin slots
          /\ lease[c] = {}
          /\ deadline[c] # "running"

\* A request that was still waiting for the gate when draining began is turned
\* away before authentication and policy work, however late its permit comes
\* (lifecycle.go: "Recheck after admission queueing").
DrainedNeverServed ==
    \A c \in queuedAtDrain : stage[c] \notin {"checked", "known", "handler"}
=============================================================================
