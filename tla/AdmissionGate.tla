--------------------------- MODULE AdmissionGate ---------------------------
(***************************************************************************)
(* The process-wide admission gate of internal/admission/gate.go and the   *)
(* middleware that holds its permit (internal/server/server.go).           *)
(*                                                                         *)
(* slots and queue are the numbers of tokens in the two buffered channels, *)
(* inFlight and queued the two atomics that Stats() reports.  Channel and  *)
(* atomic operations are separate steps: the counters trail the channels.  *)
(***************************************************************************)
EXTENDS Naturals, FiniteSets

CONSTANTS
    Callers,      \* requests that pass through admissionMiddleware
    MaxInFlight,  \* cap(g.slots); New returns no gate unless it is positive
    MaxQueued,    \* cap(g.queue)
    CanWait       \* g.queueTimeout > 0

ASSUME GateAssumption ==
    /\ IsFiniteSet(Callers)
    /\ MaxInFlight \in Nat \ {0}
    /\ MaxQueued \in Nat
    /\ CanWait \in BOOLEAN

VARIABLES
    slots, queue, inFlight, queued,
    pc,       \* where each caller is inside Acquire, the handler or Release
    outcome   \* Decision.Outcome, "none" until Acquire has decided

vars == <<slots, queue, inFlight, queued, pc, outcome>>

Locations == {"idle", "entered", "full", "enqueued", "waiting", "granted",
              "leaving", "left", "running", "released", "done"}

Outcomes == {"none", "admitted", "queue_full", "queue_timeout", "canceled"}

(***************************************************************************)
(* Callers between these locations have a token in the respective channel, *)
(* or have been added to the respective counter and not yet taken out.     *)
(***************************************************************************)
SlotHolders == {p \in Callers : \/ pc[p] \in {"granted", "running"}
                                \/ pc[p] \in {"leaving", "left"} /\ outcome[p] = "admitted"}
QueueHolders == {p \in Callers : \/ pc[p] \in {"enqueued", "waiting", "leaving"}
                                 \/ pc[p] = "granted" /\ outcome[p] = "none"}
InFlightCounted == {p \in Callers : \/ pc[p] \in {"running", "released"}
                                    \/ pc[p] \in {"leaving", "left"} /\ outcome[p] = "admitted"}
QueuedCounted == {p \in Callers : \/ pc[p] \in {"waiting", "leaving", "left"}
                                  \/ pc[p] = "granted" /\ outcome[p] = "none"}

Goto(p, l) == pc' = [pc EXCEPT ![p] = l]
Decide(p, o) == outcome' = [outcome EXCEPT ![p] = o]

Init ==
    /\ slots = 0 /\ queue = 0 /\ inFlight = 0 /\ queued = 0
    /\ pc = [p \in Callers |-> "idle"]
    /\ outcome = [p \in Callers |-> "none"]

Enter(p) ==
    /\ pc[p] = "idle"
    /\ Goto(p, "entered")
    /\ UNCHANGED <<slots, queue, inFlight, queued, outcome>>

\* The first select of Acquire: a free slot is taken at once.  The decision is
\* fixed here; a caller granted a slot from the queue is decided in Count.
TrySlot(p) ==
    /\ pc[p] = "entered"
    /\ \/ /\ slots < MaxInFlight
          /\ slots' = slots + 1
          /\ Goto(p, "granted") /\ Decide(p, "admitted")
       \/ /\ slots = MaxInFlight
          /\ Goto(p, "full")
          /\ UNCHANGED <<slots, outcome>>
    /\ UNCHANGED <<queue, inFlight, queued>>

\* The capacity and timeout test, then the second select.
TryQueue(p) ==
    /\ pc[p] = "full"
    /\ \/ /\ MaxQueued > 0 /\ CanWait /\ queue < MaxQueued
          /\ queue' = queue + 1
          /\ Goto(p, "enqueued")
          /\ UNCHANGED outcome
       \/ /\ MaxQueued = 0 \/ ~CanWait \/ queue = MaxQueued
          /\ Goto(p, "done") /\ Decide(p, "queue_full")
          /\ UNCHANGED queue
    /\ UNCHANGED <<slots, inFlight, queued>>

CountQueued(p) ==
    /\ pc[p] = "enqueued"
    /\ queued' = queued + 1
    /\ Goto(p, "waiting")
    /\ UNCHANGED <<slots, queue, inFlight, outcome>>

\* Mutant of Granted: the slot bound is off by one for a caller from the queue.
GrantedOneTooMany(p) ==
    /\ pc[p] = "waiting"
    /\ slots <= MaxInFlight
    /\ slots' = slots + 1
    /\ Goto(p, "granted")
    /\ UNCHANGED <<queue, inFlight, queued, outcome>>

\* The third select: whichever of slot, timer and context is ready.
Granted(p) ==
    /\ pc[p] = "waiting"
    /\ slots < MaxInFlight
    /\ slots' = slots + 1
    /\ Goto(p, "granted")
    /\ UNCHANGED <<queue, inFlight, queued, outcome>>

\* Mutant of QueueTimeout: the waiter has no timer.
QueueTimeoutNever(p) == FALSE /\ pc[p] = "waiting" /\ UNCHANGED vars

QueueTimeout(p) ==
    /\ pc[p] = "waiting"
    /\ Goto(p, "leaving") /\ Decide(p, "queue_timeout")
    /\ UNCHANGED <<slots, queue, inFlight, queued>>

Canceled(p) ==
    /\ pc[p] = "waiting"
    /\ Goto(p, "leaving") /\ Decide(p, "canceled")
    /\ UNCHANGED <<slots, queue, inFlight, queued>>

\* inFlight.Add(1) after either slot send; the queued caller still has its
\* deferred queue exit to run.
Count(p) ==
    /\ pc[p] = "granted"
    /\ inFlight' = inFlight + 1
    /\ IF outcome[p] = "none" THEN Goto(p, "leaving") ELSE Goto(p, "running")
    /\ Decide(p, "admitted")
    /\ UNCHANGED <<slots, queue, queued>>

\* Mutant of LeaveQueue: only an admitted caller gives its queue token back.
LeaveQueueIfAdmitted(p) ==
    /\ pc[p] = "leaving"
    /\ queue' = IF outcome[p] = "admitted" THEN queue - 1 ELSE queue
    /\ Goto(p, "left")
    /\ UNCHANGED <<slots, inFlight, queued, outcome>>

\* The deferred function of a caller that queued: <-g.queue, then queued.Add(-1).
LeaveQueue(p) ==
    /\ pc[p] = "leaving"
    /\ queue > 0
    /\ queue' = queue - 1
    /\ Goto(p, "left")
    /\ UNCHANGED <<slots, inFlight, queued, outcome>>

UncountQueued(p) ==
    /\ pc[p] = "left"
    /\ queued' = queued - 1
    /\ Goto(p, IF outcome[p] = "admitted" THEN "running" ELSE "done")
    /\ UNCHANGED <<slots, queue, inFlight, outcome>>

\* Permit.Release, deferred by admissionMiddleware around next.ServeHTTP:
\* <-slots, then inFlight.Add(-1), once.
Release(p) ==
    /\ pc[p] = "running"
    /\ slots > 0
    /\ slots' = slots - 1
    /\ Goto(p, "released")
    /\ UNCHANGED <<queue, inFlight, queued, outcome>>

Uncount(p) ==
    /\ pc[p] = "released"
    /\ inFlight' = inFlight - 1
    /\ Goto(p, "done")
    /\ UNCHANGED <<slots, queue, queued, outcome>>

\* The caller's goroutine takes a next request.
Reset(p) ==
    /\ pc[p] = "done"
    /\ Goto(p, "idle") /\ Decide(p, "none")
    /\ UNCHANGED <<slots, queue, inFlight, queued>>

\* The steps of the caller's goroutine inside Acquire and Permit.Release.  When
\* the handler returns, and so calls Release, is up to the upstream.
Step(p) ==
    \/ TrySlot(p) \/ TryQueue(p) \/ CountQueued(p) \/ Granted(p) \/ Count(p)
    \/ LeaveQueue(p) \/ UncountQueued(p) \/ Uncount(p)

Next == \E p \in Callers :
    Enter(p) \/ Step(p) \/ Release(p) \/ QueueTimeout(p) \/ Canceled(p) \/ Reset(p)

Spec == Init /\ [][Next]_vars

\* Goroutines run, the queue timer fires; nobody has to send or cancel requests.
Fairness == \A p \in Callers : WF_vars(Step(p)) /\ WF_vars(QueueTimeout(p))

FairSpec == Spec /\ Fairness
-----------------------------------------------------------------------------
TypeOK ==
    /\ slots \in 0..MaxInFlight /\ queue \in 0..MaxQueued
    /\ inFlight \in Nat /\ queued \in Nat
    /\ pc \in [Callers -> Locations]
    /\ outcome \in [Callers -> Outcomes]

\* No handler runs without a slot: never more than MaxInFlight at once,
\* whatever the queue, timers and cancellations do (gate.go:73-116).
AtMostMaxInFlight == Cardinality({p \in Callers : pc[p] = "running"}) <= MaxInFlight

\* Every token belongs to exactly one caller on its way through the gate: no
\* path through Acquire and Release leaks or steals capacity.
TokensAccounted ==
    /\ slots = Cardinality(SlotHolders)
    /\ queue = Cardinality(QueueHolders)

\* What Stats() reports is exact up to callers between a channel operation and
\* its atomic.Add (gate.go:83-84, 95-96, 101-102, 206-207).
StatsAccounted ==
    /\ inFlight = Cardinality(InFlightCounted)
    /\ queued = Cardinality(QueuedCounted)

\* The receives <-g.queue and <-slots of the deferred exits never block.
ExitsNeverBlock ==
    \A p \in Callers : /\ pc[p] = "leaving" => queue > 0
                       /\ pc[p] = "running" => slots > 0

(***************************************************************************)
(* The invariant of the gate: no path through Acquire and Release, whatever*)
(* timers and cancellations do, leaks or steals a token, miscounts, admits *)
(* one handler too many or blocks on its way out.                          *)
(***************************************************************************)
GateAccounted ==
    TypeOK /\ AtMostMaxInFlight /\ TokensAccounted /\ StatsAccounted /\ ExitsNeverBlock

\* The gate is a counting semaphore of MaxInFlight permits: the callers that
\* occupy a slot change one at a time and never exceed the limit.
Permits == INSTANCE BoundedPermits WITH
    Clients <- Callers, Limit <- MaxInFlight, held <- SlotHolders
ImplementsPermits == Permits!Spec

\* Acquire ends for every caller: the queue timer bounds the wait.
EveryAcquireDecides ==
    \A p \in Callers : (pc[p] = "entered") ~> (pc[p] \in {"running", "done"})
=============================================================================
