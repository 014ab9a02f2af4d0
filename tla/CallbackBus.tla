----------------------------- MODULE CallbackBus ----------------------------
(***************************************************************************)
(* One callback of the event bus: requests that emit events to its bounded *)
(* queue, the worker that sends them, and the stop of the bus.             *)
(***************************************************************************)
EXTENDS Integers, Sequences, FiniteSets

CONSTANTS
    Events,         \* each is emitted once, by a goroutine of its own
    Capacity,       \* of the queue; 10000 in the code
    Threshold       \* failures in a row above which the circuit opens; 10

VARIABLES
    emit,           \* where Emit is for each event
    queue,
    worker,         \* "check", "select", "send", "exited"
    held,           \* the event that the worker took, or none
    delivered, failed, dropped,
    circuit,        \* failures in a row
    open,           \* openUntil is in the future
    cancelled,      \* the worker context
    stopped,
    done,           \* the channel that Start returned is closed
    late            \* history: the events taken after the cancellation

vars == <<emit, queue, worker, held, delivered, failed, dropped, circuit, open,
          cancelled, stopped, done, late>>
counters == <<delivered, failed, dropped>>
circuitVars == <<circuit, open>>
stopVars == <<cancelled, stopped, done>>
workerVars == <<worker, held, circuit, open, late>>

Inside == {e \in Events : emit[e] \in {"push", "evict", "retry"}}   \* hold mu for reading

TypeOK ==
    /\ emit \in [Events -> {"none", "push", "evict", "retry", "returned"}]
    /\ queue \in Seq(Events) /\ Len(queue) <= Capacity
    /\ worker \in {"check", "select", "send", "exited"}
    /\ held \subseteq Events /\ (worker = "send" <=> held # {})
    /\ {delivered, failed, dropped, late} \subseteq 0..Cardinality(Events)
    /\ circuit \in 0..Threshold
    /\ {open, cancelled, stopped, done} \subseteq BOOLEAN

Init ==
    /\ emit = [e \in Events |-> "none"]
    /\ queue = <<>> /\ worker = "check" /\ held = {}
    /\ delivered = 0 /\ failed = 0 /\ dropped = 0 /\ circuit = 0
    /\ open = FALSE /\ cancelled = FALSE /\ stopped = FALSE /\ done = FALSE
    /\ late = 0
-----------------------------------------------------------------------------
At(e, from, to) == emit[e] = from /\ emit' = [emit EXCEPT ![e] = to]

\* Emit takes mu for reading; after the stop it only counts.
Emit(e) ==
    /\ At(e, "none", IF stopped THEN "returned" ELSE "push")
    /\ dropped' = IF stopped THEN dropped + 1 ELSE dropped
    /\ UNCHANGED <<queue, delivered, failed, stopVars, workerVars>>

Push(e) ==
    /\ At(e, "push", IF Len(queue) < Capacity THEN "returned" ELSE "evict")
    /\ queue' = IF Len(queue) < Capacity THEN Append(queue, e) ELSE queue
    /\ UNCHANGED <<counters, stopVars, workerVars>>

\* The queue was full; the worker or another Emit may have emptied it since.
Evict(e) ==
    /\ At(e, "evict", "retry")
    /\ IF queue = <<>>
       THEN UNCHANGED <<queue, dropped>>
       ELSE queue' = Tail(queue) /\ dropped' = dropped + 1
    /\ UNCHANGED <<delivered, failed, stopVars, workerVars>>

\* Mutant of Retry: the event that found no room again is not counted.
RetrySilently(e) ==
    /\ At(e, "retry", "returned")
    /\ queue' = IF Len(queue) < Capacity THEN Append(queue, e) ELSE queue
    /\ UNCHANGED <<counters, stopVars, workerVars>>

Retry(e) ==
    /\ At(e, "retry", "returned")
    /\ IF Len(queue) < Capacity
       THEN queue' = Append(queue, e) /\ UNCHANGED dropped
       ELSE dropped' = dropped + 1 /\ UNCHANGED queue
    /\ UNCHANGED <<delivered, failed, stopVars, workerVars>>
-----------------------------------------------------------------------------
CheckContext ==
    /\ worker = "check"
    /\ worker' = IF cancelled THEN "exited" ELSE "select"
    /\ UNCHANGED <<emit, queue, held, late, counters, circuitVars, stopVars>>

SelectDone ==
    /\ worker = "select" /\ cancelled
    /\ worker' = "exited"
    /\ UNCHANGED <<emit, queue, held, late, counters, circuitVars, stopVars>>

\* The select takes either of two cases that are ready.
SelectEvent ==
    /\ worker = "select" /\ queue # <<>>
    /\ queue' = Tail(queue)
    /\ late' = IF cancelled THEN late + 1 ELSE late
    /\ IF open
       THEN worker' = "check" /\ dropped' = dropped + 1 /\ UNCHANGED held
       ELSE worker' = "send" /\ held' = {Head(queue)} /\ UNCHANGED dropped
    /\ UNCHANGED <<emit, delivered, failed, circuitVars, stopVars>>

SendOK ==
    /\ worker = "send"
    /\ worker' = "check" /\ held' = {}
    /\ delivered' = delivered + 1 /\ circuit' = 0
    /\ UNCHANGED <<emit, queue, failed, dropped, open, late, stopVars>>

SendFails ==
    /\ worker = "send"
    /\ worker' = "check" /\ held' = {}
    /\ failed' = failed + 1
    /\ circuit' = IF circuit + 1 > Threshold THEN 0 ELSE circuit + 1
    /\ open' = (open \/ circuit + 1 > Threshold)
    /\ UNCHANGED <<emit, queue, delivered, dropped, late, stopVars>>

CircuitCloses ==
    /\ open /\ open' = FALSE
    /\ UNCHANGED <<emit, queue, worker, held, circuit, late, counters, stopVars>>
-----------------------------------------------------------------------------
Cancel ==
    /\ ~cancelled /\ cancelled' = TRUE
    /\ UNCHANGED <<emit, queue, stopped, done, counters, workerVars>>

\* mu is taken for writing.
Stop ==
    /\ cancelled /\ ~stopped /\ Inside = {}
    /\ stopped' = TRUE
    /\ UNCHANGED <<emit, queue, cancelled, done, counters, workerVars>>

\* Nothing else touches the queue once the worker has exited and Emit only counts.
DrainQueue ==
    /\ stopped /\ ~done /\ worker = "exited"
    /\ dropped' = dropped + Len(queue) /\ queue' = <<>>
    /\ done' = TRUE
    /\ UNCHANGED <<emit, delivered, failed, cancelled, stopped, workerVars>>

Worker == CheckContext \/ SelectDone \/ SelectEvent \/ SendOK \/ SendFails
Emitting == \E e \in Events : Push(e) \/ Evict(e) \/ Retry(e)

Next ==
    \/ \E e \in Events : Emit(e)
    \/ Emitting \/ Worker \/ CircuitCloses \/ Cancel \/ Stop \/ DrainQueue

Spec == Init /\ [][Next]_vars

\* Goroutines run; Send has a timeout and the context of the worker.
FairSpec == Spec /\ WF_vars(Emitting) /\ WF_vars(Worker) /\ WF_vars(Stop) /\ WF_vars(DrainQueue)
-----------------------------------------------------------------------------
(***************************************************************************)
(* Every emitted event is in one place, or counted once in Stats: evicted, *)
(* refused, sent, failed, skipped by the circuit or drained.               *)
(***************************************************************************)
Conservation ==
    delivered + failed + dropped + Len(queue) + Cardinality(held) + Cardinality(Inside)
        = Cardinality({e \in Events : emit[e] # "none"})

\* Once the bus is done nothing is sent and nothing waits, however late an event is
\* emitted (the stopped flag of Emit, the order of the stop).
DoneIsFinal == done => queue = <<>> /\ held = {} /\ Inside = {}

\* Cancellation stops sends: at most the event of a select that was already waiting is
\* taken after it (the check of ctx.Err at the head of run).
LateSends == late <= 1

\* A cancelled bus stops.
BusStops == cancelled ~> done
=============================================================================
