-------------------------- MODULE ServerLifecycle ---------------------------
(***************************************************************************)
(* Start, drain and shutdown of one gateway process: the goroutine that    *)
(* serves, the request handlers, the background workers, an administrator  *)
(* who drains, and the main function that shuts the server down and then   *)
(* closes the store.                                                       *)
(***************************************************************************)
EXTENDS Integers, FiniteSets

CONSTANTS
    Requests,
    Workers,        \* the goroutines of workerDone, and Recovery, that of usage.Logger
    Recovery,
    MaxGeneration   \* bound on the channels made for requestsDone

VARIABLES
    serving,        \* Start: "no", "binding" (holds serveMu), "yes", "returned"
    metrics,        \* the metrics listener: "no", "yes", "returned"
    httpClosed,     \* http.Server.Shutdown or Close was called
    request,        \* where each request is
    active,         \* activeRequests
    generation,     \* which channel requestsDone is
    closed,         \* the channels that are closed
    draining,
    cancelled,      \* requestCtx is cancelled
    worker,         \* TRUE while a background worker runs
    phase,          \* where shutdown is
    expired,        \* the contexts of shutdown that have expired
    saw,            \* what shutdown waits for: the goroutine of Start, a channel
    failed,         \* shutdown has an error to report
    storeOpen

vars == <<serving, metrics, httpClosed, request, active, generation, closed, draining,
          cancelled, worker, phase, expired, saw, failed, storeOpen>>

requestVars == <<request, active, generation, closed>>
serveVars == <<serving, metrics>>
mainVars == <<phase, expired, saw, failed, storeOpen>>

Phases == <<"idle", "drain", "snapshot", "http", "channel", "wait", "cancel", "channel2",
            "wait2", "workers", "join", "usage", "served", "clients", "returned">>
InFlight == {r \in Requests : request[r] \in {"queued", "working", "leaving"}}

TypeOK ==
    /\ serving \in {"no", "binding", "yes", "returned"} /\ metrics \in {"no", "yes", "returned"}
    /\ {httpClosed, draining, cancelled, failed, storeOpen} \subseteq BOOLEAN
    /\ request \in [Requests -> {"none", "arrived", "queued", "working", "leaving", "ended"}]
    /\ active = Cardinality(InFlight)
    /\ generation \in 0..MaxGeneration /\ closed \subseteq 0..MaxGeneration
    /\ worker \in [Workers -> BOOLEAN]
    /\ phase \in {Phases[i] : i \in DOMAIN Phases}
    /\ expired \subseteq {"grace", "cleanup"}
    /\ saw \in [channel : 0..MaxGeneration, served : BOOLEAN]

Init ==
    /\ serving = "no" /\ metrics = "no"
    /\ httpClosed = FALSE /\ draining = FALSE /\ cancelled = FALSE /\ failed = FALSE
    /\ request = [r \in Requests |-> "none"]
    /\ active = 0 /\ generation = 0 /\ closed = {0}     \* initLifecycle
    /\ worker = [w \in Workers |-> TRUE]
    /\ phase = "idle" /\ expired = {}
    /\ saw = [channel |-> 0, served |-> FALSE]
    /\ storeOpen = TRUE
-----------------------------------------------------------------------------
\* Start takes serveMu; a server that drains does not start.
StartBinding ==
    /\ serving = "no"
    /\ serving' = IF draining THEN "returned" ELSE "binding"
    /\ UNCHANGED <<metrics, httpClosed, draining, cancelled, worker>>
    /\ UNCHANGED requestVars /\ UNCHANGED mainVars

\* Both listeners are bound and serveMu is released.
StartServing ==
    /\ serving = "binding"
    /\ serving' = "yes" /\ metrics' = "yes"
    /\ UNCHANGED <<httpClosed, draining, cancelled, worker>>
    /\ UNCHANGED requestVars /\ UNCHANGED mainVars

BindFails ==
    /\ serving = "binding"
    /\ serving' = "returned"
    /\ UNCHANGED <<metrics, httpClosed, draining, cancelled, worker>>
    /\ UNCHANGED requestVars /\ UNCHANGED mainVars

\* Serve returns once the server is closed.
ServeReturns ==
    /\ serving = "yes" /\ httpClosed
    /\ serving' = "returned"
    /\ UNCHANGED <<metrics, httpClosed, draining, cancelled, worker>>
    /\ UNCHANGED requestVars /\ UNCHANGED mainVars

\* The metrics server fails, and closes the http server with it.
MetricsFails ==
    /\ metrics = "yes"
    /\ metrics' = "returned" /\ httpClosed' = TRUE
    /\ UNCHANGED <<serving, draining, cancelled, worker>>
    /\ UNCHANGED requestVars /\ UNCHANGED mainVars
-----------------------------------------------------------------------------
Move(r, from, to) ==
    /\ request[r] = from
    /\ request' = [request EXCEPT ![r] = to]
    /\ UNCHANGED <<httpClosed, draining, cancelled, worker>>
    /\ UNCHANGED serveVars /\ UNCHANGED mainVars

Arrive(r) ==
    /\ serving = "yes" /\ ~httpClosed
    /\ Move(r, "none", "arrived")
    /\ UNCHANGED <<active, generation, closed>>

\* inferenceLifecycle under requestsMu.
Register(r) ==
    /\ ~draining
    /\ Move(r, "arrived", "queued")
    /\ active' = active + 1
    /\ generation' = IF active = 0 THEN generation + 1 ELSE generation
    /\ UNCHANGED closed

Refused(r) ==
    /\ draining
    /\ Move(r, "arrived", "ended")
    /\ UNCHANGED <<active, generation, closed>>

\* Admission is over: rejectDrained sends a queued request back, or it starts work.
Admitted(r) ==
    /\ Move(r, "queued", IF draining THEN "leaving" ELSE "working")
    /\ UNCHANGED <<active, generation, closed>>

\* The handler returns on its own, or because its context was cancelled.
Finish(r) ==
    /\ Move(r, "working", "leaving")
    /\ UNCHANGED <<active, generation, closed>>

\* The deferred function of inferenceLifecycle.
Leave(r) ==
    /\ Move(r, "leaving", "ended")
    /\ active' = active - 1
    /\ closed' = IF active = 1 THEN closed \cup {generation} ELSE closed
    /\ UNCHANGED generation

\* POST /health/drain
AdminDrain ==
    /\ ~draining /\ serving = "yes"
    /\ draining' = TRUE
    /\ UNCHANGED <<httpClosed, cancelled, worker>>
    /\ UNCHANGED requestVars /\ UNCHANGED serveVars /\ UNCHANGED mainVars

\* A worker returns after its context is cancelled: the recovery of usage.Logger has its
\* own, cancelled by CloseContext.
WorkerReturns(w) ==
    /\ worker[w]
    /\ phase \in {"usage", "served", "clients", "returned"} \/ (phase = "join" /\ w # Recovery)
    /\ worker' = [worker EXCEPT ![w] = FALSE]
    /\ UNCHANGED <<httpClosed, draining, cancelled>>
    /\ UNCHANGED requestVars /\ UNCHANGED serveVars /\ UNCHANGED mainVars
-----------------------------------------------------------------------------
Step(from, to) ==
    /\ phase = from
    /\ phase' = to
    /\ UNCHANGED <<worker, storeOpen>>
    /\ UNCHANGED requestVars

\* The signal, or the return of Start, makes main shut the server down.
BeginShutdown ==
    /\ Step("idle", "drain")
    /\ UNCHANGED <<httpClosed, draining, cancelled, expired, saw, failed>> /\ UNCHANGED serveVars

Drain ==
    /\ Step("drain", "snapshot")
    /\ draining' = TRUE
    /\ UNCHANGED <<httpClosed, cancelled, expired, saw, failed>> /\ UNCHANGED serveVars

\* Mutant of Snapshot: serveMu is not taken.
SnapshotUnlocked ==
    /\ Step("snapshot", "http")
    /\ saw' = [saw EXCEPT !.served = serving \in {"yes", "returned"}]
    /\ httpClosed' = TRUE
    /\ UNCHANGED <<draining, cancelled, expired, failed>> /\ UNCHANGED serveVars

\* Under serveMu; then http.Shutdown closes the listener.
Snapshot ==
    /\ serving # "binding"
    /\ Step("snapshot", "http")
    /\ saw' = [saw EXCEPT !.served = serving # "no"]
    /\ httpClosed' = TRUE
    /\ UNCHANGED <<draining, cancelled, expired, failed>> /\ UNCHANGED serveVars

Quiet == \A r \in Requests : request[r] \in {"none", "ended"}

\* A wait ends without an error when what it waits for is done, and with one when its
\* context has expired; when both hold the select takes either.
Await(done, context) ==
    \/ done /\ UNCHANGED failed
    \/ context \in expired /\ failed' = TRUE

\* http.Shutdown waits until no connection is busy.
HttpDown ==
    /\ Step("http", "channel")
    /\ Await(Quiet, "grace")
    /\ UNCHANGED <<httpClosed, draining, cancelled, expired, saw>> /\ UNCHANGED serveVars

\* waitInference takes the channel once, under requestsMu.
TakeChannel(from, to) ==
    /\ Step(from, to)
    /\ saw' = [saw EXCEPT !.channel = generation]
    /\ UNCHANGED <<httpClosed, draining, cancelled, expired, failed>> /\ UNCHANGED serveVars

\* Mutant of Waited: the wait has no deadline.
WaitedForever(from, to, context) ==
    /\ Step(from, to)
    /\ Await(saw.channel \in closed, "none")
    /\ UNCHANGED <<httpClosed, draining, cancelled, expired, saw>> /\ UNCHANGED serveVars

Waited(from, to, context) ==
    /\ Step(from, to)
    /\ Await(saw.channel \in closed, context)
    /\ UNCHANGED <<httpClosed, draining, cancelled, expired, saw>> /\ UNCHANGED serveVars

CancelRequests ==
    /\ Step("cancel", "channel2")
    /\ cancelled' = TRUE
    /\ UNCHANGED <<httpClosed, draining, expired, saw, failed>> /\ UNCHANGED serveVars

CancelWorkers ==
    /\ Step("workers", "join")
    /\ UNCHANGED <<httpClosed, draining, cancelled, expired, saw, failed>> /\ UNCHANGED serveVars

JoinWorkers ==
    /\ Step("join", "usage")
    /\ Await(\A w \in Workers \ {Recovery} : ~worker[w], "cleanup")
    /\ UNCHANGED <<httpClosed, draining, cancelled, expired, saw>> /\ UNCHANGED serveVars

CloseUsage ==
    /\ Step("usage", "served")
    /\ Await(~worker[Recovery], "cleanup")
    /\ UNCHANGED <<httpClosed, draining, cancelled, expired, saw>> /\ UNCHANGED serveVars

\* The metrics server is shut down, and both serve goroutines are awaited.
ServedDone ==
    /\ Step("served", "clients")
    /\ Await(saw.served => serving = "returned", "cleanup")
    /\ metrics' = IF metrics = "yes" THEN "returned" ELSE metrics
    /\ UNCHANGED <<serving, httpClosed, draining, cancelled, expired, saw>>

\* The Redis clients are closed and telemetry is flushed.
CloseClients ==
    /\ Step("clients", "returned")
    /\ UNCHANGED <<httpClosed, draining, cancelled, expired, saw, failed>> /\ UNCHANGED serveVars

\* The deferred st.Close of main.
CloseStore ==
    /\ phase = "returned" /\ storeOpen
    /\ storeOpen' = FALSE
    /\ UNCHANGED <<httpClosed, draining, cancelled, worker, phase, expired, saw, failed>>
    /\ UNCHANGED requestVars /\ UNCHANGED serveVars

Expire(context, phases) ==
    /\ phase \in phases /\ context \notin expired
    /\ expired' = expired \cup {context}
    /\ UNCHANGED <<httpClosed, draining, cancelled, worker, phase, saw, failed, storeOpen>>
    /\ UNCHANGED requestVars /\ UNCHANGED serveVars

Shutdown ==
    \/ BeginShutdown \/ Drain \/ Snapshot \/ HttpDown
    \/ TakeChannel("channel", "wait") \/ Waited("wait", "cancel", "grace")
    \/ CancelRequests
    \/ TakeChannel("channel2", "wait2") \/ Waited("wait2", "workers", "cleanup")
    \/ CancelWorkers \/ JoinWorkers \/ CloseUsage \/ ServedDone \/ CloseClients \/ CloseStore

Timers ==
    \/ Expire("grace", {"http", "channel", "wait"})
    \/ Expire("cleanup", {"channel2", "wait2", "workers", "join", "usage", "served"})

Starting == StartBinding \/ StartServing \/ BindFails \/ ServeReturns

Next ==
    \/ Starting \/ MetricsFails \/ AdminDrain \/ Shutdown \/ Timers
    \/ \E r \in Requests :
        Arrive(r) \/ Register(r) \/ Refused(r) \/ Admitted(r) \/ Finish(r) \/ Leave(r)
    \/ \E w \in Workers : WorkerReturns(w)

Spec == Init /\ [][Next]_vars

\* The goroutines of Start and shutdown run and timers fire; nothing is assumed of the
\* handlers and the workers.
FairSpec == Spec /\ WF_vars(Starting) /\ WF_vars(Shutdown) /\ WF_vars(Timers)
-----------------------------------------------------------------------------
(***************************************************************************)
(* The current channel is open exactly while requests are in flight: no    *)
(* last request closes a closed channel, and no wait is for a channel that *)
(* never closes (inferenceLifecycle).                                      *)
(***************************************************************************)
ChannelFollowsRequests == (active = 0) <=> (generation \in closed)

(***************************************************************************)
(* A shutdown without an error left nothing behind when the store closes:  *)
(* no request is or will be in flight, no worker runs, no listener serves  *)
(* ("not a false clean exit", docs/shutdown-recovery.md).                  *)
(***************************************************************************)
CleanExit ==
    ~storeOpen /\ ~failed =>
        /\ InFlight = {}
        /\ \A w \in Workers : ~worker[w]
        /\ serving \in {"no", "returned"} /\ metrics # "yes"

(***************************************************************************)
(* The channel that shutdown waits for is the last one: no request comes   *)
(* into flight after waitInference took it (Drain and inferenceLifecycle   *)
(* share requestsMu).                                                      *)
(***************************************************************************)
LastGeneration == phase \in {"wait", "wait2"} => saw.channel = generation

\* Shutdown ends and the process exits, whatever the handlers and workers do.
ShutdownEnds == (phase = "drain") ~> ~storeOpen
=============================================================================
