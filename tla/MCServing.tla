----------------------------- MODULE MCServing ------------------------------
(***************************************************************************)
(* The parts of the request path inside one process: the admission gate,   *)
(* a stream, the callback bus and the server's lifecycle.  They share no   *)
(* state, so a behaviour runs one of them, its scene, and leaves the others*)
(* in their initial state.                                                 *)
(***************************************************************************)
EXTENDS AdmissionGate

CONSTANTS Emitted, Requests, Background, Usage, Modes

VARIABLES
    scene,
    mode, handler, reader, event, first, left, cause, timer, callbacks, paused, remaining,
    closed, cancelled, quiet,
    emit, busQueue, sender, held, delivered, failed, dropped, circuit, open, busCancelled,
    stopped, done, late,
    serving, metrics, httpClosed, request, active, generation, channels, draining,
    requestsCancelled, worker, phase, expired, saw, shutdownFailed, storeOpen

Stream == INSTANCE ChatStream WITH First <- 3, Idle <- 2, MaxCallbacks <- 2

Bus == INSTANCE CallbackBus WITH
    Events <- Emitted, Capacity <- 2, Threshold <- 1,
    queue <- busQueue, worker <- sender, cancelled <- busCancelled

Life == INSTANCE ServerLifecycle WITH
    Workers <- Background, Recovery <- Usage, MaxGeneration <- 3,
    closed <- channels, cancelled <- requestsCancelled, failed <- shutdownFailed

streamVars == <<mode, handler, reader, event, first, left, cause, timer, callbacks, paused,
                remaining, closed, cancelled, quiet>>
busVars == <<emit, busQueue, sender, held, delivered, failed, dropped, circuit, open,
             busCancelled, stopped, done, late>>
lifeVars == <<serving, metrics, httpClosed, request, active, generation, channels, draining,
              requestsCancelled, worker, phase, expired, saw, shutdownFailed, storeOpen>>

SoundModes == [keepalive : BOOLEAN, guarded : BOOLEAN] \ {[keepalive |-> TRUE, guarded |-> TRUE]}
GuardedKeepalive == {[keepalive |-> TRUE, guarded |-> TRUE]}

ServingInit ==
    /\ scene \in {"gate", "stream", "bus", "lifecycle"}
    /\ Init /\ Stream!Init /\ Bus!Init /\ Life!Init
    /\ scene # "stream" => mode = CHOOSE m \in Modes : TRUE

ServingNext ==
    /\ UNCHANGED scene
    /\ \/ scene = "gate" /\ Next /\ UNCHANGED <<streamVars, busVars, lifeVars>>
       \/ scene = "stream" /\ Stream!Next /\ UNCHANGED <<vars, busVars, lifeVars>>
       \/ scene = "bus" /\ Bus!Next /\ UNCHANGED <<vars, streamVars, lifeVars>>
       \/ scene = "lifecycle" /\ Life!Next /\ UNCHANGED <<vars, streamVars, busVars>>

\* The fairness of the four specifications, each in its scene.
ServingFairness ==
    /\ \A p \in Callers : /\ WF_vars(scene = "gate" /\ Step(p))
                          /\ WF_vars(scene = "gate" /\ QueueTimeout(p))
    /\ WF_streamVars(scene = "stream" /\ Stream!Tick)
    /\ WF_streamVars(scene = "stream" /\ Stream!TimerFires)
    /\ WF_streamVars(scene = "stream" /\ Stream!Expire)
    /\ WF_streamVars(scene = "stream" /\ Stream!Reading)
    /\ WF_streamVars(scene = "stream" /\ Stream!Handling)
    /\ WF_busVars(scene = "bus" /\ Bus!Emitting)
    /\ WF_busVars(scene = "bus" /\ Bus!Worker)
    /\ WF_busVars(scene = "bus" /\ Bus!Stop)
    /\ WF_busVars(scene = "bus" /\ Bus!DrainQueue)
    /\ WF_lifeVars(scene = "lifecycle" /\ Life!Starting)
    /\ WF_lifeVars(scene = "lifecycle" /\ Life!Shutdown)
    /\ WF_lifeVars(scene = "lifecycle" /\ Life!Timers)

ServingSpec ==
    /\ ServingInit
    /\ [][ServingNext]_<<scene, vars, streamVars, busVars, lifeVars>>
    /\ ServingFairness
-----------------------------------------------------------------------------
(***************************************************************************)
(* The clock of a stream is exact: it is cut for idleness, or for want of  *)
(* a first event, only after that long without progress, and whenever the  *)
(* gateway waits for the upstream the clock runs (expire, pauseIdle,       *)
(* resumeIdle).                                                            *)
(***************************************************************************)
StreamClockExact == Stream!TypeOK /\ Stream!NoEarlyTimeout /\ Stream!IdleEnforced

\* While the gateway waits for the upstream the idle clock runs (stream.go).
IdleEnforced == Stream!IdleEnforced

(***************************************************************************)
(* Every emitted event is in one place or counted once, at most one is     *)
(* taken after the cancellation, and once the bus is done none is sent or  *)
(* waits, however late it was emitted (Bus.Emit, worker.run, Bus.Start).   *)
(***************************************************************************)
EventsAccounted == Bus!TypeOK /\ Bus!Conservation /\ Bus!DoneIsFinal /\ Bus!LateSends

(***************************************************************************)
(* A shutdown without an error left nothing running when the store closes: *)
(* requestsDone is open exactly while requests are in flight, none comes   *)
(* into flight behind the channel that shutdown waits for, and workers and *)
(* listeners have stopped (inferenceLifecycle, waitInference, shutdown).   *)
(***************************************************************************)
ShutdownIsClean ==
    Life!TypeOK /\ Life!ChannelFollowsRequests /\ Life!LastGeneration /\ Life!CleanExit

(***************************************************************************)
(* Nothing waits for ever: every acquisition is decided (Gate.Acquire), a  *)
(* stalled upstream does not hold a read and closing a stream joins its    *)
(* reader (readEvent, eventPuller.close), a cancelled bus stops and a      *)
(* shutdown ends with the store closed, whatever handlers, workers and     *)
(* sinks do (Bus.Start, shutdown).                                         *)
(***************************************************************************)
EverythingEnds ==
    /\ EveryAcquireDecides
    /\ Stream!StallEnds /\ Stream!CloseJoins
    /\ Bus!BusStops /\ Life!ShutdownEnds
=============================================================================
