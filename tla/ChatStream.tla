----------------------------- MODULE ChatStream -----------------------------
(***************************************************************************)
(* The lifetime of one upstream stream: the handler that opens it, pulls   *)
(* its events and writes them to the client, the reader goroutine that     *)
(* keepalives add, and the timer for the first event and for idleness,     *)
(* which is paused while a write holds the handler up.  Times are relative:*)
(* what is left until a deadline, not the deadline.                        *)
(***************************************************************************)
EXTENDS Integers

CONSTANTS
    First,          \* first_event_timeout
    Idle,           \* idle_timeout
    Modes,          \* streams with keepalives or not, guarded or not
    MaxCallbacks    \* bound on the timer callbacks that wait for the mutex

Off == -1
Longest == IF First > Idle THEN First ELSE Idle

VARIABLES
    mode,
    handler,     \* "open", "prefetch", "pull", "wait", "got", "write", "closing", "join", "ended"
    reader,      \* "idle", "read", "arrived", "checked", "pause", "offer", "exited"
    event,       \* what the last read returned
    first,       \* the prefetched event is still to be pulled
    left,        \* until deadline
    cause,       \* which timeout the deadline is
    timer,       \* until the timer fires, or Off
    callbacks,   \* calls of expire that have not got the mutex
    paused, remaining,
    closed,
    cancelled,   \* "no", or the cause of the stream's context
    quiet        \* history: time without progress, the pauses left out

vars == <<mode, handler, reader, event, first, left, cause, timer, callbacks, paused,
          remaining, closed, cancelled, quiet>>
clock == <<left, cause, timer, paused, remaining, cancelled, quiet>>

Events == {"data", "comment", "done", "error"}

TypeOK ==
    /\ mode \in Modes
    /\ handler \in {"open", "prefetch", "pull", "wait", "got", "write", "closing", "join", "ended"}
    /\ reader \in {"idle", "read", "arrived", "checked", "pause", "offer", "exited"}
    /\ event \in Events /\ {first, paused, closed} \subseteq BOOLEAN
    /\ left \in 0..Longest /\ remaining \in 0..Longest /\ timer \in Off..Longest
    /\ cause \in {"first", "idle"} /\ callbacks \in 0..MaxCallbacks
    /\ cancelled \in {"no", "first", "idle", "closed", "client"}
    /\ quiet \in 0..Longest

Init ==
    /\ mode \in Modes
    /\ handler = "open" /\ reader = "idle" /\ event = "error" /\ first = FALSE
    /\ left = First /\ cause = "first" /\ timer = First /\ callbacks = 0
    /\ paused = FALSE /\ remaining = 0
    /\ closed = FALSE /\ cancelled = "no" /\ quiet = 0

Locked == reader = "checked"      \* readEvent holds the mutex
Cancelled == cancelled # "no"
Cancel(why) == cancelled' = IF Cancelled THEN cancelled ELSE why
-----------------------------------------------------------------------------
\* The timer.
Tick ==
    /\ left' = IF left > 0 THEN left - 1 ELSE 0
    /\ timer' = IF timer > 0 THEN timer - 1 ELSE timer
    /\ quiet' = IF ~paused /\ quiet < Longest THEN quiet + 1 ELSE quiet
    /\ UNCHANGED <<mode, handler, reader, event, first, cause, callbacks, paused, remaining,
                   closed, cancelled>>

TimerFires ==
    /\ timer = 0 /\ callbacks < MaxCallbacks
    /\ timer' = Off /\ callbacks' = callbacks + 1
    /\ UNCHANGED <<mode, handler, reader, event, first, left, cause, paused, remaining,
                   closed, cancelled, quiet>>

\* Mutant of Expire: the callback trusts the timer.
ExpireAtOnce ==
    /\ callbacks > 0 /\ ~Locked /\ callbacks' = callbacks - 1
    /\ IF closed \/ paused \/ Cancelled THEN UNCHANGED cancelled ELSE Cancel(cause)
    /\ UNCHANGED <<mode, handler, reader, event, first, left, cause, timer, paused, remaining,
                   closed, quiet>>

Expire ==
    /\ callbacks > 0 /\ ~Locked /\ callbacks' = callbacks - 1
    /\ IF closed \/ paused \/ Cancelled
       THEN UNCHANGED <<timer, cancelled>>
       ELSE IF left > 0
            THEN timer' = left /\ UNCHANGED cancelled
            ELSE Cancel(cause) /\ UNCHANGED timer
    /\ UNCHANGED <<mode, handler, reader, event, first, left, cause, paused, remaining,
                   closed, quiet>>

PauseIdle ==
    IF paused
    THEN UNCHANGED clock
    ELSE /\ paused' = TRUE /\ remaining' = left /\ timer' = Off
         /\ IF left = 0 THEN Cancel(cause) ELSE UNCHANGED cancelled
         /\ UNCHANGED <<left, cause, quiet>>

ResumeIdle ==
    /\ paused' = FALSE
    /\ IF ~closed /\ ~Cancelled
       THEN left' = remaining /\ timer' = remaining
       ELSE UNCHANGED <<left, timer>>
    /\ UNCHANGED <<cause, remaining, cancelled, quiet>>
-----------------------------------------------------------------------------
\* A read of the body returns.
Arrive ==
    /\ reader = "read"
    /\ reader' = "arrived" /\ event' \in Events
    /\ UNCHANGED <<mode, handler, first, callbacks, closed, clock>>

\* Mutant of BodyClosed: only Close closes the body.
BodyStaysOpen ==
    /\ reader = "read" /\ closed
    /\ reader' = "arrived" /\ event' = "error"
    /\ UNCHANGED <<mode, handler, first, callbacks, closed, clock>>

\* The context closes the body, which ends a read.
BodyClosed ==
    /\ reader = "read" /\ Cancelled
    /\ reader' = "arrived" /\ event' = "error"
    /\ UNCHANGED <<mode, handler, first, callbacks, closed, clock>>

\* readEvent takes the mutex and reads the clock.
CheckEvent ==
    /\ reader = "arrived"
    /\ LET late == ~Cancelled /\ left = 0
       IN  /\ event' = IF Cancelled \/ late THEN "error" ELSE event
           /\ cancelled' = IF late THEN cause ELSE cancelled
    /\ reader' = "checked"
    /\ UNCHANGED <<mode, handler, first, left, cause, timer, callbacks, paused, remaining,
                   closed, quiet>>

\* Still under the mutex: progress opens a new idle window.
Progress ==
    IF event \in {"data", "done"}
    THEN /\ left' = Idle /\ timer' = Idle /\ cause' = "idle" /\ quiet' = 0
         /\ UNCHANGED <<paused, remaining, cancelled>>
    ELSE UNCHANGED clock

\* prefetch reads on until there is progress.
Prefetched ==
    /\ handler = "prefetch" /\ reader = "checked"
    /\ Progress
    /\ \/ event = "error" /\ handler' = "closing" /\ reader' = "idle" /\ UNCHANGED first
       \/ event = "comment" /\ reader' = "read" /\ UNCHANGED <<handler, first>>
       \/ event \in {"data", "done"} /\ handler' = "pull" /\ reader' = "idle" /\ first' = TRUE
    /\ UNCHANGED <<mode, event, callbacks, closed>>

\* Without keepalives the handler reads; with them the reader pauses what it read.
EventRead ==
    /\ handler # "prefetch" /\ reader = "checked"
    /\ Progress
    /\ IF mode.keepalive
       THEN reader' = "pause" /\ UNCHANGED handler
       ELSE reader' = "idle" /\ handler' = "got"
    /\ UNCHANGED <<mode, event, first, callbacks, closed>>

\* The reader of the puller, after src.next.
ReaderPauses ==
    /\ reader = "pause"
    /\ PauseIdle
    /\ event' = IF cancelled' # "no" THEN "error" ELSE event
    /\ reader' = "offer"
    /\ UNCHANGED <<mode, handler, first, callbacks, closed>>

ReaderExits ==
    /\ mode.keepalive /\ Cancelled /\ reader \in {"idle", "offer"}
    /\ handler \in {"pull", "wait", "got", "write", "closing", "join"}
    /\ reader' = "exited"
    /\ UNCHANGED <<mode, handler, event, first, callbacks, closed, clock>>
-----------------------------------------------------------------------------
\* The provider call returns a body, or an error.
Open ==
    /\ handler = "open"
    /\ \/ ~Cancelled /\ handler' = "prefetch" /\ reader' = "read"
       \/ handler' = "closing" /\ UNCHANGED reader
    /\ UNCHANGED <<mode, event, first, callbacks, closed, clock>>

\* puller.next: the prefetched event, or a read.
Pull ==
    /\ handler = "pull"
    /\ \/ Cancelled /\ handler' = "closing" /\ UNCHANGED <<reader, first>>
       \/ ~Cancelled /\ first /\ mode.keepalive
          /\ reader = "idle" /\ reader' = "pause" /\ handler' = "wait" /\ first' = FALSE
       \/ ~Cancelled /\ first /\ ~mode.keepalive
          /\ handler' = "got" /\ first' = FALSE /\ UNCHANGED reader
       \/ ~Cancelled /\ ~first
          /\ reader = "idle" /\ reader' = "read" /\ handler' = "wait" /\ UNCHANGED first
    /\ UNCHANGED <<mode, event, callbacks, closed, clock>>

TakeResult ==
    /\ mode.keepalive /\ handler = "wait" /\ reader = "offer"
    /\ handler' = "got" /\ reader' = "idle"
    /\ UNCHANGED <<mode, event, first, callbacks, closed, clock>>

\* The context ends the wait, or a keepalive cannot be written.
WaitEnds ==
    /\ mode.keepalive /\ handler = "wait"
    /\ handler' = "closing"
    /\ UNCHANGED <<mode, reader, event, first, callbacks, closed, clock>>

\* Run up to its write.  A guarded stream leaves out events without data.
Handle ==
    /\ handler = "got"
    /\ \/ event = "error" /\ handler' = "closing" /\ UNCHANGED clock
       \/ mode.guarded /\ event = "comment" /\ handler' = "pull" /\ UNCHANGED clock
       \/ /\ event # "error" /\ ~(mode.guarded /\ event = "comment")
          /\ PauseIdle
          /\ handler' = IF cancelled' # "no" THEN "closing" ELSE "write"
    /\ UNCHANGED <<mode, reader, event, first, callbacks, closed>>

WriteDone ==
    /\ handler = "write"
    /\ ResumeIdle
    /\ handler' = IF event = "done" THEN "closing" ELSE "pull"
    /\ UNCHANGED <<mode, reader, event, first, callbacks, closed>>

WriteFails ==
    /\ handler = "write"
    /\ handler' = "closing"
    /\ UNCHANGED <<mode, reader, event, first, callbacks, closed, clock>>

\* A stream that got past prefetch has a puller, which closes it and joins its reader.
Close ==
    /\ handler = "closing" /\ ~Locked
    /\ closed' = TRUE /\ timer' = Off /\ Cancel("closed")
    /\ handler' = IF mode.keepalive /\ cause = "idle" THEN "join" ELSE "ended"
    /\ UNCHANGED <<mode, reader, event, first, callbacks, left, cause, paused, remaining, quiet>>

Join ==
    /\ handler = "join" /\ reader = "exited"
    /\ handler' = "ended"
    /\ UNCHANGED <<mode, reader, event, first, callbacks, closed, clock>>

\* The client goes away, the request's deadline passes, or shutdown cancels it.
ClientCancel ==
    /\ ~Cancelled /\ cancelled' = "client"
    /\ UNCHANGED <<mode, handler, reader, event, first, left, cause, timer, callbacks, paused,
                   remaining, closed, quiet>>

Timing == Tick \/ TimerFires \/ Expire
Reading == BodyClosed \/ CheckEvent \/ Prefetched \/ EventRead \/ ReaderPauses \/ ReaderExits
Handling == Pull \/ TakeResult \/ Handle \/ WriteDone \/ WriteFails \/ Close \/ Join

Next == Timing \/ Reading \/ Handling \/ Open \/ Arrive \/ WaitEnds \/ ClientCancel

Spec == Init /\ [][Next]_vars

\* Time passes, callbacks and goroutines run and writes have a timeout; nothing is
\* assumed of the upstream and the client.
FairSpec ==
    /\ Spec
    /\ WF_vars(Tick) /\ WF_vars(TimerFires) /\ WF_vars(Expire)
    /\ WF_vars(Reading) /\ WF_vars(Handling)
-----------------------------------------------------------------------------
(***************************************************************************)
(* A stream is cut for idleness, or for want of a first event, only after  *)
(* that long without progress, the time of writes left out: a callback     *)
(* that was scheduled before an event or a pause never cuts it (expire,    *)
(* pauseIdle, resumeIdle).                                                 *)
(***************************************************************************)
NoEarlyTimeout ==
    /\ cancelled = "first" => quiet >= First
    /\ cancelled = "idle" => quiet >= Idle

(***************************************************************************)
(* Whenever the gateway waits for the upstream, the clock for the idle and *)
(* the first-event timeout runs, on time: nothing but progress resets it.  *)
(***************************************************************************)
IdleEnforced ==
    (handler = "open" \/ reader = "read") /\ ~closed /\ ~Cancelled =>
        /\ ~paused
        /\ callbacks > 0 \/ (timer # Off /\ timer <= left)

\* A stalled upstream holds neither the read nor, through it, the permits for ever.
StallEnds == (reader = "read") ~> (reader # "read")

\* close cancels and joins the reader.
CloseJoins == (handler = "closing") ~> (handler = "ended")
=============================================================================
