---------------------------- MODULE ProxyForward ----------------------------
(***************************************************************************)
(* The endpoints that forward a body they do not interpret: moderation,    *)
(* rerank, images, speech and native messages (passthrough), audio uploads *)
(* (audioMultipart) and the configured passthroughs (GenericPassthrough).  *)
(* All end in forwardProxy, one upstream attempt that is copied to the     *)
(* client as it arrives.  The upstream, the client, the deadlines and the  *)
(* goroutine that encodes an upload run beside the handler.                *)
(***************************************************************************)
EXTENDS Integers, FiniteSets, Sequences

CONSTANTS
    Requests, Deps,
    MaxChunks     \* bound: pieces of a response body

VARIABLES
    call,         \* the handler of each request
    upstream,     \* what has arrived of the upstream's response
    context,      \* the request's context: live, or who ended it
    client,       \* what the client has of the response
    audit,        \* usage_log rows of the request
    upload        \* the temporary files of an upload and their encoder

proxyVars == <<call, upstream, context, client, audit, upload>>

Kinds == {"json", "native", "upload", "generic"}
NoDep == "none"

ProxyInit ==
    /\ call = [p \in Requests |-> [at |-> "new", kind |-> "json", dep |-> NoDep, tried |-> {},
                                   sse |-> FALSE, committed |-> FALSE, written |-> 0,
                                   called |-> FALSE]]
    /\ upstream = [p \in Requests |-> [head |-> "none", body |-> 0, end |-> "open"]]
    /\ context = [p \in Requests |-> "live"]
    /\ client = [p \in Requests |-> "waiting"]
    /\ audit = [p \in Requests |-> <<>>]
    /\ upload = [p \in Requests |-> [files |-> "none", encoder |-> "none"]]

Goes(p, at) == call' = [call EXCEPT ![p].at = at]
Gone(p) == client[p] = "gone"
Shows(p, view) == client' = [client EXCEPT ![p] = IF Gone(p) THEN "gone" ELSE view]

(* A request refused before any provider IO gets a JSON error; what it     *)
(* holds is released by the deferred calls.                                *)
Refuses(p) == /\ Goes(p, "leaving") /\ Shows(p, "error")
              /\ UNCHANGED <<upstream, context>>

(* The body is read, the model allowed, concurrency and unpriced policy    *)
(* admitted; an upload has its files on disk from here on.                 *)
Admits(p, kind) ==
    /\ call[p].at = "new"
    /\ call' = [call EXCEPT ![p].kind = kind, ![p].at = IF kind = "generic" THEN "row" ELSE "resolving"]
    /\ upload' = [upload EXCEPT ![p].files = IF kind = "upload" THEN "kept" ELSE @]
    /\ UNCHANGED <<upstream, context, client, audit>>

(* Or it is refused: an upload may have been parsed by then, and a denial  *)
(* by policy leaves a row of its own (recordDenial).                       *)
NotAdmitted(p) ==
    /\ call[p].at = "new" /\ Refuses(p)
    /\ \E parsed \in BOOLEAN : upload' = [upload EXCEPT ![p].files = IF parsed THEN "kept" ELSE @]
    /\ \E rows \in {<<>>, <<"denied">>} : audit' = [audit EXCEPT ![p] = rows]

(* GenericPassthrough: the row exists and is enabled, its target parses,   *)
(* and the accounting marker is committed; or one of them is not so.       *)
FindsTarget(p) == /\ call[p].at = "row" /\ Goes(p, "ready")
                  /\ UNCHANGED <<upstream, context, client, audit, upload>>
NoTarget(p) == call[p].at = "row" /\ Refuses(p) /\ UNCHANGED <<audit, upload>>

(* resolveForCapability: the next deployment lacks the capability, or is   *)
(* at one of its caps, and the loop goes on; or its permit is taken        *)
(* (tryAcquireUpstream, whose permits RequestRouting counts); or none is   *)
(* left, or a permit fails in a way that allows no other deployment.       *)
SkipsDeployment(p, d) ==
    /\ call[p].at = "resolving" /\ d \notin call[p].tried
    /\ call' = [call EXCEPT ![p].tried = @ \cup {d}]
    /\ UNCHANGED <<upstream, context, client, audit, upload>>
TakesDeployment(p, d) ==
    /\ call[p].at = "resolving" /\ d \notin call[p].tried
    /\ call' = [call EXCEPT ![p].tried = @ \cup {d}, ![p].dep = d, ![p].at = "ready"]
    /\ UNCHANGED <<upstream, context, client, audit, upload>>
NoDeployment(p) == call[p].at = "resolving" /\ Refuses(p) /\ UNCHANGED <<audit, upload>>

(* streamMultipart starts the encoder of an upload's body.                 *)
Encodes(p) == IF call[p].kind = "upload" THEN [upload EXCEPT ![p].encoder = "running"] ELSE upload

(* upstreamFor finds no base URL, or the request cannot be built, when the *)
(* encoder runs already.                                                   *)
NoRequest(p) == /\ call[p].at = "ready" /\ call[p].kind # "generic"
                /\ Refuses(p) /\ upload' \in {upload, Encodes(p)} /\ UNCHANGED audit

(* forwardProxy sends the request.                                         *)
Dials(p) ==
    /\ call[p].at = "ready"
    /\ call' = [call EXCEPT ![p].at = "calling", ![p].called = TRUE]
    /\ upload' = Encodes(p)
    /\ UNCHANGED <<upstream, context, client, audit>>
-----------------------------------------------------------------------------
(* External: the upstream answers and sends its body, which ends properly, *)
(* is cut off, or, for native messages, has a last event of its own.       *)
Answers(p, head, sse) ==
    /\ call[p].at = "calling" /\ upstream[p].head = "none"
    /\ upstream' = [upstream EXCEPT ![p].head = head]
    /\ call' = [call EXCEPT ![p].sse = sse]
    /\ UNCHANGED <<context, client, audit, upload>>
Sends(p) ==
    /\ upstream[p].head # "none" /\ upstream[p].end = "open" /\ upstream[p].body < MaxChunks
    /\ upstream' = [upstream EXCEPT ![p].body = @ + 1]
    /\ UNCHANGED <<call, context, client, audit, upload>>
Finishes(p, end) ==
    /\ upstream[p].head # "none" /\ upstream[p].end = "open"
    /\ end \in {"stop", "fault"} => call[p].kind = "native" /\ call[p].sse /\ upstream[p].body > 0
    /\ upstream' = [upstream EXCEPT ![p].end = end]
    /\ UNCHANGED <<call, context, client, audit, upload>>

(* External: the client leaves; a first-progress, idle or total deadline.  *)
ClientLeaves(p) ==
    /\ context[p] = "live" /\ call[p].at # "ended"
    /\ context' = [context EXCEPT ![p] = "client"]
    /\ client' = [client EXCEPT ![p] = "gone"]
    /\ UNCHANGED <<call, upstream, audit, upload>>
DeadlinePasses(p) ==
    /\ context[p] = "live" /\ call[p].at \in {"calling", "copying"}
    /\ context' = [context EXCEPT ![p] = "deadline"]
    /\ UNCHANGED <<call, upstream, client, audit, upload>>

(* encodeMultipart writes the parts into the pipe, and ends when it is     *)
(* through, when a file cannot be read, or when the pipe is closed.        *)
EncoderEnds(p) ==
    /\ upload[p].encoder = "running"
    /\ upload' = [upload EXCEPT ![p].encoder = "done"]
    /\ UNCHANGED <<call, upstream, context, client, audit>>
-----------------------------------------------------------------------------
(* The end of forwardProxy.  A failure before the head was committed       *)
(* becomes a JSON error; later ones leave a response that is cut short.    *)
Fails(p) == /\ Goes(p, IF call[p].committed THEN "cutshort" ELSE "failed")
            /\ IF call[p].committed THEN UNCHANGED client ELSE Shows(p, "error")
            /\ UNCHANGED <<upstream, context, audit, upload>>

(* commit: the head is sent, and nothing after it can change the status.   *)
Commits(p, at, n) ==
    /\ call' = [call EXCEPT ![p].at = at, ![p].committed = TRUE, ![p].written = @ + n]
    /\ Shows(p, "partial")
    /\ UNCHANGED <<upstream, context, audit, upload>>

CallFails(p) == call[p].at = "calling" /\ upstream[p].head = "none" /\ Fails(p)

(* A status of 300 or more: its bounded body, then a check of the context, *)
(* the head and one write, which the client may not take in time.          *)
RelaysRefusal(p) == /\ call[p].at = "calling" /\ upstream[p].head = "refused"
                    /\ context[p] = "live" /\ \E at \in {"relayed", "cutshort"} : Commits(p, at, 0)
RefusalFails(p) == /\ call[p].at = "calling" /\ upstream[p].head = "refused"
                   /\ context[p] # "live" /\ Fails(p)

StartsCopy(p) == /\ call[p].at = "calling" /\ upstream[p].head = "ok" /\ Goes(p, "copying")
                 /\ UNCHANGED <<upstream, context, client, audit, upload>>

(* prefetch: the head of an event stream waits for its first event.        *)
Prefetches(p) ==
    /\ call[p].at = "copying" /\ call[p].sse /\ ~call[p].committed
    /\ upstream[p].body > 0 /\ context[p] = "live"
    /\ Commits(p, "copying", 0)

(* One read that has data: the idle clock is paused, which reports an      *)
(* ended context, and the head of other bodies is committed before the     *)
(* first write, which the client may not take in time.                     *)
Copies(p) ==
    /\ call[p].at = "copying" /\ call[p].written < upstream[p].body
    /\ context[p] = "live" /\ call[p].sse => call[p].committed
    /\ Commits(p, "copying", 1) \/ Commits(p, "cutshort", 0)

(* The context ends while the handler reads or writes.                     *)
CopyFails(p) == call[p].at = "copying" /\ context[p] # "live" /\ Fails(p)

(* The body has been copied: an end of file is a success unless a native   *)
(* stream still owes its message_stop; an error event or a cut is not.     *)
Whole(p) == IF call[p].kind = "native" /\ call[p].sse THEN upstream[p].end = "stop"
            ELSE upstream[p].end = "eof"
CopyEnds(p) ==
    /\ call[p].at = "copying" /\ call[p].written = upstream[p].body
    /\ upstream[p].end # "open" /\ context[p] = "live"
    /\ IF Whole(p) THEN Commits(p, "relayed", 0) ELSE Fails(p)

(* recordNativeAudit, logPassthroughAudit: one row with the status of the  *)
(* outcome, also for a client that has left.                               *)
Records(p) ==
    /\ call[p].at \in {"relayed", "failed", "cutshort"}
    /\ audit' = [audit EXCEPT ![p] = Append(@, IF call[p].at = "relayed" /\ upstream[p].head = "ok"
                                              THEN "success" ELSE "error")]
    /\ Goes(p, IF call[p].at = "cutshort" THEN "aborting" ELSE "returning")
    /\ UNCHANGED <<upstream, context, client, upload>>

\* Mutant of Aborts: the handler returns, and the server ends the response.
AbortsQuietly(p) == /\ call[p].at = "aborting" /\ Goes(p, "leaving") /\ Shows(p, "complete")
                    /\ UNCHANGED <<upstream, context, audit, upload>>

(* abortIncompleteProxy: the handler panics and the server closes the      *)
(* connection instead of finishing the response.                           *)
Aborts(p) == /\ call[p].at = "aborting" /\ Goes(p, "leaving") /\ Shows(p, "aborted")
             /\ UNCHANGED <<upstream, context, audit, upload>>

Returns(p) == /\ call[p].at = "returning" /\ Goes(p, "leaving")
              /\ Shows(p, IF client[p] = "partial" THEN "complete" ELSE client[p])
              /\ UNCHANGED <<upstream, context, audit, upload>>

(* The deferred calls: the pipe is closed and its encoder joined, the      *)
(* permits are released, the files removed.                                *)
Leaves(p) ==
    /\ call[p].at = "leaving" /\ upload[p].encoder # "running"
    /\ call' = [call EXCEPT ![p].at = "ended", ![p].dep = NoDep]
    /\ upload' = [upload EXCEPT ![p].files = IF @ = "kept" THEN "removed" ELSE @]
    /\ UNCHANGED <<upstream, context, client, audit>>

ProxyNext == \E p \in Requests :
    \/ \E k \in Kinds : Admits(p, k)
    \/ NotAdmitted(p) \/ FindsTarget(p) \/ NoTarget(p) \/ NoDeployment(p) \/ NoRequest(p) \/ Dials(p)
    \/ \E d \in Deps : SkipsDeployment(p, d) \/ TakesDeployment(p, d)
    \/ \E h \in {"ok", "refused"}, s \in BOOLEAN : Answers(p, h, s)
    \/ Sends(p) \/ \E end \in {"eof", "cut", "stop", "fault"} : Finishes(p, end)
    \/ ClientLeaves(p) \/ DeadlinePasses(p) \/ EncoderEnds(p)
    \/ CallFails(p) \/ RelaysRefusal(p) \/ RefusalFails(p) \/ StartsCopy(p)
    \/ Prefetches(p) \/ Copies(p) \/ CopyFails(p) \/ CopyEnds(p)
    \/ Records(p) \/ Aborts(p) \/ Returns(p) \/ Leaves(p)

ProxySpec == ProxyInit /\ [][ProxyNext]_proxyVars
-----------------------------------------------------------------------------
TypeOK == \A p \in Requests : /\ call[p].written \in 0 .. upstream[p].body
                              /\ call[p].tried \subseteq Deps

(***************************************************************************)
(* A client that sees a response end as a success has all of it: whatever  *)
(* the upstream, the deadlines and the copying did, a truncated body ends  *)
(* in an error or a broken connection (forwardProxy,                       *)
(* abortIncompleteProxy).                                                  *)
(***************************************************************************)
TruncationIsVisible == \A p \in Requests :
    (client[p] = "complete" /\ upstream[p].head = "ok") =>
        /\ upstream[p].end = IF call[p].kind = "native" /\ call[p].sse THEN "stop" ELSE "eof"
        /\ call[p].written = upstream[p].body

(***************************************************************************)
(* A request that called an upstream records exactly one usage row, a      *)
(* success if and only if the whole response was handed over, and one that *)
(* did not records a denial at most; no upload's files are removed while   *)
(* they are read, and none are left (recordNativeAudit, recordDenial,      *)
(* multipartBody.Close).  Whether the store keeps the row is Accounting's. *)
(***************************************************************************)
ForwardsAreRecorded == \A p \in Requests :
    /\ call[p].at = "ended" =>
         /\ audit[p] \in IF call[p].called THEN {<<"success">>, <<"error">>} ELSE {<<>>, <<"denied">>}
         /\ client[p] = "complete" => audit[p] = <<IF upstream[p].head = "ok" THEN "success" ELSE "error">>
         /\ client[p] \in {"aborted", "error"} => audit[p] # <<"success">>
         /\ upload[p].files # "kept"
    /\ upload[p].files = "removed" => upload[p].encoder # "running"
=============================================================================
