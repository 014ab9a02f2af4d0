---------------------------- MODULE ResponsesAPI ----------------------------
(***************************************************************************)
(* The native Responses API.  The provider owns the content of a response; *)
(* the gateway keeps one binding row per stored response: who may use it   *)
(* and on which deployment, under which identity, it lives.  A creation    *)
(* calls a provider and writes the row before the client sees the id;      *)
(* continuations, reads and deletions go to the deployment of the row.     *)
(* Replicas, provider and database interleave at every call.               *)
(***************************************************************************)
EXTENDS Integers, FiniteSets

CONSTANTS
    Creates,       \* creation requests; each draws its own fresh gateway id
    Reads,         \* requests for a stored response: get, input items, delete
    Sends,         \* Creates -> the requests it may be: [who, stream, store, prev]
    Callers,       \* who sends a request
    OwnerOf,       \* Callers -> the key, user or JWT subject behind it
    ScopeOf,       \* Callers -> the model alias and customer it names
    Deps,          \* deployments able to serve the alias
    PermitCap,     \* upstream permits of each deployment
    NoId,          \* no response, no deployment
    MaxEdits,      \* bound: deployment edits
    MaxFaults      \* bound: failed statements

VARIABLES
    row,       \* response_bindings, by gateway id
    native,    \* responses the providers hold, by <<creation, attempt>>
    identity,  \* the registry's routing identity of each deployment; 0 when removed
    create,    \* the creations in progress
    read,      \* the resource requests in progress
    edits, faults

respVars == <<row, native, identity, create, read, edits, faults>>

(* "incomplete" is treated as "completed" everywhere and stands with it. *)
Terminal == {"completed", "failed"}
NoRow == [row |-> "absent"]
NoTarget == [dep |-> NoId, ident |-> 0]

Idle == [pc |-> "idle", who |-> NoId, stream |-> FALSE, store |-> FALSE, prev |-> NoId,
         home |-> NoTarget, prevUp |-> NoId, tried |-> {}, target |-> NoTarget, permit |-> FALSE,
         status |-> "", stored |-> FALSE, saw |-> "nothing", accepted |-> 0,
         started |-> FALSE, charge |-> "none"]

ResponsesInit == /\ row = [q \in Creates |-> NoRow]
                 /\ native = [u \in {} |-> NoRow]
                 /\ identity = [d \in Deps |-> 1]
                 /\ create = [q \in Creates |-> Idle]
                 /\ read = [q \in Reads |-> [pc |-> "idle"]]
                 /\ edits = 0 /\ faults = 0

Set(q, upd) == create' = [create EXCEPT ![q] = [f \in DOMAIN Idle |-> IF f \in DOMAIN upd THEN upd[f] ELSE @[f]]]

(* The request ends: its deferred calls charge the reported usage, or the  *)
(* estimate, when a provider was called and release the reservation        *)
(* otherwise, then return the permit and the admission.                    *)
Ends(q, started, saw, accepted) ==
    create' = [create EXCEPT ![q] = [Idle EXCEPT !.pc = "done", !.store = create[q].store,
                 !.saw = saw, !.accepted = accepted, !.started = started,
                 !.charge = IF started THEN "charged" ELSE "released"]]
Fails(q) == Ends(q, create[q].started, create[q].saw, create[q].accepted)

(* The id the provider gives its response to the current attempt. *)
Uid(q) == <<q, Cardinality(create[q].tried)>>

InUse(d) == Cardinality({q \in Creates : create[q].permit /\ create[q].target.dep = d})
            + Cardinality({q \in Reads : read[q].pc \in {"call", "unbind"} /\ read[q].dep = d})

----------------------------------------------------------------------------
(* The binding table. *)

(* GetResponseBinding: the caller's own unexpired row. *)
GetResponseBinding(who, p) == p # NoId /\ row[p].row = "live" /\ row[p].owner = OwnerOf[who]

Binding(q, status) == LET c == create[q]
                      IN  [row |-> "live", owner |-> OwnerOf[c.who], scope |-> ScopeOf[c.who],
                           home |-> c.target, up |-> Uid(q), status |-> status]

(* UpdateResponseBinding: a row that is gone is ErrNotFound. *)
Updates(q) == row[q].row \in {"live", "expired"}

(* saveResponseBinding: the first writes the row, later ones update it.    *)
(* The statement may fail, applied or not.                                 *)
Saves(q, status, ok) ==
    LET new == ~create[q].stored
        found == new \/ Updates(q)
        writes == [row EXCEPT ![q] = [Binding(q, status) EXCEPT !.row = IF new THEN "live" ELSE row[q].row]]
    IN  \/ ok /\ found /\ row' = writes /\ UNCHANGED faults
        \/ ~ok /\ ~found /\ UNCHANGED <<row, faults>>
        \/ /\ ~ok /\ faults < MaxFaults /\ faults' = faults + 1
           /\ row' \in {row, IF found THEN writes ELSE row}

(* PruneResponseBindings, once a second, and the clock passing expires_at. *)
Expires(p) == /\ row[p].row = "live"
              /\ row' = [row EXCEPT ![p].row = "expired"]
              /\ UNCHANGED <<native, identity, create, read, edits, faults>>

PruneResponseBindings ==
    /\ \E p \in Creates : row[p].row = "expired"
    /\ row' = [p \in Creates |-> IF row[p].row = "expired" THEN [row[p] EXCEPT !.row = "pruned"] ELSE row[p]]
    /\ UNCHANGED <<native, identity, create, read, edits, faults>>

----------------------------------------------------------------------------
(* POST /v1/responses *)

(* decodeResponseRequest and validateResponseItems refuse it, or admission *)
(* or the store's ping fails.                                              *)
Refused(q) == Fails(q)

(* Decoding, the principal, the previous response (the caller's, of the    *)
(* same alias and customer, finished; its row is read once), and then      *)
(* concurrency, pricing, rate and budget admission and the store's ping.   *)
Responses(q, who, stream, store, prev) ==
    /\ create[q].pc = "idle"
    /\ \/ /\ prev # NoId => /\ GetResponseBinding(who, prev)
                             /\ row[prev].scope = ScopeOf[who]
                             /\ row[prev].status = "completed"
          /\ Set(q, [pc |-> "resolve", who |-> who, stream |-> stream, store |-> store, prev |-> prev,
                     home |-> IF prev # NoId THEN row[prev].home ELSE NoTarget,
                     prevUp |-> IF prev # NoId THEN row[prev].up ELSE NoId])
       \/ Refused(q)
    /\ UNCHANGED <<row, native, identity, read, edits, faults>>

\* Mutant of ResponseBoundTarget: the deployment is matched by name alone.
BoundByName(home) == {d \in Deps : identity[d] # 0 /\ home.dep = d}

(* responseBoundTarget: the deployment of the row, with the same identity. *)
ResponseBoundTarget(home) == {d \in Deps : identity[d] # 0 /\ home = [dep |-> d, ident |-> identity[d]]}

Candidates(c) == (IF c.prev # NoId THEN ResponseBoundTarget(c.home)
                  ELSE {d \in Deps : identity[d] # 0}) \ c.tried

(* One turn of openResponseWithFallback's loop: a deployment not yet tried *)
(* and a permit for it, or the end of the candidates.                      *)
Resolve(q) ==
    LET c == create[q]
    IN  /\ c.pc = "resolve"
        /\ \/ \E d \in Candidates(c) :
                IF InUse(d) < PermitCap
                THEN Set(q, [pc |-> "call", tried |-> c.tried \cup {d}, permit |-> TRUE,
                             target |-> [dep |-> d, ident |-> identity[d]]])
                ELSE Set(q, [tried |-> c.tried \cup {d}])
           \/ Candidates(c) = {} /\ Fails(q)
        /\ UNCHANGED <<row, native, identity, read, edits, faults>>

Held(q, status) == [x \in DOMAIN native \cup {Uid(q)} |->
    IF x = Uid(q) THEN [row |-> status, prev |-> create[q].prevUp, home |-> create[q].target,
                        owner |-> OwnerOf[create[q].who], scope |-> ScopeOf[create[q].who]]
    ELSE native[x]]

(* The provider call fails before a 2xx: the permit returns and only a new *)
(* conversation whose error is retryable tries another deployment.  A      *)
(* response created upstream by a call whose answer was lost is named by   *)
(* no row and is left out.                                                 *)
Rejected(q) ==
    LET c == create[q]
    IN  /\ c.pc = "call"
        /\ \/ c.prev = NoId /\ Set(q, [pc |-> "resolve", permit |-> FALSE, started |-> TRUE])
           \/ Ends(q, TRUE, "nothing", c.accepted)
        /\ UNCHANGED <<row, native, identity, read, edits, faults>>

\* Mutant of Accepted: a body that cannot be read is tried elsewhere.
AcceptedReplayed(q) ==
    LET c == create[q]
    IN  /\ c.pc = "call"
        /\ native' = Held(q, "completed")
        /\ \/ Set(q, [pc |-> IF c.stream THEN "stream" ELSE "validate",
                      started |-> TRUE, accepted |-> c.accepted + 1])
           \/ Set(q, [pc |-> "resolve", permit |-> FALSE, started |-> TRUE, accepted |-> c.accepted + 1])
        /\ UNCHANGED <<row, identity, read, edits, faults>>

(* A 2xx: the response exists upstream.  The first event or the whole body *)
(* must still be read; if that fails nothing is replayed.                  *)
Accepted(q) ==
    LET c == create[q]
    IN  /\ c.pc = "call"
        /\ \E s \in IF c.stream THEN {"in_progress"} ELSE Terminal \cup {"in_progress"} :
             /\ native' = Held(q, s)
             /\ \/ Set(q, [pc |-> IF c.stream THEN "stream" ELSE "validate",
                           started |-> TRUE, accepted |-> c.accepted + 1])
                \/ Ends(q, TRUE, "nothing", c.accepted + 1)
        /\ UNCHANGED <<row, identity, read, edits, faults>>

(* A JSON response: rewriteResponse checks the envelope and takes the id   *)
(* and the status; only a terminal one is recorded, and only a recorded    *)
(* one is shown.                                                           *)
AnswersJSON(q) ==
    LET c == create[q]
        s == native[Uid(q)].row
    IN  /\ c.pc = "validate"
        /\ \/ /\ s \in Terminal
              /\ IF c.store THEN Saves(q, s, TRUE) ELSE UNCHANGED <<row, faults>>
              /\ Ends(q, TRUE, s, c.accepted)
           \/ /\ s \in Terminal /\ c.store /\ Saves(q, s, FALSE)
              /\ Fails(q)
           \/ UNCHANGED <<row, faults>> /\ Fails(q)
        /\ UNCHANGED <<native, identity, read, edits>>

\* Mutant of ResponseEvent: the event is forwarded whether or not it was saved.
ResponseEventUnsaved(q, kind) ==
    LET c == create[q]
        due == c.store /\ (~c.stored \/ kind \in Terminal)
    IN  /\ c.pc = "stream" /\ native[Uid(q)].row \in {"in_progress", "deleted"}
        /\ native' = [native EXCEPT ![Uid(q)].row = IF @ = "deleted" THEN @ ELSE kind]
        /\ IF due THEN Saves(q, kind, TRUE) \/ Saves(q, kind, FALSE) ELSE UNCHANGED <<row, faults>>
        /\ Set(q, [pc |-> "emit", status |-> kind, stored |-> c.stored \/ due])
        /\ UNCHANGED <<identity, read, edits>>

(* One turn of forwardResponseStream with an event that carries the        *)
(* response: the row is written on the first and on the terminal one,      *)
(* before the event is forwarded.                                          *)
ResponseEvent(q, kind) ==
    LET c == create[q]
        due == c.store /\ (~c.stored \/ kind \in Terminal)
    IN  /\ c.pc = "stream" /\ native[Uid(q)].row \in {"in_progress", "deleted"}
        /\ native' = [native EXCEPT ![Uid(q)].row = IF @ = "deleted" THEN @ ELSE kind]
        /\ \/ /\ IF due THEN Saves(q, kind, TRUE) ELSE UNCHANGED <<row, faults>>
              /\ Set(q, [pc |-> "emit", status |-> kind, stored |-> c.stored \/ due])
           \/ due /\ Saves(q, kind, FALSE) /\ Fails(q)
        /\ UNCHANGED <<identity, read, edits>>

(* The event is written; the client may have gone. *)
Emits(q) ==
    LET c == create[q]
    IN  /\ c.pc = "emit"
        /\ \/ IF c.status \in Terminal THEN Ends(q, TRUE, c.status, c.accepted)
              ELSE Set(q, [pc |-> "stream", saw |-> "in_progress"])
           \/ Fails(q)
        /\ UNCHANGED <<row, native, identity, read, edits, faults>>

(* An event without a response (a delta) once the id is known, an error    *)
(* event, a malformed or missing one, the source's end or a deadline.      *)
DeltaEvent(q) == /\ create[q].pc = "stream"
                 /\ IF create[q].status # ""
                    THEN Set(q, [saw |-> "in_progress"])
                    ELSE Fails(q)
                 /\ UNCHANGED <<row, native, identity, read, edits, faults>>

StreamFails(q) == /\ create[q].pc = "stream"
                  /\ Fails(q)
                  /\ UNCHANGED <<row, native, identity, read, edits, faults>>

----------------------------------------------------------------------------
(* GET, GET input_items and DELETE of a stored response. *)

(* responseResource up to the provider call: the caller's row, its         *)
(* customer when one is named, admission, and the deployment of the row    *)
(* with the same identity and a free permit.                               *)
ResponseResource(q, who, p, op) ==
    /\ read[q].pc = "idle"
    /\ IF /\ GetResponseBinding(who, p)
          /\ ScopeOf[who] \in {NoId, row[p].scope}
       THEN read' = [read EXCEPT ![q] = [pc |-> "bound", id |-> p, op |-> op, up |-> row[p].up,
                                         home |-> row[p].home, owner |-> row[p].owner]]
       ELSE read' = [read EXCEPT ![q] = [pc |-> "done"]]
    /\ UNCHANGED <<row, native, identity, create, edits, faults>>

AcquiresTarget(q) ==
    LET d == read[q].home.dep
    IN  /\ read[q].pc = "bound"
        /\ \/ /\ d \in ResponseBoundTarget(read[q].home) /\ InUse(d) < PermitCap
              /\ read' = [read EXCEPT ![q] = [pc |-> "call", id |-> @.id, op |-> @.op, up |-> @.up,
                                               owner |-> @.owner, dep |-> d]]
           \/ read' = [read EXCEPT ![q] = [pc |-> "done"]]
        /\ UNCHANGED <<row, native, identity, create, edits, faults>>

(* The provider answers.  A read needs the response to exist there; a      *)
(* deletion removes it and confirms, or the confirmation is lost.          *)
ReadsNative(q) ==
    /\ read[q].pc = "call" /\ read[q].op # "delete"
    /\ read' = [read EXCEPT ![q] = [pc |-> "done"]]
    /\ UNCHANGED <<row, native, identity, create, edits, faults>>

DeletesNative(q) ==
    LET u == read[q].up
        found == native[u].row # "deleted"
    IN  /\ read[q].pc = "call" /\ read[q].op = "delete"
        /\ \/ /\ found /\ native' = [native EXCEPT ![u].row = "deleted"]
              /\ read' \in {[read EXCEPT ![q].pc = "unbind"], [read EXCEPT ![q] = [pc |-> "done"]]}
           \/ UNCHANGED native /\ read' = [read EXCEPT ![q] = [pc |-> "done"]]
        /\ UNCHANGED <<row, identity, create, edits, faults>>

DeleteResponseBinding(q) ==
    LET p == read[q].id
    IN  /\ read[q].pc = "unbind"
        /\ read' = [read EXCEPT ![q] = [pc |-> "done"]]
        /\ \/ /\ row' = [row EXCEPT ![p].row = IF @ = "pruned" THEN @ ELSE "deleted"]
              /\ UNCHANGED faults
           \/ faults < MaxFaults /\ faults' = faults + 1 /\ UNCHANGED row
        /\ UNCHANGED <<native, identity, create, edits>>

----------------------------------------------------------------------------
(* An administrator changes the URL or credential of a deployment, or      *)
(* removes it; every replica's registry follows.                           *)
EditDeployment(d) == /\ edits < MaxEdits /\ identity[d] # 0
                     /\ edits' = edits + 1
                     /\ identity' \in {[identity EXCEPT ![d] = 0], [identity EXCEPT ![d] = @ + 1]}
                     /\ UNCHANGED <<row, native, create, read, faults>>

CreateStep(q) == \/ \E m \in Sends[q] : Responses(q, m.who, m.stream, m.store, m.prev)
                 \/ Resolve(q) \/ Rejected(q) \/ Accepted(q) \/ AnswersJSON(q)
                 \/ \E kind \in Terminal \cup {"in_progress"} : ResponseEvent(q, kind)
                 \/ Emits(q) \/ DeltaEvent(q) \/ StreamFails(q)

ReadStep(q) == \/ \E who \in Callers, p \in Creates, op \in {"get", "delete"} : ResponseResource(q, who, p, op)
               \/ AcquiresTarget(q) \/ ReadsNative(q) \/ DeletesNative(q) \/ DeleteResponseBinding(q)

ResponsesNext == \/ \E q \in Creates : CreateStep(q)
                 \/ \E q \in Reads : ReadStep(q)
                 \/ \E p \in Creates : Expires(p)
                 \/ PruneResponseBindings
                 \/ \E d \in Deps : EditDeployment(d)

ResponsesSpec == ResponsesInit /\ [][ResponsesNext]_respVars

----------------------------------------------------------------------------
(* A client that has seen the id of a stored response can use it: while    *)
(* the row has not expired and the provider still holds the response, the  *)
(* row names it, and a terminal status shown is the row's status.  The     *)
(* row is written before the event that shows the id, and deleted only     *)
(* after the provider confirmed (responses_stream.go:64, :161).            *)
ShownIdsResolve ==
    \A q \in Creates : LET c == create[q] IN
        (c.store /\ c.saw # "nothing" /\ row[q].row \notin {"expired", "pruned"}
         /\ \E u \in DOMAIN native : u[1] = q /\ native[u].row # "deleted")
        => /\ row[q].row = "live" /\ native[row[q].up].row # "deleted"
           /\ c.saw \in Terminal => row[q].status = c.saw

(* A continuation runs where its previous response lives: the same owner,  *)
(* alias and customer, deployment and routing identity, whatever edits     *)
(* the registry saw between the two.                                       *)
ContinuesWhereItWas ==
    \A u \in DOMAIN native : LET n == native[u] IN
        n.prev # NoId => LET p == native[n.prev]
                         IN  n.home = p.home /\ n.owner = p.owner /\ n.scope = p.scope

(* Work a provider accepted is never repeated for the request and never    *)
(* refunded (responses.go:269-273), and no permit outlives its request.    *)
AcceptedIsCharged ==
    \A q \in Creates : LET c == create[q] IN
        /\ c.accepted <= 1
        /\ c.pc = "done" => /\ c.started => c.charge = "charged"
                            /\ ~c.permit
=============================================================================
