------------------------- MODULE RequestEntryProofs -------------------------
(***************************************************************************)
(* Proofs for RequestEntry, for any finite set of connections, any callers *)
(* with any limits, any capacity of the gate and any number of requests.   *)
(* The invariant places every resource at the layers that may hold it, so  *)
(* that each step of the way out gives back exactly its own.               *)
(***************************************************************************)
EXTENDS RequestEntry, FiniteSetTheorems, TLAPS

Stages == {"idle", "registered", "timed", "gate", "permitted", "checked", "known", "handler"}
Callback == {"unset", "armed", "running", "done"}
Inside == {c \in Conns : stage[c] # "idle"}

\* The types that the argument needs.
Shapes ==
    /\ stage \in [Conns -> Stages]
    /\ deadline \in [Conns -> Callback]
    /\ lease = [c \in Conns |-> lease[c]]
    /\ slots \subseteq Conns /\ queuedAtDrain \subseteq Conns
    /\ draining \in BOOLEAN

\* A permit is held from the gate inwards, a lease in the handler alone, the
\* deadline's callback exists inside its own layer, and who was queued when
\* draining began has come no further than the second look.
Places ==
    /\ \A c \in slots : stage[c] \in {"permitted", "checked", "known", "handler"}
    /\ \A c \in Conns : lease[c] # {} => stage[c] = "handler"
    /\ \A c \in Conns : stage[c] \in {"idle", "registered"} => deadline[c] = "unset"
    /\ touched = {}
    /\ ~draining => queuedAtDrain = {}
    /\ \A c \in queuedAtDrain : stage[c] \in {"idle", "registered", "timed", "gate", "permitted"}

Count == active = Cardinality(Inside)

IInv == Shapes /\ Places /\ Count
-----------------------------------------------------------------------------
(***************************************************************************)
(* Every step keeps the types (the layers of server.New in their order).   *)
(***************************************************************************)
LEMMA ShapesStep == Shapes /\ [EntryNext]_entryVars => Shapes'
<1> SUFFICES ASSUME Shapes, [EntryNext]_entryVars PROVE Shapes'
  OBVIOUS
<1> USE DEF Shapes, Stages, Callback
<1>1. CASE UNCHANGED entryVars
  BY <1>1 DEF entryVars
<1>2. ASSUME NEW c \in Conns,
             \/ Register(c) \/ SetDeadline(c) \/ Queue(c) \/ Admit(c) \/ RecheckDraining(c)
             \/ PassUnlimited(c)
      PROVE  Shapes'
  BY <1>2 DEF Register, SetDeadline, Queue, Admit, RecheckDraining, PassUnlimited, Enters
<1>3. ASSUME NEW c \in Conns, NEW who \in Callers, Authenticate(c, who) PROVE Shapes'
  BY <1>3 DEF Authenticate, Enters
<1>4. ASSUME NEW c \in Conns, TakeLease(c) PROVE Shapes'
  BY <1>4 DEF TakeLease, Enters
<1>5. ASSUME NEW c \in Conns,
             \/ GateRefuses(c) \/ RejectDrained(c) \/ Unauthenticated(c) \/ NoLease(c)
             \/ HandlerReturns(c)
      PROVE  Shapes'
  BY <1>5 DEF GateRefuses, RejectDrained, Unauthenticated, NoLease, HandlerReturns, TurnsAway
<1>6. ASSUME NEW c \in Conns,
             \/ ReleaseLease(c) \/ ReleasePermit(c) \/ JoinDeadline(c) \/ Deregister(c)
      PROVE  Shapes'
  BY <1>6 DEF ReleaseLease, ReleasePermit, JoinDeadline, Deregister, Leaves
<1>7. ASSUME NEW c \in Conns, ContextEnds(c) \/ DeadlineCallback(c) \/ CancelCallback(c)
      PROVE  Shapes'
  BY <1>7 DEF ContextEnds, DeadlineCallback, CancelCallback, Starts
<1>8. CASE Drain \/ CancelRequests
  BY <1>8, Zenon DEF Drain, CancelRequests
<1> QED
  BY <1>1, <1>2, <1>3, <1>4, <1>5, <1>6, <1>7, <1>8 DEF EntryNext

(***************************************************************************)
(* Every step keeps what is held where (the deferred functions, and the    *)
(* look at draining after the gate).                                       *)
(***************************************************************************)
LEMMA PlacesStep == Shapes /\ Places /\ [EntryNext]_entryVars => Places'
<1> SUFFICES ASSUME Shapes, Places, [EntryNext]_entryVars PROVE Places'
  OBVIOUS
<1> USE DEF Shapes, Places, Stages, Callback
<1>1. CASE UNCHANGED entryVars
  BY <1>1 DEF entryVars
<1>2. ASSUME NEW c \in Conns,
             \/ Register(c) \/ SetDeadline(c) \/ Queue(c) \/ Admit(c) \/ RecheckDraining(c)
             \/ PassUnlimited(c) \/ TakeLease(c)
      PROVE  Places'
  <2>1. CASE Register(c)
    BY <2>1 DEF Register, Enters
  <2>2. CASE SetDeadline(c)
    BY <2>2 DEF SetDeadline, Enters
  <2>3. CASE Queue(c) \/ RecheckDraining(c) \/ PassUnlimited(c)
    BY <2>3 DEF Queue, RecheckDraining, PassUnlimited, Enters
  <2>4. CASE Admit(c)
    BY <2>4 DEF Admit, Enters
  <2>5. CASE TakeLease(c)
    BY <2>5 DEF TakeLease, Enters
  <2> QED BY <1>2, <2>1, <2>2, <2>3, <2>4, <2>5
<1>3. ASSUME NEW c \in Conns, NEW who \in Callers, Authenticate(c, who) PROVE Places'
  BY <1>3 DEF Authenticate, Enters
<1>4. ASSUME NEW c \in Conns,
             \/ GateRefuses(c) \/ RejectDrained(c) \/ Unauthenticated(c) \/ NoLease(c)
             \/ HandlerReturns(c)
      PROVE  Places'
  BY <1>4 DEF GateRefuses, RejectDrained, Unauthenticated, NoLease, HandlerReturns, TurnsAway
<1>5. ASSUME NEW c \in Conns,
             \/ ReleaseLease(c) \/ ReleasePermit(c) \/ JoinDeadline(c) \/ Deregister(c)
      PROVE  Places'
  BY <1>5 DEF ReleaseLease, ReleasePermit, JoinDeadline, Deregister, Leaves
<1>6. ASSUME NEW c \in Conns, ContextEnds(c) \/ DeadlineCallback(c) \/ CancelCallback(c)
      PROVE  Places'
  BY <1>6 DEF ContextEnds, DeadlineCallback, CancelCallback, Starts, HasDeadline
<1>7. CASE Drain \/ CancelRequests
  BY <1>7 DEF Drain, CancelRequests
<1> QED
  BY <1>1, <1>2, <1>3, <1>4, <1>5, <1>6, <1>7 DEF EntryNext

(***************************************************************************)
(* Registration and its deferred undoing are the only changes of the count *)
(* and the only ways into and out of the stack (inferenceLifecycle).       *)
(***************************************************************************)
LEMMA CountStep ==
    ASSUME IsFiniteSet(Conns), Shapes, Count, [EntryNext]_entryVars
    PROVE  Count'
<1> USE DEF Shapes, Stages, Callback
<1>0. IsFiniteSet(Inside)
  BY FS_Subset DEF Inside
<1>1. CASE UNCHANGED entryVars
  BY <1>1 DEF entryVars, Count, Inside
<1>2. ASSUME NEW c \in Conns, Register(c) PROVE Count'
  <2>1. Inside' = Inside \cup {c} /\ c \notin Inside
    BY <1>2 DEF Register, Enters, Inside
  <2>2. Cardinality(Inside') = Cardinality(Inside) + 1
    BY <1>0, <2>1, FS_AddElement, Zenon
  <2> QED BY <1>2, <2>2 DEF Register, Count
<1>3. ASSUME NEW c \in Conns, Deregister(c) PROVE Count'
  <2>1. Inside' = Inside \ {c} /\ c \in Inside
    BY <1>3 DEF Deregister, Leaves, Inside
  <2>2. Cardinality(Inside') = Cardinality(Inside) - 1
    BY <1>0, <2>1, FS_RemoveElement, Zenon
  <2> QED BY <1>3, <2>2 DEF Deregister, Count
<1>4. ASSUME NEW c \in Conns,
             \/ SetDeadline(c) \/ Queue(c) \/ Admit(c) \/ RecheckDraining(c)
             \/ PassUnlimited(c) \/ TakeLease(c) \/ \E who \in Callers : Authenticate(c, who)
      PROVE  Count'
  <2>1. Inside' = Inside /\ active' = active
    BY <1>4 DEF SetDeadline, Queue, Admit, RecheckDraining, PassUnlimited, TakeLease, Authenticate,
                Enters, Inside
  <2> QED BY <2>1 DEF Count
<1>5. ASSUME NEW c \in Conns,
             \/ GateRefuses(c) \/ RejectDrained(c) \/ Unauthenticated(c) \/ NoLease(c)
             \/ HandlerReturns(c) \/ ContextEnds(c) \/ DeadlineCallback(c) \/ CancelCallback(c)
      PROVE  Count'
  <2>1. Inside' = Inside /\ active' = active
    BY <1>5 DEF GateRefuses, RejectDrained, Unauthenticated, NoLease, HandlerReturns, TurnsAway,
                ContextEnds, DeadlineCallback, CancelCallback, Inside
  <2> QED BY <2>1 DEF Count
<1>6. ASSUME NEW c \in Conns, ReleaseLease(c) \/ ReleasePermit(c) \/ JoinDeadline(c)
      PROVE  Count'
  <2>1. Inside' = Inside /\ active' = active
    BY <1>6 DEF ReleaseLease, ReleasePermit, JoinDeadline, Leaves, Inside
  <2> QED BY <2>1 DEF Count
<1>7. CASE Drain \/ CancelRequests
  BY <1>7 DEF Drain, CancelRequests, Count, Inside
<1> QED
  BY <1>1, <1>2, <1>3, <1>4, <1>5, <1>6, <1>7 DEF EntryNext

(***************************************************************************)
(* No connection has a request at first (initLifecycle).                   *)
(***************************************************************************)
LEMMA EntryStarts == EntryInit => IInv
<1> SUFFICES ASSUME EntryInit PROVE IInv
  OBVIOUS
<1>1. Shapes /\ Places
  BY Zenon DEF EntryInit, Shapes, Places, Stages, Callback
<1>2. Inside = {}
  BY DEF EntryInit, Inside
<1>3. Count
  BY <1>2, FS_EmptySet DEF EntryInit, Count
<1> QED BY <1>1, <1>3 DEF IInv

(***************************************************************************)
(* However a request leaves the middleware, it leaves nothing behind:      *)
(* between two requests a connection holds no permit and no lease, is not  *)
(* counted, and no callback of an ended request still reaches it           *)
(* (deadlineMiddleware, admissionMiddleware, inferenceLifecycle).          *)
(***************************************************************************)
THEOREM EntryLeavesNothing ==
    ASSUME IsFiniteSet(Conns)
    PROVE  EntrySpec => []NothingOutlivesTheRequest
<1>1. EntryInit => IInv
  BY EntryStarts
<1>2. IInv /\ [EntryNext]_entryVars => IInv'
  BY ShapesStep, PlacesStep, CountStep DEF IInv
<1>3. IInv => NothingOutlivesTheRequest
  BY DEF IInv, Shapes, Places, Count, Inside, NothingOutlivesTheRequest
<1> QED BY <1>1, <1>2, <1>3, PTL DEF EntrySpec

(***************************************************************************)
(* A request that waited for the gate when draining began is never         *)
(* authenticated or served (rejectDrained).                                *)
(***************************************************************************)
THEOREM EntryServesNoneDrained == EntrySpec => []DrainedNeverServed
<1>1. EntryInit => Shapes /\ Places
  BY EntryStarts DEF IInv
<1>2. Shapes /\ Places /\ [EntryNext]_entryVars => (Shapes /\ Places)'
  BY ShapesStep, PlacesStep
<1>3. Shapes /\ Places => DrainedNeverServed
  BY DEF Shapes, Places, DrainedNeverServed
<1> QED BY <1>1, <1>2, <1>3, PTL DEF EntrySpec
=============================================================================
