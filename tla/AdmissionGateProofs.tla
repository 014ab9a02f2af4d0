------------------------ MODULE AdmissionGateProofs ------------------------
(***************************************************************************)
(* The admission gate never runs more than MaxInFlight handlers and never  *)
(* loses a token, for every number of callers, slots and queue places.     *)
(*                                                                         *)
(* AtMostMaxInFlight is not inductive: it follows from the fact that every *)
(* running caller owns one token of slots, which in turn needs to know     *)
(* which locations own one (TokensAccounted).  That queued.Add(-1) keeps    *)
(* the counters natural numbers needs the same for Stats (StatsAccounted). *)
(***************************************************************************)
EXTENDS AdmissionGate, FiniteSetTheorems, TLAPS

\* Acquire fixes its outcome only on leaving a select.
Undecided == \A p \in Callers :
    pc[p] \in {"idle", "entered", "full", "enqueued", "waiting"} => outcome[p] = "none"

IInv == TypeOK /\ Undecided /\ TokensAccounted /\ StatsAccounted

\* A caller that enters a set of callers raises its cardinality by one.
LEMMA AddCaller ==
    ASSUME NEW S \in SUBSET Callers, NEW p \in Callers, p \notin S
    PROVE  Cardinality(S \cup {p}) = Cardinality(S) + 1 /\ Cardinality(S) \in Nat
<1>1. IsFiniteSet(S)
    BY GateAssumption, FS_Subset
<1>2. QED
    BY <1>1, FS_AddElement, FS_CardinalityType

\* A caller that leaves a set of callers lowers its cardinality by one.
LEMMA DropCaller ==
    ASSUME NEW S \in SUBSET Callers, NEW p \in S
    PROVE  Cardinality(S \ {p}) = Cardinality(S) - 1 /\ Cardinality(S) \in Nat \ {0}
<1>1. IsFiniteSet(S)
    BY GateAssumption, FS_Subset
<1>2. Cardinality(S) \in Nat /\ Cardinality(S) # 0
    BY <1>1, FS_CardinalityType, FS_EmptySet
<1>3. QED
    BY <1>1, <1>2, FS_RemoveElement

\* The gate keeps its bookkeeping exact: every token and every count belongs to
\* one caller, in every reachable state (gate.go:76-116, 201-209).
THEOREM GateInvariant == Spec => []IInv
<1>1. Init => IInv
    <2> SUFFICES ASSUME Init PROVE IInv
        OBVIOUS
    <2>1. SlotHolders = {} /\ QueueHolders = {} /\ InFlightCounted = {} /\ QueuedCounted = {}
        BY DEF Init, SlotHolders, QueueHolders, InFlightCounted, QueuedCounted
    <2>2. TokensAccounted /\ StatsAccounted
        BY <2>1, FS_EmptySet DEF Init, TokensAccounted, StatsAccounted
    <2>3. TypeOK /\ Undecided
        BY GateAssumption DEF Init, TypeOK, Undecided, Locations, Outcomes
    <2>4. QED
        BY <2>2, <2>3 DEF IInv
<1>2. IInv /\ [Next]_vars => IInv'
    <2> SUFFICES ASSUME IInv, [Next]_vars PROVE IInv'
        OBVIOUS
    <2> USE GateAssumption DEF Goto, Decide
    <2>0. SlotHolders \in SUBSET Callers /\ QueueHolders \in SUBSET Callers
          /\ InFlightCounted \in SUBSET Callers /\ QueuedCounted \in SUBSET Callers
        BY DEF SlotHolders, QueueHolders, InFlightCounted, QueuedCounted
    <2>1. ASSUME NEW p \in Callers, Enter(p)
          PROVE  IInv'
        <3>1. UNCHANGED <<SlotHolders, QueueHolders, InFlightCounted, QueuedCounted>>
            BY <2>1 DEF Enter, IInv, TypeOK, Undecided, SlotHolders, QueueHolders, InFlightCounted, QueuedCounted
        <3>2. TokensAccounted' /\ StatsAccounted'
            BY <2>1, <3>1 DEF Enter, IInv, TypeOK, TokensAccounted, StatsAccounted
        <3>3. TypeOK' /\ Undecided'
            BY <2>1 DEF Enter, IInv, TypeOK, Undecided, Locations, Outcomes, TokensAccounted, StatsAccounted
        <3>4. QED
            BY <3>2, <3>3 DEF IInv
    <2>2. ASSUME NEW p \in Callers, TrySlot(p), slots < MaxInFlight
          PROVE  IInv'
        <3>1. UNCHANGED <<QueueHolders, InFlightCounted, QueuedCounted>>
            BY <2>2 DEF TrySlot, IInv, TypeOK, Undecided, SlotHolders, QueueHolders, InFlightCounted, QueuedCounted
        <3>2. p \notin SlotHolders /\ SlotHolders' = SlotHolders \cup {p}
            BY <2>2 DEF TrySlot, IInv, TypeOK, Undecided, SlotHolders
        <3>3. Cardinality(SlotHolders') = Cardinality(SlotHolders) + 1
            BY <2>0, <3>2, AddCaller
        <3>4. TokensAccounted' /\ StatsAccounted'
            BY <2>2, <3>1, <3>3 DEF TrySlot, IInv, TypeOK, TokensAccounted, StatsAccounted
        <3>5. TypeOK' /\ Undecided'
            BY <2>2, <3>3 DEF TrySlot, IInv, TypeOK, Undecided, Locations, Outcomes, TokensAccounted, StatsAccounted
        <3>6. QED
            BY <3>4, <3>5 DEF IInv
    <2>3. ASSUME NEW p \in Callers, TrySlot(p), slots = MaxInFlight
          PROVE  IInv'
        <3>1. UNCHANGED <<SlotHolders, QueueHolders, InFlightCounted, QueuedCounted>>
            BY <2>3 DEF TrySlot, IInv, TypeOK, Undecided, SlotHolders, QueueHolders, InFlightCounted, QueuedCounted
        <3>2. UNCHANGED <<slots, queue, inFlight, queued>>
            BY <2>3 DEF TrySlot
        <3>3. TokensAccounted' /\ StatsAccounted'
            BY <3>1, <3>2 DEF IInv, TokensAccounted, StatsAccounted
        <3>4. TypeOK' /\ Undecided'
            BY <2>3 DEF TrySlot, IInv, TypeOK, Undecided, Locations, Outcomes, TokensAccounted, StatsAccounted
        <3>5. QED
            BY <3>3, <3>4 DEF IInv
    <2>4. ASSUME NEW p \in Callers, TryQueue(p), queue' # queue
          PROVE  IInv'
        <3>1. UNCHANGED <<SlotHolders, InFlightCounted, QueuedCounted>>
            BY <2>4 DEF TryQueue, IInv, TypeOK, Undecided, SlotHolders, QueueHolders, InFlightCounted, QueuedCounted
        <3>2. p \notin QueueHolders /\ QueueHolders' = QueueHolders \cup {p}
            BY <2>4 DEF TryQueue, IInv, TypeOK, QueueHolders
        <3>3. Cardinality(QueueHolders') = Cardinality(QueueHolders) + 1
            BY <2>0, <3>2, AddCaller
        <3>4. TokensAccounted' /\ StatsAccounted'
            BY <2>4, <3>1, <3>3 DEF TryQueue, IInv, TypeOK, TokensAccounted, StatsAccounted
        <3>5. TypeOK' /\ Undecided'
            BY <2>4, <3>3 DEF TryQueue, IInv, TypeOK, Undecided, Locations, Outcomes, TokensAccounted, StatsAccounted
        <3>6. QED
            BY <3>4, <3>5 DEF IInv
    <2>5. ASSUME NEW p \in Callers, TryQueue(p), queue' = queue
          PROVE  IInv'
        <3>1. UNCHANGED <<SlotHolders, QueueHolders, InFlightCounted, QueuedCounted>>
            BY <2>5 DEF TryQueue, IInv, TypeOK, Undecided, SlotHolders, QueueHolders, InFlightCounted, QueuedCounted
        <3>2. TokensAccounted' /\ StatsAccounted'
            BY <2>5, <3>1 DEF TryQueue, IInv, TypeOK, TokensAccounted, StatsAccounted
        <3>3. TypeOK' /\ Undecided'
            BY <2>5 DEF TryQueue, IInv, TypeOK, Undecided, Locations, Outcomes, TokensAccounted, StatsAccounted
        <3>4. QED
            BY <3>2, <3>3 DEF IInv
    <2>6. ASSUME NEW p \in Callers, CountQueued(p)
          PROVE  IInv'
        <3>1. UNCHANGED <<SlotHolders, QueueHolders, InFlightCounted>>
            BY <2>6 DEF CountQueued, IInv, TypeOK, Undecided, SlotHolders, QueueHolders, InFlightCounted, QueuedCounted
        <3>2. p \notin QueuedCounted /\ QueuedCounted' = QueuedCounted \cup {p}
            BY <2>6 DEF CountQueued, IInv, TypeOK, QueuedCounted
        <3>3. Cardinality(QueuedCounted') = Cardinality(QueuedCounted) + 1
            BY <2>0, <3>2, AddCaller
        <3>4. TokensAccounted' /\ StatsAccounted'
            BY <2>6, <3>1, <3>3 DEF CountQueued, IInv, TypeOK, TokensAccounted, StatsAccounted
        <3>5. TypeOK' /\ Undecided'
            BY <2>6, <3>3 DEF CountQueued, IInv, TypeOK, Undecided, Locations, Outcomes, TokensAccounted, StatsAccounted
        <3>6. QED
            BY <3>4, <3>5 DEF IInv
    <2>7. ASSUME NEW p \in Callers, Granted(p)
          PROVE  IInv'
        <3>1. UNCHANGED <<QueueHolders, InFlightCounted, QueuedCounted>>
            BY <2>7 DEF Granted, IInv, TypeOK, Undecided, SlotHolders, QueueHolders, InFlightCounted, QueuedCounted
        <3>2. p \notin SlotHolders /\ SlotHolders' = SlotHolders \cup {p}
            BY <2>7 DEF Granted, IInv, TypeOK, Undecided, SlotHolders
        <3>3. Cardinality(SlotHolders') = Cardinality(SlotHolders) + 1
            BY <2>0, <3>2, AddCaller
        <3>4. TokensAccounted' /\ StatsAccounted'
            BY <2>7, <3>1, <3>3 DEF Granted, IInv, TypeOK, TokensAccounted, StatsAccounted
        <3>5. TypeOK' /\ Undecided'
            BY <2>7, <3>3 DEF Granted, IInv, TypeOK, Undecided, Locations, Outcomes, TokensAccounted, StatsAccounted
        <3>6. QED
            BY <3>4, <3>5 DEF IInv
    <2>8. ASSUME NEW p \in Callers, QueueTimeout(p)
          PROVE  IInv'
        <3>1. UNCHANGED <<SlotHolders, QueueHolders, InFlightCounted, QueuedCounted>>
            BY <2>8 DEF QueueTimeout, IInv, TypeOK, Undecided, SlotHolders, QueueHolders, InFlightCounted, QueuedCounted
        <3>2. TokensAccounted' /\ StatsAccounted'
            BY <2>8, <3>1 DEF QueueTimeout, IInv, TypeOK, TokensAccounted, StatsAccounted
        <3>3. TypeOK' /\ Undecided'
            BY <2>8 DEF QueueTimeout, IInv, TypeOK, Undecided, Locations, Outcomes, TokensAccounted, StatsAccounted
        <3>4. QED
            BY <3>2, <3>3 DEF IInv
    <2>9. ASSUME NEW p \in Callers, Canceled(p)
          PROVE  IInv'
        <3>1. UNCHANGED <<SlotHolders, QueueHolders, InFlightCounted, QueuedCounted>>
            BY <2>9 DEF Canceled, IInv, TypeOK, Undecided, SlotHolders, QueueHolders, InFlightCounted, QueuedCounted
        <3>2. TokensAccounted' /\ StatsAccounted'
            BY <2>9, <3>1 DEF Canceled, IInv, TypeOK, TokensAccounted, StatsAccounted
        <3>3. TypeOK' /\ Undecided'
            BY <2>9 DEF Canceled, IInv, TypeOK, Undecided, Locations, Outcomes, TokensAccounted, StatsAccounted
        <3>4. QED
            BY <3>2, <3>3 DEF IInv
    <2>10. ASSUME NEW p \in Callers, Count(p)
          PROVE  IInv'
        <3>1. UNCHANGED <<SlotHolders, QueueHolders, QueuedCounted>>
            BY <2>10 DEF Count, IInv, TypeOK, Undecided, SlotHolders, QueueHolders, InFlightCounted, QueuedCounted
        <3>2. p \notin InFlightCounted /\ InFlightCounted' = InFlightCounted \cup {p}
            BY <2>10 DEF Count, IInv, TypeOK, InFlightCounted
        <3>3. Cardinality(InFlightCounted') = Cardinality(InFlightCounted) + 1
            BY <2>0, <3>2, AddCaller
        <3>4. TokensAccounted' /\ StatsAccounted'
            BY <2>10, <3>1, <3>3 DEF Count, IInv, TypeOK, TokensAccounted, StatsAccounted
        <3>5. TypeOK' /\ Undecided'
            BY <2>10, <3>3 DEF Count, IInv, TypeOK, Undecided, Locations, Outcomes, TokensAccounted, StatsAccounted
        <3>6. QED
            BY <3>4, <3>5 DEF IInv
    <2>11. ASSUME NEW p \in Callers, LeaveQueue(p)
          PROVE  IInv'
        <3>1. UNCHANGED <<SlotHolders, InFlightCounted, QueuedCounted>>
            BY <2>11 DEF LeaveQueue, IInv, TypeOK, Undecided, SlotHolders, QueueHolders, InFlightCounted, QueuedCounted
        <3>2. p \in QueueHolders /\ QueueHolders' = QueueHolders \ {p}
            BY <2>11 DEF LeaveQueue, IInv, TypeOK, QueueHolders
        <3>3. Cardinality(QueueHolders') = Cardinality(QueueHolders) - 1 /\ Cardinality(QueueHolders) \in Nat \ {0}
            BY <2>0, <3>2, DropCaller
        <3>4. TokensAccounted' /\ StatsAccounted'
            BY <2>11, <3>1, <3>3 DEF LeaveQueue, IInv, TypeOK, TokensAccounted, StatsAccounted
        <3>5. TypeOK' /\ Undecided'
            BY <2>11, <3>3 DEF LeaveQueue, IInv, TypeOK, Undecided, Locations, Outcomes, TokensAccounted, StatsAccounted
        <3>6. QED
            BY <3>4, <3>5 DEF IInv
    <2>12. ASSUME NEW p \in Callers, UncountQueued(p)
          PROVE  IInv'
        <3>1. UNCHANGED <<SlotHolders, QueueHolders, InFlightCounted>>
            BY <2>12 DEF UncountQueued, IInv, TypeOK, Undecided, SlotHolders, QueueHolders, InFlightCounted, QueuedCounted
        <3>2. p \in QueuedCounted /\ QueuedCounted' = QueuedCounted \ {p}
            BY <2>12 DEF UncountQueued, IInv, TypeOK, QueuedCounted
        <3>3. Cardinality(QueuedCounted') = Cardinality(QueuedCounted) - 1 /\ Cardinality(QueuedCounted) \in Nat \ {0}
            BY <2>0, <3>2, DropCaller
        <3>4. TokensAccounted' /\ StatsAccounted'
            BY <2>12, <3>1, <3>3 DEF UncountQueued, IInv, TypeOK, TokensAccounted, StatsAccounted
        <3>5. TypeOK' /\ Undecided'
            BY <2>12, <3>3 DEF UncountQueued, IInv, TypeOK, Undecided, Locations, Outcomes, TokensAccounted, StatsAccounted
        <3>6. QED
            BY <3>4, <3>5 DEF IInv
    <2>13. ASSUME NEW p \in Callers, Release(p)
          PROVE  IInv'
        <3>1. UNCHANGED <<QueueHolders, InFlightCounted, QueuedCounted>>
            BY <2>13 DEF Release, IInv, TypeOK, Undecided, SlotHolders, QueueHolders, InFlightCounted, QueuedCounted
        <3>2. p \in SlotHolders /\ SlotHolders' = SlotHolders \ {p}
            BY <2>13 DEF Release, IInv, TypeOK, Undecided, SlotHolders
        <3>3. Cardinality(SlotHolders') = Cardinality(SlotHolders) - 1 /\ Cardinality(SlotHolders) \in Nat \ {0}
            BY <2>0, <3>2, DropCaller
        <3>4. TokensAccounted' /\ StatsAccounted'
            BY <2>13, <3>1, <3>3 DEF Release, IInv, TypeOK, TokensAccounted, StatsAccounted
        <3>5. TypeOK' /\ Undecided'
            BY <2>13, <3>3 DEF Release, IInv, TypeOK, Undecided, Locations, Outcomes, TokensAccounted, StatsAccounted
        <3>6. QED
            BY <3>4, <3>5 DEF IInv
    <2>14. ASSUME NEW p \in Callers, Uncount(p)
          PROVE  IInv'
        <3>1. UNCHANGED <<SlotHolders, QueueHolders, QueuedCounted>>
            BY <2>14 DEF Uncount, IInv, TypeOK, Undecided, SlotHolders, QueueHolders, InFlightCounted, QueuedCounted
        <3>2. p \in InFlightCounted /\ InFlightCounted' = InFlightCounted \ {p}
            BY <2>14 DEF Uncount, IInv, TypeOK, InFlightCounted
        <3>3. Cardinality(InFlightCounted') = Cardinality(InFlightCounted) - 1 /\ Cardinality(InFlightCounted) \in Nat \ {0}
            BY <2>0, <3>2, DropCaller
        <3>4. TokensAccounted' /\ StatsAccounted'
            BY <2>14, <3>1, <3>3 DEF Uncount, IInv, TypeOK, TokensAccounted, StatsAccounted
        <3>5. TypeOK' /\ Undecided'
            BY <2>14, <3>3 DEF Uncount, IInv, TypeOK, Undecided, Locations, Outcomes, TokensAccounted, StatsAccounted
        <3>6. QED
            BY <3>4, <3>5 DEF IInv
    <2>15. ASSUME NEW p \in Callers, Reset(p)
          PROVE  IInv'
        <3>1. UNCHANGED <<SlotHolders, QueueHolders, InFlightCounted, QueuedCounted>>
            BY <2>15 DEF Reset, IInv, TypeOK, Undecided, SlotHolders, QueueHolders, InFlightCounted, QueuedCounted
        <3>2. TokensAccounted' /\ StatsAccounted'
            BY <2>15, <3>1 DEF Reset, IInv, TypeOK, TokensAccounted, StatsAccounted
        <3>3. TypeOK' /\ Undecided'
            BY <2>15 DEF Reset, IInv, TypeOK, Undecided, Locations, Outcomes, TokensAccounted, StatsAccounted
        <3>4. QED
            BY <3>2, <3>3 DEF IInv
    <2>16. CASE UNCHANGED vars
        BY <2>16 DEF vars, IInv, TypeOK, Undecided, TokensAccounted, StatsAccounted, SlotHolders,
               QueueHolders, InFlightCounted, QueuedCounted
    <2>17. QED
        <3>1. ASSUME NEW p \in Callers, TrySlot(p) PROVE IInv'
            BY <2>2, <2>3, <3>1 DEF IInv, TypeOK, TrySlot
        <3>2. ASSUME NEW p \in Callers, TryQueue(p) PROVE IInv'
            BY <2>4, <2>5, <3>2
        <3>3. QED
            BY <2>1, <3>1, <3>2, <2>6, <2>7, <2>8, <2>9, <2>10, <2>11, <2>12, <2>13, <2>14, <2>15, <2>16 DEF Next, Step
<1>3. QED
    BY <1>1, <1>2, PTL DEF Spec

\* Never more than MaxInFlight handlers run at once (gate.go:73-75).
THEOREM GateBounded == Spec => []AtMostMaxInFlight
<1>1. IInv => AtMostMaxInFlight
    <2> DEFINE R == {p \in Callers : pc[p] = "running"}
    <2> SUFFICES ASSUME IInv PROVE Cardinality(R) <= MaxInFlight
        BY DEF AtMostMaxInFlight
    <2>1. R \subseteq SlotHolders /\ IsFiniteSet(SlotHolders)
        BY GateAssumption, FS_Subset DEF SlotHolders
    <2>2. Cardinality(R) <= Cardinality(SlotHolders) /\ Cardinality(R) \in Nat
        BY <2>1, FS_Subset, FS_CardinalityType
    <2>3. QED
        BY <2>2, GateAssumption DEF IInv, TypeOK, TokensAccounted
<1>2. QED
    BY <1>1, GateInvariant, PTL

\* The deferred channel receives always find a token, so a handler that has
\* finished, or a caller that stops waiting, never hangs (gate.go:100-103, 206).
THEOREM GateExits == Spec => []ExitsNeverBlock
<1>1. IInv => ExitsNeverBlock
    <2> SUFFICES ASSUME IInv, NEW p \in Callers
                 PROVE  /\ pc[p] = "leaving" => queue > 0
                        /\ pc[p] = "running" => slots > 0
        BY DEF ExitsNeverBlock
    <2>1. ASSUME pc[p] = "leaving" PROVE queue > 0
        <3>1. p \in QueueHolders /\ QueueHolders \in SUBSET Callers
            BY <2>1 DEF QueueHolders
        <3>2. Cardinality(QueueHolders) \in Nat \ {0}
            BY <3>1, DropCaller
        <3>3. QED
            BY <3>2 DEF IInv, TokensAccounted
    <2>2. ASSUME pc[p] = "running" PROVE slots > 0
        <3>1. p \in SlotHolders /\ SlotHolders \in SUBSET Callers
            BY <2>2 DEF SlotHolders
        <3>2. Cardinality(SlotHolders) \in Nat \ {0}
            BY <3>1, DropCaller
        <3>3. QED
            BY <3>2 DEF IInv, TokensAccounted
    <2>3. QED
        BY <2>1, <2>2
<1>2. QED
    BY <1>1, GateInvariant, PTL

\* All of it together: tokens, counters, the bound on running handlers and the exits
\* (Gate.Acquire, Permit.Release).
THEOREM GateStaysAccounted == Spec => []GateAccounted
<1>1. IInv /\ AtMostMaxInFlight /\ ExitsNeverBlock => GateAccounted
    BY DEF IInv, GateAccounted
<1>2. QED
    BY <1>1, GateInvariant, GateBounded, GateExits, PTL

\* The gate implements the counting semaphore: a step of the gate grants a
\* permit, returns one, or leaves the holders alone.
THEOREM GateImplementsPermits == Spec => ImplementsPermits
<1>1. Init => Permits!Init
    BY DEF Init, Permits!Init, SlotHolders
<1>2. IInv /\ [Next]_vars => [Permits!Next]_SlotHolders
    <2> SUFFICES ASSUME IInv, [Next]_vars PROVE [Permits!Next]_SlotHolders
        OBVIOUS
    <2> USE DEF Goto, Decide
    <2>1. ASSUME NEW p \in Callers, TrySlot(p) \/ Granted(p), slots' # slots
          PROVE  Permits!Grant(p)
        <3>1. p \notin SlotHolders /\ SlotHolders' = SlotHolders \cup {p}
            BY <2>1 DEF TrySlot, Granted, IInv, TypeOK, SlotHolders
        <3>2. slots < MaxInFlight
            BY <2>1 DEF TrySlot, Granted
        <3>3. Permits!Cardinality(SlotHolders) = Cardinality(SlotHolders)
            BY DEF Permits!Cardinality, Cardinality
        <3>4. QED
            BY <3>1, <3>2, <3>3 DEF Permits!Grant, IInv, TokensAccounted
    <2>2. ASSUME NEW p \in Callers, Release(p)
          PROVE  Permits!Return(p)
        BY <2>2 DEF Release, IInv, TypeOK, SlotHolders, Permits!Return
    <2>3. ASSUME NEW p \in Callers,
                 \/ TrySlot(p) /\ slots' = slots
                 \/ Enter(p) \/ TryQueue(p) \/ CountQueued(p) \/ QueueTimeout(p) \/ Canceled(p)
                 \/ Count(p) \/ LeaveQueue(p) \/ UncountQueued(p) \/ Uncount(p) \/ Reset(p)
          PROVE  UNCHANGED SlotHolders
        BY <2>3 DEF TrySlot, Enter, TryQueue, CountQueued, QueueTimeout, Canceled, Count,
               LeaveQueue, UncountQueued, Uncount, Reset, IInv, TypeOK, Undecided, SlotHolders
    <2>4. CASE UNCHANGED vars
        BY <2>4 DEF vars, SlotHolders
    <2>5. ASSUME NEW p \in Callers, Granted(p) PROVE slots' # slots
        BY <2>5 DEF Granted, IInv, TypeOK
    <2>6. QED
        BY <2>1, <2>2, <2>3, <2>4, <2>5 DEF Next, Step, Permits!Next
<1>3. QED
    BY <1>1, <1>2, GateInvariant, PTL DEF Spec, ImplementsPermits, Permits!Spec
=============================================================================
