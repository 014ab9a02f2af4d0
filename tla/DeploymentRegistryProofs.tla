---------------------- MODULE DeploymentRegistryProofs ----------------------
(***************************************************************************)
(* Proofs for DeploymentRegistry: a refresh never forgets work in flight,  *)
(* and no permit is granted above the registered limit, for any number of  *)
(* deployments, requests and administration handlers.  The counters of two *)
(* deployments are never the same, and a request between its load and its  *)
(* swap keeps the registry from being swapped.                             *)
(***************************************************************************)
EXTENDS DeploymentRegistry, FiniteSetTheorems, TLAPS

\* What is assumed of the constants: limits are natural numbers, and there is
\* room for the counters of the deployments the replica starts with.
Sizes ==
    /\ IsFiniteSet(Deployments) /\ IsFiniteSet(Requests)
    /\ Limits \subseteq Nat /\ Limits # {}
    /\ MaxCounters \in Nat /\ Cardinality(Deployments) <= MaxCounters

Shapes ==
    /\ rows \in Rows /\ registered \in Rows
    /\ allocated \in 0..MaxCounters
    /\ counterOf \in [Deployments -> 0..allocated]
    /\ limit \in [Counters -> Limits]
    /\ inFlight \in [Counters -> Nat]
    /\ handler = [h \in Handlers |-> handler[h]]
    /\ \A h \in Handlers : handler[h].step = "read" => handler[h].rows \in Rows
    /\ request = [p \in Requests |-> request[p]]
    /\ \A p \in Requests :
        /\ request[p].step = "resolved" => request[p].dep \in Deployments
        /\ request[p].step \in {"loaded", "held", "released"} =>
            request[p].dep \in Deployments /\ request[p].counter \in Counters
        /\ request[p].step = "held" =>
            request[p] = [step |-> "held", dep |-> request[p].dep, counter |-> request[p].counter]

\* Permits are counted by the counter the registry consults, and so is the
\* request that is about to swap its count.
Counted ==
    /\ \A c \in Counters : inFlight[c] = Cardinality(Permits(c))
    /\ \A p \in Requests : request[p].step \in {"loaded", "held"} =>
        request[p].counter = counterOf[request[p].dep]

\* Two deployments never share a counter.
Distinct ==
    \A d, e \in Deployments : counterOf[d] = counterOf[e] /\ counterOf[d] # NoCounter => d = e

IInv == Shapes /\ Counted /\ Distinct /\ LimitsAreRegistered
-----------------------------------------------------------------------------
(***************************************************************************)
(* Steps of the handlers before the swap change nothing that is proved     *)
(* about (admin.go's writes and the reads of Refresh).                     *)
(***************************************************************************)
LEMMA HandlerStep ==
    ASSUME IInv, NEW h \in Handlers,
           PutDeployment(h) \/ DeleteDeployment(h) \/ ReadRows(h) \/ RefreshFails(h)
    PROVE  IInv'
<1>1. UNCHANGED <<registered, counterOf, limit, inFlight, allocated, request>>
  BY DEF PutDeployment, DeleteDeployment, WriteRow, ReadRows, RefreshFails
<1>2. Shapes'
  <2>1. rows' \in Rows
    BY DEF IInv, Shapes, Rows, PutDeployment, DeleteDeployment, WriteRow, ReadRows, RefreshFails
  <2>2. PICK x : handler' = [handler EXCEPT ![h] = x] /\ (x.step = "read" => x.rows \in Rows)
    BY DEF IInv, Shapes, Idle, PutDeployment, DeleteDeployment, WriteRow, ReadRows, RefreshFails
  <2> QED BY <1>1, <2>1, <2>2 DEF IInv, Shapes
<1>3. Counted' /\ Distinct' /\ LimitsAreRegistered'
  BY <1>1 DEF IInv, Counted, Distinct, LimitsAreRegistered, Permits
<1> QED BY <1>2, <1>3 DEF IInv

(***************************************************************************)
(* What Refresh puts in the registry's map: kept counters where they were, *)
(* and new ones, each for one deployment, above all that were allocated.   *)
(***************************************************************************)
LEMMA NextCountersFit ==
    ASSUME Sizes, Shapes, Distinct, NEW newDep \in Rows, NEW ids \in NextCounters(newDep)
    PROVE  LET a == allocated + Cardinality({d \in Deployments : ids[d] > allocated})
           IN  /\ a \in 0..MaxCounters /\ ids \in [Deployments -> 0..a]
               /\ \A d \in Deployments : KeptCounter(newDep, d) => ids[d] = counterOf[d]
               /\ \A d \in Deployments : newDep[d] # Absent => ids[d] # NoCounter
               /\ \A d, e \in Deployments : ids[d] = ids[e] /\ ids[d] # NoCounter => d = e
<1> DEFINE fresh == {d \in Deployments : newDep[d] # Absent /\ ~KeptCounter(newDep, d)}
           n == Cardinality(fresh)
           new == (allocated + 1)..(allocated + n)
           f == [d \in fresh |-> ids[d]]
<1>1. /\ ids \in [Deployments -> 0..MaxCounters]
      /\ \A d \in Deployments \ fresh :
            ids[d] = IF KeptCounter(newDep, d) THEN counterOf[d] ELSE NoCounter
      /\ {ids[d] : d \in fresh} = new
  BY DEF NextCounters
<1>2. allocated \in Nat /\ MaxCounters \in Nat /\ counterOf \in [Deployments -> 0..allocated]
  BY DEF Shapes, Sizes
<1>3. IsFiniteSet(fresh) /\ n \in Nat
  BY FS_Subset, FS_CardinalityType DEF Sizes
<1> HIDE DEF fresh
<1>4. fresh \subseteq Deployments
  BY DEF fresh
<1>5. \A d \in fresh : ids[d] \in new
  BY <1>1
<1>6. \A d \in Deployments \ fresh : ids[d] \in 0..allocated
  BY <1>1, <1>2 DEF NoCounter
<1>7. {d \in Deployments : ids[d] > allocated} = fresh
  BY <1>2, <1>3, <1>4, <1>5, <1>6
<1>8. allocated + n \in 0..MaxCounters
  <2>1. CASE n = 0
    BY <1>2, <1>3, <2>1 DEF Shapes
  <2>2. CASE n # 0
    <3>1. allocated + n \in new
      BY <1>2, <1>3, <2>2
    <3>2. PICK d \in fresh : ids[d] = allocated + n
      BY <1>1, <3>1
    <3> QED BY <1>1, <1>2, <1>4, <3>2
  <2> QED BY <2>1, <2>2
<1>9. f \in Injection(fresh, new)
  <2>1. f \in Surjection(fresh, new)
    BY <1>1, <1>5 DEF Surjection
  <2>2. Cardinality(new) = n
    BY <1>2, <1>3, FS_Interval
  <2> QED BY <1>3, <2>1, <2>2, FS_SurjSameCardinalityImpliesInj
<1>10. \A d, e \in fresh : ids[d] = ids[e] => d = e
  BY <1>9, Zenon DEF Injection, IsInjective
<1>11. \A d \in Deployments : KeptCounter(newDep, d) => d \notin fresh /\ ids[d] = counterOf[d]
  BY <1>1 DEF fresh
<1>12. \A d, e \in Deployments : ids[d] = ids[e] /\ ids[d] # NoCounter => d = e
  <2> SUFFICES ASSUME NEW d \in Deployments, NEW e \in Deployments, ids[d] = ids[e], ids[d] # NoCounter
               PROVE  d = e
    OBVIOUS
  <2>1. CASE d \in fresh /\ e \in fresh
    BY <1>10, <2>1
  <2>2. CASE d \notin fresh /\ e \notin fresh
    BY <1>1, <2>2 DEF Distinct
  <2>3. CASE (d \in fresh) # (e \in fresh)
    BY <1>2, <1>3, <1>5, <1>6, <2>3
  <2> QED BY <2>1, <2>2, <2>3
<1>13. \A d \in Deployments : newDep[d] # Absent => ids[d] # NoCounter
  <2> SUFFICES ASSUME NEW d \in Deployments, newDep[d] # Absent PROVE ids[d] # NoCounter
    OBVIOUS
  <2>1. CASE KeptCounter(newDep, d)
    BY <1>11, <2>1 DEF KeptCounter
  <2>2. CASE ~KeptCounter(newDep, d)
    <3>1. ids[d] \in new
      BY <1>5, <2>2 DEF fresh
    <3> QED BY <1>2, <1>3, <3>1 DEF NoCounter
  <2> QED BY <2>1, <2>2
<1>14. ids \in [Deployments -> 0..(allocated + n)]
  BY <1>1, <1>2, <1>3, <1>5, <1>6
<1> QED BY <1>7, <1>8, <1>11, <1>12, <1>13, <1>14

(***************************************************************************)
(* The swap of Refresh keeps the counters of the work in flight and gives  *)
(* each counter the limit of its deployment.                               *)
(***************************************************************************)
LEMMA SwapStep ==
    ASSUME Sizes, IInv, NEW h \in Handlers, Swap(h)
    PROVE  IInv'
<1> DEFINE newDep == handler[h].rows
<1>1. newDep \in Rows
  BY DEF Swap, IInv, Shapes
<1>2. PICK ids \in NextCounters(newDep) :
        /\ counterOf' = ids
        /\ limit' = SetLimits(newDep, ids)
        /\ allocated' = allocated + Cardinality({d \in Deployments : ids[d] > allocated})
  BY Zenon DEF Swap
<1>3. /\ registered' = newDep /\ handler' = [handler EXCEPT ![h] = Idle]
      /\ UNCHANGED <<rows, changes, inFlight, request>>
  BY DEF Swap
<1>4. \A p \in Requests : request[p].step # "loaded"
  BY DEF Swap, ReadLocked
<1> HIDE DEF newDep
<1>5. /\ allocated' \in 0..MaxCounters /\ ids \in [Deployments -> 0..allocated']
      /\ \A d \in Deployments : KeptCounter(newDep, d) => ids[d] = counterOf[d]
      /\ \A d \in Deployments : newDep[d] # Absent => ids[d] # NoCounter
      /\ \A d, e \in Deployments : ids[d] = ids[e] /\ ids[d] # NoCounter => d = e
  BY <1>1, <1>2, NextCountersFit, Zenon DEF IInv
<1>6. \A d \in Deployments : newDep[d] # Absent =>
        /\ ids[d] \in Counters /\ (CHOOSE e \in Deployments : ids[e] = ids[d]) = d
        /\ limit'[ids[d]] = newDep[d]
  <2> SUFFICES ASSUME NEW d \in Deployments, newDep[d] # Absent
               PROVE  /\ ids[d] \in Counters /\ (CHOOSE e \in Deployments : ids[e] = ids[d]) = d
                      /\ limit'[ids[d]] = newDep[d]
    OBVIOUS
  <2>1. ids[d] \in Counters
    BY <1>5 DEF Counters, NoCounter, Sizes
  <2>2. (CHOOSE e \in Deployments : ids[e] = ids[d]) = d
    BY <1>5
  <2> QED BY <1>2, <2>1, <2>2 DEF SetLimits
<1>7. limit' \in [Counters -> Limits]
  <2> SUFFICES ASSUME NEW c \in Counters PROVE limit'[c] \in Limits
    BY <1>2 DEF SetLimits
  <2>1. CASE \E d \in Deployments : newDep[d] # Absent /\ ids[d] = c
    BY <1>1, <1>6, <2>1 DEF Rows
  <2>2. CASE ~\E d \in Deployments : newDep[d] # Absent /\ ids[d] = c
    BY <1>2, <2>2 DEF SetLimits, IInv, Shapes
  <2> QED BY <2>1, <2>2
<1>8. Shapes'
  BY <1>1, <1>2, <1>3, <1>5, <1>7 DEF IInv, Shapes, Idle
<1>9. Counted'
  <2>1. \A c \in Counters : Permits(c)' = Permits(c)
    BY <1>3 DEF Permits
  <2>2. ASSUME NEW p \in Requests, request[p].step = "held"
        PROVE  request[p].counter = ids[request[p].dep]
    <3>1. /\ request[p].dep \in Deployments /\ request[p].counter \in Counters
          /\ request[p].counter = counterOf[request[p].dep]
      BY <2>2 DEF IInv, Shapes, Counted
    <3>2. p \in Permits(request[p].counter) /\ IsFiniteSet(Permits(request[p].counter))
      BY <2>2, FS_Subset DEF Permits, Sizes
    <3>3. inFlight[request[p].counter] # 0
      BY <3>1, <3>2, FS_EmptySet DEF IInv, Counted
    <3>4. counterOf[request[p].dep] # NoCounter
      BY <3>1 DEF Counters, NoCounter, Sizes
    <3> QED BY <1>5, <3>1, <3>3, <3>4 DEF KeptCounter
  <2> QED BY <1>2, <1>3, <1>4, <2>1, <2>2 DEF IInv, Counted
<1>10. Distinct' /\ LimitsAreRegistered'
  BY <1>2, <1>3, <1>5, <1>6 DEF Distinct, LimitsAreRegistered
<1> QED BY <1>8, <1>9, <1>10 DEF IInv

(***************************************************************************)
(* A request that neither takes nor gives back a permit changes no count.  *)
(***************************************************************************)
LEMMA UncountedStep ==
    ASSUME IInv, NEW p \in Requests, NEW x, request' = [request EXCEPT ![p] = x],
           request[p].step # "held", x.step # "held",
           x.step = "resolved" => x.dep \in Deployments,
           x.step \in {"loaded", "released"} => x.dep \in Deployments /\ x.counter \in Counters,
           x.step = "loaded" => x.counter = counterOf[x.dep],
           UNCHANGED <<rows, changes, handler, registered, counterOf, limit, inFlight, allocated>>
    PROVE  IInv'
<1>1. request'[p] = x /\ \A q \in Requests \ {p} : request'[q] = request[q]
  BY DEF IInv, Shapes
<1>2. \A c \in Counters : Permits(c)' = Permits(c)
  BY <1>1 DEF Permits
<1>3. Shapes'
  BY <1>1 DEF IInv, Shapes
<1>4. Counted'
  BY <1>1, <1>2 DEF IInv, Counted
<1> QED BY <1>3, <1>4 DEF IInv, Distinct, LimitsAreRegistered

(***************************************************************************)
(* A request that has ended is in no step (Idle).                          *)
(***************************************************************************)
LEMMA IdleIsNoStep == Idle.step = "idle"
BY DEF Idle

(***************************************************************************)
(* Resolving and the load of TryAcquire.                                   *)
(***************************************************************************)
LEMMA LoadStep ==
    ASSUME Sizes, IInv, NEW p \in Requests, Resolve(p) \/ Load(p)
    PROVE  IInv'
<1>1. CASE Resolve(p)
  <2>1. PICK d \in Deployments : request' = [request EXCEPT ![p] = [step |-> "resolved", dep |-> d]]
    BY <1>1, Zenon DEF Resolve
  <2>2. request[p].step # "held"
    BY <1>1 DEF Resolve, Idle
  <2>3. UNCHANGED <<rows, changes, handler, registered, counterOf, limit, inFlight, allocated>>
    BY <1>1 DEF Resolve
  <2> DEFINE x == [step |-> "resolved", dep |-> d]
  <2>4. x.step = "resolved" /\ x.dep = d /\ request' = [request EXCEPT ![p] = x]
    BY <2>1
  <2> HIDE DEF x
  <2> QED BY <2>2, <2>3, <2>4, UncountedStep, Zenon
<1>2. CASE Load(p)
  <2> DEFINE c == counterOf[request[p].dep]
  <2>1. CASE c = NoCounter
    <3>1. request' = [request EXCEPT ![p] = Idle] /\ request[p].step # "held"
      BY <1>2, <2>1 DEF Load
    <3>2. UNCHANGED <<rows, changes, handler, registered, counterOf, limit, inFlight, allocated>>
      BY <1>2 DEF Load
    <3> QED BY <3>1, <3>2, IdleIsNoStep, UncountedStep, Zenon
  <2>2. CASE c # NoCounter
    <3>1. request[p].dep \in Deployments /\ c \in Counters
      BY <1>2, <2>2 DEF Load, IInv, Shapes, Counters, NoCounter, Sizes
    <3>2. request' = [request EXCEPT ![p] = Loaded(p, c)]
      BY <1>2, <2>2 DEF Load
    <3>3. /\ UNCHANGED <<rows, changes, handler, registered, counterOf, limit, inFlight, allocated>>
          /\ request[p].step # "held"
      BY <1>2 DEF Load
    <3> DEFINE x == Loaded(p, c)
    <3>4. x.step = "loaded" /\ x.dep = request[p].dep /\ x.counter = c
      BY DEF Loaded
    <3> HIDE DEF x
    <3> QED BY <3>1, <3>2, <3>3, <3>4, UncountedStep, Zenon DEF x
  <2> QED BY <2>1, <2>2
<1> QED BY <1>1, <1>2

(***************************************************************************)
(* The swap of TryAcquire: a permit is taken exactly when the count is     *)
(* raised.                                                                 *)
(***************************************************************************)
LEMMA CompareAndSwapStep ==
    ASSUME Sizes, IInv, NEW p \in Requests, CompareAndSwap(p)
    PROVE  IInv'
<1> DEFINE c == request[p].counter
           d == request[p].dep
           n == request[p].current
           held == [step |-> "held", dep |-> d, counter |-> c]
<1>1. /\ request[p].step = "loaded" /\ d \in Deployments /\ c \in Counters /\ c = counterOf[d]
      /\ UNCHANGED <<rows, changes, handler, registered, counterOf, limit, allocated>>
  BY DEF CompareAndSwap, IInv, Shapes, Counted
<1>2. CASE request' = [request EXCEPT ![p] = Idle] /\ UNCHANGED inFlight
  BY <1>1, <1>2, IdleIsNoStep, UncountedStep, Zenon
<1>3. CASE request' = [request EXCEPT ![p] = Loaded(p, c)] /\ UNCHANGED inFlight
  <2> DEFINE x == Loaded(p, c)
  <2>1. x.step = "loaded" /\ x.dep = d /\ x.counter = c
    BY DEF Loaded
  <2> HIDE DEF x
  <2> QED BY <1>1, <1>3, <2>1, UncountedStep, Zenon DEF x
<1>4. CASE /\ inFlight[c] = n /\ inFlight' = [inFlight EXCEPT ![c] = n + 1]
           /\ request' = [request EXCEPT ![p] = held]
  <2>1. request'[p] = held /\ \A q \in Requests \ {p} : request'[q] = request[q]
    BY <1>4 DEF IInv, Shapes
  <2>2. Permits(c)' = Permits(c) \cup {p} /\ p \notin Permits(c) /\ IsFiniteSet(Permits(c))
    BY <1>1, <2>1, FS_Subset DEF Permits, Sizes
  <2>3. \A b \in Counters \ {c} : Permits(b)' = Permits(b)
    BY <1>1, <2>1 DEF Permits
  <2>4. inFlight[c] = Cardinality(Permits(c)) /\ inFlight[c] \in Nat
    BY <1>1 DEF IInv, Counted, Shapes
  <2>5. inFlight'[c] = Cardinality(Permits(c)')
    <3>1. Cardinality(Permits(c) \cup {p}) = Cardinality(Permits(c)) + 1
      BY <2>2, FS_AddElement, Zenon
    <3>2. inFlight'[c] = n + 1
      BY <1>1, <1>4 DEF IInv, Shapes
    <3> QED BY <1>4, <2>2, <2>4, <3>1, <3>2, Zenon
  <2>6. Shapes'
    BY <1>1, <1>4, <2>1, <2>4 DEF IInv, Shapes
  <2>7. \A b \in Counters : inFlight'[b] = Cardinality(Permits(b)')
    BY <1>1, <1>4, <2>3, <2>5 DEF IInv, Shapes, Counted
  <2>8. Counted'
    BY <1>1, <2>1, <2>7 DEF IInv, Counted
  <2> QED BY <1>1, <2>6, <2>8 DEF IInv, Distinct, LimitsAreRegistered
<1> QED BY <1>2, <1>3, <1>4 DEF CompareAndSwap

(***************************************************************************)
(* The release, and the deferred release that the sync.Once makes a no-op. *)
(***************************************************************************)
LEMMA ReleaseStep ==
    ASSUME Sizes, IInv, NEW p \in Requests, Release(p)
    PROVE  IInv'
<1> DEFINE c == request[p].counter
<1>1. /\ request[p].step \in {"held", "released"} /\ request[p].dep \in Deployments /\ c \in Counters
      /\ UNCHANGED <<rows, changes, handler, registered, counterOf, limit, allocated>>
  BY DEF Release, IInv, Shapes
<1>2. CASE request[p].step = "released"
  <2>1. request' = [request EXCEPT ![p] = Idle] /\ UNCHANGED inFlight
    BY <1>2 DEF Release
  <2> QED BY <1>1, <1>2, <2>1, IdleIsNoStep, UncountedStep, Zenon
<1>3. CASE request[p].step = "held"
  <2>1. /\ inFlight' = [inFlight EXCEPT ![c] = @ - 1]
        /\ request'[p].step = "released" /\ request'[p].dep = request[p].dep /\ request'[p].counter = c
        /\ \A q \in Requests \ {p} : request'[q] = request[q]
        /\ request' = [q \in Requests |-> request'[q]]
    <3>1. /\ inFlight' = [inFlight EXCEPT ![c] = @ - 1]
          /\ request' = [request EXCEPT ![p].step = "released"]
      BY <1>3 DEF Release
    <3>2. request = [q \in Requests |-> request[q]]
      BY DEF IInv, Shapes
    <3>3. request'[p] = [request[p] EXCEPT !.step = "released"] /\ \A q \in Requests \ {p} : request'[q] = request[q]
      BY <3>1, <3>2
    <3>4. request' = [q \in Requests |-> request'[q]]
      BY <3>1, <3>2
    <3>5. request[p] = [step |-> "held", dep |-> request[p].dep, counter |-> c]
      BY <1>3 DEF IInv, Shapes
    <3>6. request'[p] = [step |-> "released", dep |-> request[p].dep, counter |-> c]
      BY <3>3, <3>5
    <3> QED BY <3>1, <3>3, <3>4, <3>6
  <2>2. Permits(c)' = Permits(c) \ {p} /\ p \in Permits(c) /\ IsFiniteSet(Permits(c))
    BY <1>3, <2>1, FS_Subset DEF Permits, Sizes
  <2>3. \A b \in Counters \ {c} : Permits(b)' = Permits(b)
    BY <1>3, <2>1 DEF Permits
  <2>4. inFlight[c] = Cardinality(Permits(c)) /\ inFlight[c] \in Nat /\ inFlight[c] # 0
    BY <1>1, <2>2, FS_EmptySet DEF IInv, Counted, Shapes
  <2>5. inFlight'[c] = Cardinality(Permits(c)')
    BY <1>1, <2>1, <2>2, <2>4, FS_RemoveElement DEF IInv, Shapes
  <2>6. Shapes'
    BY <1>1, <2>1, <2>4 DEF IInv, Shapes
  <2>7. \A b \in Counters : inFlight'[b] = Cardinality(Permits(b)')
    BY <1>1, <2>1, <2>3, <2>5 DEF IInv, Shapes, Counted
  <2>8. Counted'
    BY <1>1, <2>1, <2>7 DEF IInv, Counted
  <2> QED BY <1>1, <2>6, <2>8 DEF IInv, Distinct, LimitsAreRegistered
<1> QED BY <1>1, <1>2, <1>3

(***************************************************************************)
(* The replica starts with one counter for each row of the table (New).    *)
(***************************************************************************)
LEMMA RegistryStarts ==
    ASSUME Sizes, Init
    PROVE  IInv
<1> DEFINE present == {d \in Deployments : rows[d] # Absent}
           f == [d \in present |-> counterOf[d]]
<1>1. /\ rows \in Rows /\ registered = rows /\ allocated = Cardinality(present)
      /\ counterOf \in [Deployments -> 0..allocated]
      /\ {counterOf[d] : d \in present} = 1..allocated
      /\ \A d \in Deployments \ present : counterOf[d] = NoCounter
      /\ limit = [c \in Counters |-> IF c <= allocated THEN rows[CHOOSE d \in present : counterOf[d] = c]
                                     ELSE CHOOSE l \in Limits : TRUE]
      /\ inFlight = [c \in Counters |-> 0] /\ request = [p \in Requests |-> Idle]
      /\ handler = [h \in Handlers |-> Idle]
  BY DEF Init
<1>2. IsFiniteSet(present) /\ allocated \in 0..MaxCounters
  BY <1>1, FS_Subset, FS_CardinalityType DEF Sizes
<1>3. present \subseteq Deployments /\ \A d \in present : rows[d] \in Limits
  BY <1>1 DEF Rows
<1> HIDE DEF present
<1>4. \A d, e \in present : counterOf[d] = counterOf[e] => d = e
  <2>1. f \in Surjection(present, 1..allocated)
    BY <1>1, Zenon DEF Surjection
  <2>2. Cardinality(1..allocated) = Cardinality(present)
    <3>1. allocated = Cardinality(present)
      BY <1>1, Zenon
    <3>2. allocated \in Nat
      BY <1>2
    <3> QED BY <3>1, <3>2, FS_Interval
  <2>3. f \in Injection(present, 1..allocated)
    BY <1>2, <2>1, <2>2, FS_SurjSameCardinalityImpliesInj
  <2> QED BY <2>3, Zenon DEF Injection, IsInjective
<1>5. \A d \in present : counterOf[d] \in 1..allocated /\ counterOf[d] \in Counters
  <2>1. \A d \in present : counterOf[d] \in 1..allocated
    BY <1>1, Zenon
  <2>2. 1..allocated \subseteq Counters
    BY <1>2 DEF Counters, Sizes
  <2> QED BY <2>1, <2>2
<1>6. Distinct
  BY <1>1, <1>4 DEF Distinct
<1>7. limit \in [Counters -> Limits]
  <2> SUFFICES ASSUME NEW c \in Counters PROVE limit[c] \in Limits
    BY <1>1, Zenon
  <2>1. CASE c <= allocated
    <3>1. c \in 1..allocated
      BY <1>2, <2>1 DEF Counters, Sizes
    <3> QED BY <1>1, <1>3, <2>1, <3>1
  <2>2. CASE ~(c <= allocated)
    BY <1>1, <2>2 DEF Sizes
  <2> QED BY <2>1, <2>2
<1>8. LimitsAreRegistered
  <2> SUFFICES ASSUME NEW d \in present
               PROVE  counterOf[d] # NoCounter /\ limit[counterOf[d]] = registered[d]
    BY <1>1, Zenon DEF LimitsAreRegistered, present
  <2>1. (CHOOSE e \in present : counterOf[e] = counterOf[d]) = d
    BY <1>4
  <2>2. counterOf[d] <= allocated /\ counterOf[d] # NoCounter
    BY <1>2, <1>5 DEF NoCounter
  <2> QED BY <1>1, <1>5, <2>1, <2>2
<1>9. Shapes
  <2>1. /\ request = [p \in Requests |-> request[p]] /\ \A p \in Requests : request[p].step = "idle"
        /\ handler = [h \in Handlers |-> handler[h]] /\ \A h \in Handlers : handler[h].step = "idle"
    BY <1>1, IdleIsNoStep
  <2>2. /\ rows \in Rows /\ registered \in Rows /\ counterOf \in [Deployments -> 0..allocated]
        /\ inFlight \in [Counters -> Nat]
    BY <1>1
  <2> QED BY <1>2, <1>7, <2>1, <2>2 DEF Shapes
<1>10. Counted
  <2>1. \A c \in Counters : Permits(c) = {}
    BY <1>1 DEF Permits, Idle
  <2> QED BY <1>1, <2>1, FS_EmptySet, Zenon DEF Counted, Idle
<1> QED BY <1>6, <1>8, <1>9, <1>10 DEF IInv

(***************************************************************************)
(* Every step keeps the invariant.                                         *)
(***************************************************************************)
LEMMA RegistryStep ==
    ASSUME Sizes, IInv, [Next]_vars
    PROVE  IInv'
<1>1. CASE UNCHANGED vars
  <2>1. Shapes'
    BY <1>1 DEF vars, IInv, Shapes
  <2>2. Counted'
    BY <1>1 DEF vars, IInv, Counted, Permits
  <2>3. Distinct' /\ LimitsAreRegistered'
    BY <1>1 DEF vars, IInv, Distinct, LimitsAreRegistered
  <2> QED BY <2>1, <2>2, <2>3 DEF IInv
<1>2. CASE Next
  BY <1>2, HandlerStep, SwapStep, LoadStep, CompareAndSwapStep, ReleaseStep DEF Next
<1> QED BY <1>1, <1>2

(***************************************************************************)
(* A step that grants a permit is the swap of a count below the limit.     *)
(***************************************************************************)
LEMMA GrantsBelow ==
    ASSUME Sizes, IInv, [Next]_vars
    PROVE  NoGrantAboveLimit
<1> SUFFICES ASSUME NEW p \in Requests, request[p].step # "held", request'[p].step = "held",
                    registered[request[p].dep] > 0
             PROVE  Cardinality(Outstanding(request[p].dep)) < registered[request[p].dep]
  BY DEF NoGrantAboveLimit
<1> DEFINE c == request[p].counter
           d == request[p].dep
<1>1. CompareAndSwap(p)
  <2>1. request = [q \in Requests |-> request[q]]
    BY DEF IInv, Shapes
  <2>2. ASSUME NEW q \in Requests, Resolve(q) \/ Load(q) \/ Release(q) PROVE FALSE
    BY <2>1, <2>2 DEF Resolve, Load, Loaded, Release, Idle
  <2>3. ASSUME NEW q \in Requests, CompareAndSwap(q), q # p PROVE FALSE
    BY <2>1, <2>3 DEF CompareAndSwap
  <2>4. request' # request
    OBVIOUS
  <2> QED
    BY <2>2, <2>3, <2>4 DEF Next, vars, PutDeployment, DeleteDeployment, WriteRow, ReadRows, RefreshFails, Swap
<1>2. d \in Deployments /\ c \in Counters /\ c = counterOf[d] /\ request[p].step = "loaded"
  BY <1>1 DEF CompareAndSwap, IInv, Shapes, Counted
<1>3. ~Full(c, inFlight[c])
  BY <1>1, <1>2 DEF CompareAndSwap, Idle, Loaded, IInv, Shapes
<1>4. registered[d] # Absent /\ limit[c] = registered[d]
  BY <1>2 DEF IInv, LimitsAreRegistered, Absent
<1>5. inFlight[c] \in Nat /\ limit[c] \in Nat /\ inFlight[c] < registered[d]
  BY <1>2, <1>3, <1>4 DEF Full, IInv, Shapes, Sizes
<1>6. Outstanding(d) \subseteq Permits(c)
  BY <1>2 DEF Outstanding, Permits, IInv, Counted
<1>7. IsFiniteSet(Permits(c)) /\ Cardinality(Permits(c)) = inFlight[c]
  BY <1>2, FS_Subset, Zenon DEF Permits, Sizes, IInv, Counted
<1>8. Cardinality(Outstanding(d)) <= inFlight[c] /\ Cardinality(Outstanding(d)) \in Nat
  BY <1>6, <1>7, FS_Subset, FS_CardinalityType
<1> QED BY <1>4, <1>5, <1>8
-----------------------------------------------------------------------------
(***************************************************************************)
(* Refresh never forgets work in flight: every live permit is counted by   *)
(* the counter the registry consults, and every registered deployment has  *)
(* a counter of its own with the registered limit.                         *)
(***************************************************************************)
THEOREM RefreshKeepsWork ==
    ASSUME Sizes
    PROVE  Spec => [](WorkIsCounted /\ LimitsAreRegistered)
<1>1. Init => IInv
  BY RegistryStarts
<1>2. IInv /\ [Next]_vars => IInv'
  BY RegistryStep
<1>3. IInv => WorkIsCounted /\ LimitsAreRegistered
  BY DEF IInv, Counted, WorkIsCounted, Outstanding
<1> QED BY <1>1, <1>2, <1>3, PTL DEF Spec

(***************************************************************************)
(* TryAcquireDeployment grants no permit at or above the registered limit, *)
(* whatever was lowered, removed or added again in between.                *)
(***************************************************************************)
THEOREM GrantsStayBelow ==
    ASSUME Sizes
    PROVE  Spec => [][NoGrantAboveLimit]_vars
<1>1. Init => IInv
  BY RegistryStarts
<1>2. IInv /\ [Next]_vars => IInv'
  BY RegistryStep
<1>3. IInv /\ [Next]_vars => NoGrantAboveLimit
  BY GrantsBelow
<1> QED BY <1>1, <1>2, <1>3, PTL DEF Spec
=============================================================================
