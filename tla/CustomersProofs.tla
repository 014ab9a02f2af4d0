-------------------------- MODULE CustomersProofs --------------------------
(***************************************************************************)
(* Proofs for Customers: the cap on automatic registration and what an     *)
(* admission promises, for any number of requests, administrators and      *)
(* customers.  The cap rests on the lock of the team's row: who has        *)
(* counted is alone until the insert, so the count still stands.           *)
(***************************************************************************)
EXTENDS Customers, FiniteSetTheorems, TLAPS

Row == [by : {"request", "console"}, fields : [Fields -> Limits \cup {Unset}],
        cap : Limits \cup {Unset}, archived : BOOLEAN]
Call == [at : {"new", "resolve", "register", "begin", "locked", "insert", "admitted", "denied"},
         id : Ids \cup {Nobody}, mode : ModeSet, as : Row \cup {Absent}]
Edit == [at : {"idle", "writing"}, id : Ids \cup {Nobody}, fields : [Fields -> Limits \cup {Unset}],
         field : Fields, value : Limits \cup {Unset}]

\* The types, and that a request past its first read names a customer and an
\* edit in progress one that is registered.
Shapes ==
    /\ mode \in ModeSet
    /\ row \in [Ids -> Row \cup {Absent}]
    /\ lock \in Requests \cup {Nobody}
    /\ call \in [Requests -> Call]
    /\ editing \in [Editors -> Edit]
    /\ \A r \in Requests : call[r].at \in {"register", "begin", "locked", "insert"} => call[r].id \in Ids
    /\ \A e \in Editors : editing[e].at = "writing" =>
          editing[e].id \in Ids /\ row[editing[e].id] \in Row

\* The lock is held by exactly the transaction that has it, and what that
\* transaction counted still holds.
Alone ==
    \A r \in Requests :
        /\ lock = r <=> call[r].at \in {"locked", "insert"}
        /\ call[r].at = "insert" /\ row[call[r].id] = Absent => Cardinality(Present) < MaxCustomers

\* An admission in a mode that requires it has a customer.
Named ==
    \A r \in Requests :
        call[r].at = "admitted" /\ call[r].mode # "optional" =>
            /\ call[r].id \in Ids
            /\ call[r].as \in Row /\ ~call[r].as.archived
            /\ row[call[r].id] \in Row

IInv == Shapes /\ Alone /\ Named
-----------------------------------------------------------------------------
(***************************************************************************)
(* A row that is there is not the absent one.                              *)
(***************************************************************************)
LEMMA RowsArePresent == \A x \in Row : x # Absent
BY DEF Row, Absent

(***************************************************************************)
(* A limit or none may be stored in every field.                           *)
(***************************************************************************)
LEMMA NoFieldsFit == NoFields \in [Fields -> Limits \cup {Unset}]
BY DEF NoFields

(***************************************************************************)
(* A request that moves on keeps the types (customer_admission.go).        *)
(***************************************************************************)
LEMMA MoveFits ==
    ASSUME Shapes, NEW r \in Requests,
           NEW a \in {"register", "begin", "locked", "insert", "admitted", "denied"},
           a \in {"register", "begin", "locked", "insert"} => call[r].id \in Ids,
           call' = [call EXCEPT ![r].at = a],
           lock' \in Requests \cup {Nobody}, UNCHANGED <<mode, row, editing>>
    PROVE  Shapes'
<1>1. call' \in [Requests -> Call]
  BY DEF Shapes, Call
<1>2. call'[r].at = a /\ call'[r].id = call[r].id /\ \A q \in Requests \ {r} : call'[q] = call[q]
  BY DEF Shapes, Call
<1> QED BY <1>1, <1>2 DEF Shapes

(***************************************************************************)
(* A request that finds a row is admitted or denied with it (Resolves).    *)
(***************************************************************************)
LEMMA ResolvedFits ==
    ASSUME Shapes, NEW r \in Requests, NEW c \in Row, Resolves(r, c), UNCHANGED <<mode, row, lock, editing>>
    PROVE  Shapes'
<1>1. PICK a \in {"admitted", "denied"} : call' = [call EXCEPT ![r].at = a, ![r].as = c]
  BY Zenon DEF Resolves
<1>2. call' \in [Requests -> Call]
  <2>1. call \in [Requests -> Call]
    BY DEF Shapes
  <2>2. [call[r] EXCEPT !.at = a, !.as = c] \in Call
    BY <2>1, Zenon DEF Call
  <2> QED BY <1>1, <2>1, <2>2
<1>3. call'[r].at = a /\ \A q \in Requests \ {r} : call'[q] = call[q]
  BY <1>1 DEF Shapes, Call
<1> QED BY <1>2, <1>3 DEF Shapes

(***************************************************************************)
(* A registered customer's row may be written again (customers.go).        *)
(***************************************************************************)
LEMMA WrittenFits ==
    ASSUME Shapes, NEW id \in Ids, NEW x \in Row, row' = [row EXCEPT ![id] = x],
           UNCHANGED <<mode, lock, call, editing>>
    PROVE  Shapes'
<1>1. row' \in [Ids -> Row \cup {Absent}] /\ \A i \in Ids : row[i] \in Row => row'[i] \in Row
  BY DEF Shapes
<1> QED BY <1>1 DEF Shapes

(***************************************************************************)
(* Every step keeps the types (customers.go, customer_admission.go).       *)
(***************************************************************************)
LEMMA ShapesStep ==
    ASSUME Shapes, [CustomersNext]_customerVars
    PROVE  Shapes'
<1> USE RowsArePresent, NoFieldsFit DEF Shapes
<1>1. CASE UNCHANGED customerVars
  BY <1>1 DEF customerVars
<1>2. ASSUME NEW r \in Requests, NEW id \in Ids \cup {Nobody}, Arrives(r, id) PROVE Shapes'
  BY <1>2 DEF Arrives, Keep, Call, Row
<1>3. ASSUME NEW r \in Requests, Anonymous(r) PROVE Shapes'
  <2>1. PICK a \in {"admitted", "denied"} : call' = [call EXCEPT ![r].at = a]
    BY <1>3, Zenon DEF Anonymous, Goes
  <2>2. UNCHANGED <<mode, row, lock, editing>>
    BY <1>3 DEF Anonymous, Keep
  <2> QED BY <2>1, <2>2, MoveFits, Zenon
<1>4. ASSUME NEW r \in Requests, GetCustomerByExternalID(r) PROVE Shapes'
  <2>1. UNCHANGED <<mode, row, lock, editing>> /\ call[r].id \in Ids
    BY <1>4 DEF GetCustomerByExternalID, Keep, Call
  <2>2. CASE row[call[r].id] # Absent
    <3>1. Resolves(r, row[call[r].id]) /\ row[call[r].id] \in Row
      BY <1>4, <2>1, <2>2 DEF GetCustomerByExternalID
    <3> QED BY <2>1, <3>1, ResolvedFits
  <2>3. CASE row[call[r].id] = Absent
    <3>1. PICK a \in {"register", "admitted", "denied"} : call' = [call EXCEPT ![r].at = a]
      BY <1>4, <2>3 DEF GetCustomerByExternalID, Goes, Call, ModeSet
    <3> QED BY <2>1, <3>1, MoveFits, Zenon
  <2> QED BY <2>2, <2>3
<1>5. ASSUME NEW r \in Requests, StoreFails(r) PROVE Shapes'
  BY <1>5, MoveFits, Zenon DEF StoreFails, Keep, Goes
<1>6. ASSUME NEW r \in Requests, ReadsAgain(r) PROVE Shapes'
  <2>1. UNCHANGED <<mode, row, lock, editing>> /\ call[r].id \in Ids
    BY <1>6 DEF ReadsAgain, Keep
  <2>2. CASE row[call[r].id] # Absent
    <3>1. Resolves(r, row[call[r].id]) /\ row[call[r].id] \in Row
      BY <1>6, <2>1, <2>2 DEF ReadsAgain
    <3> QED BY <2>1, <3>1, ResolvedFits
  <2>3. CASE row[call[r].id] = Absent
    <3>1. call' = [call EXCEPT ![r].at = "begin"]
      BY <1>6, <2>3 DEF ReadsAgain, Goes
    <3> QED BY <2>1, <3>1, MoveFits, Zenon
  <2> QED BY <2>2, <2>3
<1>7. ASSUME NEW r \in Requests, LocksTeam(r) \/ CountsCustomers(r) PROVE Shapes'
  <2>1. CASE LocksTeam(r)
    BY <2>1, MoveFits, Zenon DEF LocksTeam, Keep, Goes
  <2>2. CASE CountsCustomers(r)
    <3>1. PICK a \in {"denied", "insert"} : call' = [call EXCEPT ![r].at = a]
      BY <2>2, Zenon DEF CountsCustomers, Goes
    <3>2. lock' \in Requests \cup {Nobody} /\ UNCHANGED <<mode, row, editing>>
      BY <2>2 DEF CountsCustomers, Keep
    <3>3. call[r].id \in Ids
      BY <2>2 DEF CountsCustomers
    <3> QED BY <3>1, <3>2, <3>3, MoveFits, Zenon
  <2> QED BY <1>7, <2>1, <2>2
<1>8. ASSUME NEW r \in Requests, InsertsCustomer(r) PROVE Shapes'
  <2> DEFINE id == call[r].id
             new == IF row[id] # Absent THEN row[id] ELSE Registered(NoFields, Unset, "request")
  <2>1. id \in Ids /\ new \in Row
    BY <1>8 DEF InsertsCustomer, Registered, Row
  <2>2. row' = [row EXCEPT ![id] = new] /\ lock' \in Requests \cup {Nobody}
    BY <1>8 DEF InsertsCustomer
  <2>3. PICK a \in {"admitted", "denied"} :
            call' = [call EXCEPT ![r].at = a, ![r].as = new]
    BY <1>8, Zenon DEF InsertsCustomer, Resolves
  <2> HIDE DEF new
  <2>4. row' \in [Ids -> Row \cup {Absent}] /\ \A i \in Ids : row[i] \in Row => row'[i] \in Row
    BY <2>1, <2>2
  <2>5. call' \in [Requests -> Call]
    <3>1. [call[r] EXCEPT !.at = a, !.as = new] \in Call
      BY <2>1, Zenon DEF Call
    <3> QED BY <2>3, <3>1
  <2>6. \A q \in Requests : call'[q].at \in {"register", "begin", "locked", "insert"}
                                => call'[q].id \in Ids
    BY <2>3 DEF Call
  <2> QED BY <1>8, <2>2, <2>4, <2>5, <2>6 DEF InsertsCustomer, Keep
<1>9. ASSUME NEW id \in Ids, NEW v \in Limits \cup {Unset}, CreateCustomer(id, v) PROVE Shapes'
  BY <1>9 DEF CreateCustomer, Registered, Fields, Row
<1>10. ASSUME NEW id \in Ids, NEW v \in Limits \cup {Unset}, SetCustomerConcurrency(id, v)
       PROVE Shapes'
  <2>1. row[id] \in Row
    BY <1>10 DEF SetCustomerConcurrency
  <2>2. [row[id] EXCEPT !.cap = v] \in Row
    BY <2>1 DEF Row
  <2>3. row' = [row EXCEPT ![id] = [row[id] EXCEPT !.cap = v]] /\ UNCHANGED <<mode, lock, call, editing>>
    BY <1>10 DEF SetCustomerConcurrency
  <2> QED BY <2>2, <2>3, WrittenFits
<1>11. ASSUME NEW id \in Ids, NEW v \in Limits \cup {Unset}, NEW e \in Editors, NEW f \in Fields,
              UpdateCustomerReads(e, id, f, v)
       PROVE  Shapes'
  BY <1>11 DEF UpdateCustomerReads, Edit, Row
<1>12. ASSUME NEW e \in Editors, UpdateCustomer(e) PROVE Shapes'
  <2> DEFINE id == editing[e].id
  <2>1. id \in Ids /\ row[id] \in Row
    BY <1>12 DEF UpdateCustomer
  <2>2. Merged(e, id) \in Row
    BY <2>1, Zenon DEF Merged, Edit, Row
  <2>3. row' \in [Ids -> Row \cup {Absent}] /\ \A i \in Ids : row[i] \in Row => row'[i] \in Row
    BY <1>12, <2>1, <2>2 DEF UpdateCustomer
  <2>4. NoEdit \in Edit /\ NoEdit.at = "idle"
    BY DEF NoEdit, Edit, Fields
  <2>5. editing' = [editing EXCEPT ![e] = NoEdit] /\ UNCHANGED <<mode, lock, call>>
    BY <1>12 DEF UpdateCustomer
  <2> QED BY <2>3, <2>4, <2>5
<1>13. ASSUME NEW m \in ModeSet, SetCustomerRegistration(m) PROVE Shapes'
  BY <1>13 DEF SetCustomerRegistration
<1>14. ASSUME NEW id \in Ids, Archives(id) PROVE Shapes'
  <2>1. row[id] \in Row
    BY <1>14 DEF Archives
  <2>2. [row[id] EXCEPT !.archived = TRUE] \in Row
    BY <2>1, Zenon DEF Row
  <2>3. row' = [row EXCEPT ![id] = [row[id] EXCEPT !.archived = TRUE]] /\ UNCHANGED <<mode, lock, call, editing>>
    BY <1>14 DEF Archives
  <2> QED BY <2>2, <2>3, WrittenFits, Zenon
<1> QED
  BY <1>1, <1>2, <1>3, <1>4, <1>5, <1>6, <1>7, <1>8, <1>9, <1>10, <1>11, <1>12, <1>13, <1>14, Zenon
     DEF CustomersNext

(***************************************************************************)
(* Rows appear only through a registration or a console insert: the other  *)
(* steps leave the set of registered customers as it is.                   *)
(***************************************************************************)
LEMMA PresentStays ==
    ASSUME Shapes,
           \/ UNCHANGED row
           \/ \E id \in Ids : /\ row[id] \in Row
                              /\ \E x \in Row : row' = [row EXCEPT ![id] = x]
    PROVE  Present' = Present /\ \A i \in Ids : row'[i] = Absent <=> row[i] = Absent
BY RowsArePresent DEF Shapes, Present

(***************************************************************************)
(* Every step keeps the lock with its transaction, and its count right     *)
(* (GetOrCreateCustomer's SELECT ... FOR UPDATE, which the console's       *)
(* inserts wait for).                                                      *)
(***************************************************************************)
LEMMA AloneStep ==
    ASSUME Nobody \notin Requests, IsFiniteSet(Ids), MaxCustomers \in Nat,
           Shapes, Alone, [CustomersNext]_customerVars
    PROVE  Alone'
<1> USE RowsArePresent DEF Shapes, Alone
<1>1. CASE UNCHANGED customerVars
  BY <1>1, Zenon DEF customerVars, Present
<1>2. ASSUME NEW r \in Requests, NEW id \in Ids \cup {Nobody}, Arrives(r, id) PROVE Alone'
  BY <1>2, PresentStays DEF Arrives, Keep, Call
<1>3. ASSUME NEW r \in Requests, Anonymous(r) PROVE Alone'
  <2>1. PICK a \in {"admitted", "denied"} : call' = [call EXCEPT ![r].at = a]
    BY <1>3, Zenon DEF Anonymous, Goes
  <2> QED BY <1>3, <2>1, PresentStays DEF Anonymous, Keep, Call
<1>4. ASSUME NEW r \in Requests, GetCustomerByExternalID(r) PROVE Alone'
  BY <1>4, PresentStays DEF GetCustomerByExternalID, Resolves, Keep, Goes, Call
<1>5. ASSUME NEW r \in Requests, StoreFails(r) PROVE Alone'
  BY <1>5, PresentStays DEF StoreFails, Keep, Goes, Call
<1>6. ASSUME NEW r \in Requests, ReadsAgain(r) PROVE Alone'
  BY <1>6, PresentStays DEF ReadsAgain, Resolves, Keep, Goes, Call
<1>7. ASSUME NEW r \in Requests, LocksTeam(r) PROVE Alone'
  BY <1>7, PresentStays DEF LocksTeam, Keep, Goes, Call
<1>8. ASSUME NEW r \in Requests, CountsCustomers(r) PROVE Alone'
  <2> DEFINE full == row[call[r].id] = Absent /\ Cardinality(Present) >= MaxCustomers
  <2>1. lock = r /\ UNCHANGED row /\ Present' = Present
    BY <1>8, PresentStays DEF CountsCustomers
  <2>2. Cardinality(Present) \in Nat
    BY FS_Subset, FS_CardinalityType DEF Present
  <2>3. CASE full
    <3>1. call' = [call EXCEPT ![r].at = "denied"] /\ lock' = Nobody
      BY <1>8, <2>1, <2>3 DEF CountsCustomers, Goes
    <3> QED BY <2>1, <3>1 DEF Call
  <2>4. CASE ~full
    <3>1. call' = [call EXCEPT ![r].at = "insert"] /\ lock' = r
      BY <1>8, <2>1, <2>4, Zenon DEF CountsCustomers, Goes
    <3>2. row[call[r].id] = Absent => Cardinality(Present) < MaxCustomers
      BY <2>2, <2>4
    <3> QED BY <2>1, <3>1, <3>2 DEF Call
  <2> QED BY <2>3, <2>4
<1>9. ASSUME NEW r \in Requests, InsertsCustomer(r) PROVE Alone'
  <2>1. lock = r /\ lock' = Nobody
    BY <1>9 DEF InsertsCustomer
  <2>2. PICK a \in {"admitted", "denied"} : call'[r].at = a
    BY <1>9 DEF InsertsCustomer, Resolves, Call
  <2>3. \A q \in Requests \ {r} : call'[q] = call[q] /\ call[q].at \notin {"locked", "insert"}
    BY <1>9, <2>1 DEF InsertsCustomer, Resolves
  <2> QED BY <2>1, <2>2, <2>3
<1>10. ASSUME NEW id \in Ids, NEW v \in Limits \cup {Unset}, CreateCustomer(id, v) PROVE Alone'
  BY <1>10 DEF CreateCustomer
<1>11. ASSUME NEW id \in Ids, NEW v \in Limits \cup {Unset}, SetCustomerConcurrency(id, v)
       PROVE Alone'
  <2>1. row[id] \in Row /\ [row[id] EXCEPT !.cap = v] \in Row
    BY <1>11 DEF SetCustomerConcurrency, Row
  <2>2. row' = [row EXCEPT ![id] = [row[id] EXCEPT !.cap = v]] /\ UNCHANGED <<lock, call>>
    BY <1>11 DEF SetCustomerConcurrency
  <2> QED BY <2>1, <2>2, PresentStays, Zenon DEF Call
<1>12. ASSUME NEW id \in Ids, NEW v \in Limits \cup {Unset}, NEW e \in Editors, NEW f \in Fields,
              UpdateCustomerReads(e, id, f, v)
       PROVE  Alone'
  BY <1>12, PresentStays DEF UpdateCustomerReads, Call
<1>13. ASSUME NEW e \in Editors, UpdateCustomer(e) PROVE Alone'
  <2> DEFINE id == editing[e].id
  <2>1. id \in Ids /\ row[id] \in Row
    BY <1>13 DEF UpdateCustomer
  <2>2. Merged(e, id) \in Row
    BY <2>1, Zenon DEF Merged, Edit, Row
  <2>3. UNCHANGED <<lock, call>> /\ (UNCHANGED row \/ row' = [row EXCEPT ![id] = Merged(e, id)])
    BY <1>13 DEF UpdateCustomer
  <2> QED BY <2>1, <2>2, <2>3, PresentStays DEF Call
<1>14. ASSUME NEW m \in ModeSet, SetCustomerRegistration(m) PROVE Alone'
  BY <1>14, PresentStays DEF SetCustomerRegistration, Call
<1>15. ASSUME NEW id \in Ids, Archives(id) PROVE Alone'
  <2>1. row[id] \in Row /\ [row[id] EXCEPT !.archived = TRUE] \in Row
    BY <1>15, Zenon DEF Archives, Row
  <2>2. row' = [row EXCEPT ![id] = [row[id] EXCEPT !.archived = TRUE]] /\ UNCHANGED <<lock, call>>
    BY <1>15 DEF Archives
  <2> QED BY <2>1, <2>2, PresentStays, Zenon DEF Call
<1> QED
  BY <1>1, <1>2, <1>3, <1>4, <1>5, <1>6, <1>7, <1>8, <1>9, <1>10, <1>11, <1>12, <1>13, <1>14, <1>15, Zenon
     DEF CustomersNext

(***************************************************************************)
(* The five operations that write a row.                                   *)
(***************************************************************************)
LEMMA Writers ==
    ASSUME [CustomersNext]_customerVars
    PROVE  \/ UNCHANGED row
           \/ \E r \in Requests : InsertsCustomer(r)
           \/ \E id \in Ids, v \in Limits \cup {Unset} : CreateCustomer(id, v) \/ SetCustomerConcurrency(id, v)
           \/ \E e \in Editors : UpdateCustomer(e)
           \/ \E id \in Ids : Archives(id)
<1>1. ASSUME NEW r \in Requests,
             \/ \E id \in Ids \cup {Nobody} : Arrives(r, id)
             \/ Anonymous(r) \/ GetCustomerByExternalID(r) \/ StoreFails(r)
             \/ ReadsAgain(r) \/ LocksTeam(r) \/ CountsCustomers(r)
      PROVE  UNCHANGED row
  BY <1>1 DEF Arrives, Anonymous, GetCustomerByExternalID, StoreFails, ReadsAgain, LocksTeam, CountsCustomers
<1>2. ASSUME \/ \E id \in Ids, v \in Limits \cup {Unset}, e \in Editors, f \in Fields :
                   UpdateCustomerReads(e, id, f, v)
             \/ \E m \in ModeSet : SetCustomerRegistration(m)
             \/ UNCHANGED customerVars
      PROVE  UNCHANGED row
  BY <1>2 DEF UpdateCustomerReads, SetCustomerRegistration, customerVars
<1> QED BY <1>1, <1>2, Zenon DEF CustomersNext

(***************************************************************************)
(* No step removes a customer: the store has no delete.                    *)
(***************************************************************************)
LEMMA RowsStay ==
    ASSUME Shapes, [CustomersNext]_customerVars
    PROVE  \A i \in Ids : row[i] \in Row => row'[i] \in Row
<1> USE RowsArePresent, NoFieldsFit DEF Shapes
<1>1. CASE UNCHANGED row
  BY <1>1
<1>2. ASSUME NEW r \in Requests, InsertsCustomer(r) PROVE \A i \in Ids : row[i] \in Row => row'[i] \in Row
  BY <1>2 DEF InsertsCustomer
<1>3. ASSUME NEW id \in Ids, NEW v \in Limits \cup {Unset}, CreateCustomer(id, v)
      PROVE \A i \in Ids : row[i] \in Row => row'[i] \in Row
  BY <1>3 DEF CreateCustomer
<1>4. ASSUME NEW id \in Ids, NEW v \in Limits \cup {Unset}, SetCustomerConcurrency(id, v)
      PROVE \A i \in Ids : row[i] \in Row => row'[i] \in Row
  BY <1>4 DEF SetCustomerConcurrency, Row
<1>5. ASSUME NEW e \in Editors, UpdateCustomer(e) PROVE \A i \in Ids : row[i] \in Row => row'[i] \in Row
  <2>1. \A id \in Ids : row[id] \in Row => Merged(e, id) \in Row
    BY Zenon DEF Merged, Edit, Row
  <2> QED BY <1>5, <2>1 DEF UpdateCustomer
<1>6. ASSUME NEW id \in Ids, Archives(id) PROVE \A i \in Ids : row[i] \in Row => row'[i] \in Row
  BY <1>6, Zenon DEF Archives, Row
<1> QED BY <1>1, <1>2, <1>3, <1>4, <1>5, <1>6, Writers, Zenon

(***************************************************************************)
(* A request that finds a row is admitted with it or, if the customer is   *)
(* archived, denied.                                                       *)
(***************************************************************************)
LEMMA ResolvedIsNamed ==
    ASSUME Shapes, Named, NEW r \in Requests, NEW c \in Row, Resolves(r, c), call[r].id \in Ids,
           row'[call[r].id] \in Row, \A i \in Ids : row[i] \in Row => row'[i] \in Row
    PROVE  Named'
<1>1. call'[r].id = call[r].id /\ call'[r].as = c
  BY DEF Shapes, Resolves, Call
<1>2. call'[r].at = "admitted" => ~c.archived
  BY DEF Shapes, Resolves, Call
<1>3. \A q \in Requests \ {r} : call'[q] = call[q]
  BY DEF Shapes, Resolves
<1> QED BY <1>1, <1>2, <1>3 DEF Named

(***************************************************************************)
(* Every step keeps the promise of an admission (resolveRequestCustomer).  *)
(***************************************************************************)
LEMMA NamedStep ==
    ASSUME Nobody \notin Ids, Shapes, Named, [CustomersNext]_customerVars
    PROVE  Named'
<1> USE RowsArePresent DEF Shapes, Named
<1>0. \A i \in Ids : row[i] \in Row => row'[i] \in Row
  BY RowsStay
<1>1. CASE UNCHANGED call
  BY <1>0, <1>1
<1>2. ASSUME NEW r \in Requests, NEW id \in Ids \cup {Nobody}, Arrives(r, id) PROVE Named'
  BY <1>0, <1>2 DEF Arrives, Call
<1>3. ASSUME NEW r \in Requests, Anonymous(r) PROVE Named'
  <2>1. CASE call[r].mode = "optional"
    BY <1>0, <1>3, <2>1 DEF Anonymous, Goes, Call
  <2>2. CASE call[r].mode # "optional"
    <3>1. call' = [call EXCEPT ![r].at = "denied"]
      BY <1>3, <2>2 DEF Anonymous, Goes
    <3> QED BY <1>0, <3>1 DEF Call
  <2> QED BY <2>1, <2>2
<1>4. ASSUME NEW r \in Requests, GetCustomerByExternalID(r) PROVE Named'
  <2>1. CASE row[call[r].id] # Absent
    <3>1. call[r].id \in Ids /\ row[call[r].id] \in Row /\ Resolves(r, row[call[r].id])
      BY <1>4, <2>1 DEF GetCustomerByExternalID, Call
    <3> QED BY <1>0, <3>1, ResolvedIsNamed
  <2>2. CASE row[call[r].id] = Absent
    <3>1. PICK a \in {"register", "admitted", "denied"} :
              call' = [call EXCEPT ![r].at = a] /\ (a = "admitted" => call[r].mode = "optional")
      BY <1>4, <2>2 DEF GetCustomerByExternalID, Goes, Call, ModeSet
    <3> QED BY <1>0, <3>1 DEF Call
  <2> QED BY <2>1, <2>2
<1>5. ASSUME NEW r \in Requests, StoreFails(r) \/ LocksTeam(r) PROVE Named'
  BY <1>0, <1>5 DEF StoreFails, LocksTeam, Goes, Call
<1>6. ASSUME NEW r \in Requests, ReadsAgain(r) PROVE Named'
  <2>1. CASE row[call[r].id] # Absent
    <3>1. call[r].id \in Ids /\ row[call[r].id] \in Row /\ Resolves(r, row[call[r].id])
      BY <1>6, <2>1 DEF ReadsAgain, Call
    <3> QED BY <1>0, <3>1, ResolvedIsNamed
  <2>2. CASE row[call[r].id] = Absent
    BY <1>0, <1>6, <2>2 DEF ReadsAgain, Goes, Call
  <2> QED BY <2>1, <2>2
<1>7. ASSUME NEW r \in Requests, CountsCustomers(r) PROVE Named'
  <2>1. PICK a \in {"denied", "insert"} : call' = [call EXCEPT ![r].at = a]
    BY <1>7, Zenon DEF CountsCustomers, Goes
  <2> QED BY <1>0, <2>1 DEF Call
<1>8. ASSUME NEW r \in Requests, InsertsCustomer(r) PROVE Named'
  <2>1. call[r].id \in Ids
    BY <1>8 DEF InsertsCustomer
  <2>2. PICK new \in Row : row' = [row EXCEPT ![call[r].id] = new] /\ Resolves(r, new)
    BY <1>8, <2>1, NoFieldsFit, Zenon DEF InsertsCustomer, Registered, Row
  <2> QED BY <1>0, <2>1, <2>2, ResolvedIsNamed
<1> QED
  BY <1>1, <1>2, <1>3, <1>4, <1>5, <1>6, <1>7, <1>8, Zenon
     DEF CustomersNext, customerVars, CreateCustomer, SetCustomerConcurrency, UpdateCustomerReads,
         UpdateCustomer, SetCustomerRegistration, Archives

(***************************************************************************)
(* The invariant holds at the start.                                       *)
(***************************************************************************)
LEMMA CustomersStart ==
    ASSUME Nobody \notin Requests, CustomersInit
    PROVE  IInv
<1>1. NoCall \in Call /\ NoEdit \in Edit /\ NoCall.at = "new" /\ NoEdit.at = "idle"
  BY NoFieldsFit DEF NoCall, NoEdit, Call, Edit, ModeSet, Fields
<1> QED BY <1>1 DEF CustomersInit, IInv, Shapes, Alone, Named

(***************************************************************************)
(* A step that registers a customer for a request counted fewer than the   *)
(* cap: only the insert under the lock adds such a row.                    *)
(***************************************************************************)
LEMMA CappedStep ==
    ASSUME IInv, [CustomersNext]_customerVars
    PROVE  RegistrationCapped
<1> USE RowsArePresent DEF IInv, Shapes, RegistrationCapped
<1>1. CASE UNCHANGED row
  BY <1>1
<1>2. ASSUME NEW r \in Requests, InsertsCustomer(r) PROVE RegistrationCapped
  BY <1>2 DEF InsertsCustomer, Alone
<1>3. ASSUME NEW id \in Ids, NEW v \in Limits \cup {Unset}, CreateCustomer(id, v)
      PROVE RegistrationCapped
  BY <1>3 DEF CreateCustomer, Registered
<1>4. ASSUME NEW id \in Ids, NEW v \in Limits \cup {Unset}, SetCustomerConcurrency(id, v)
      PROVE RegistrationCapped
  BY <1>4 DEF SetCustomerConcurrency
<1>5. ASSUME NEW e \in Editors, UpdateCustomer(e) PROVE RegistrationCapped
  BY <1>5 DEF UpdateCustomer
<1>6. ASSUME NEW id \in Ids, Archives(id) PROVE RegistrationCapped
  BY <1>6 DEF Archives
<1> QED BY <1>1, <1>2, <1>3, <1>4, <1>5, <1>6, Writers, Zenon
-----------------------------------------------------------------------------
(***************************************************************************)
(* GetOrCreateCustomer never registers a customer beyond the cap, however  *)
(* many requests register and however the console edits beside them.       *)
(***************************************************************************)
THEOREM RegistrationStaysCapped ==
    ASSUME Nobody \notin Requests, Nobody \notin Ids, IsFiniteSet(Ids), MaxCustomers \in Nat
    PROVE  CustomersSpec => [][RegistrationCapped]_customerVars
<1>1. CustomersInit => IInv
  BY CustomersStart
<1>2. IInv /\ [CustomersNext]_customerVars => IInv'
  BY ShapesStep, AloneStep, NamedStep DEF IInv
<1>3. IInv /\ [CustomersNext]_customerVars => RegistrationCapped
  BY CappedStep
<1> QED BY <1>1, <1>2, <1>3, PTL DEF CustomersSpec

(***************************************************************************)
(* A request resolveRequestCustomer admits in a mode that requires a       *)
(* customer has one, and no registration leaves the team's row locked.     *)
(***************************************************************************)
THEOREM AdmittedStayRegistered ==
    ASSUME Nobody \notin Requests, Nobody \notin Ids, IsFiniteSet(Ids), MaxCustomers \in Nat
    PROVE  CustomersSpec => []AdmittedAreRegistered
<1>1. CustomersInit => IInv
  BY CustomersStart
<1>2. IInv /\ [CustomersNext]_customerVars => IInv'
  BY ShapesStep, AloneStep, NamedStep DEF IInv
<1>3. IInv => AdmittedAreRegistered
  BY RowsArePresent DEF IInv, Named, Alone, AdmittedAreRegistered
<1> QED BY <1>1, <1>2, <1>3, PTL DEF CustomersSpec
=============================================================================
