----------------------------- MODULE Customers -----------------------------
(***************************************************************************)
(* End customers of one team: the identity a request names is resolved     *)
(* before admission, registered on first use in auto_create mode, and      *)
(* administered from the console.  Registration counts and inserts under   *)
(* the lock of the team's row; the console's inserts wait for that lock    *)
(* (their foreign key shares it), its updates read, merge and write.       *)
(***************************************************************************)
EXTENDS Naturals, FiniteSets

CONSTANTS
    Ids,          \* external customer IDs that ValidateCustomerID accepts
    Requests, Editors,
    Limits,       \* values of a budget, a rate or a cap
    Unset,        \* no limit (NULL)
    Nobody,
    MaxCustomers, \* MaxAutoCreatedCustomers
    MaxEdits      \* bound: console writes

VARIABLES
    mode,         \* teams.customer_registration
    row,          \* customers: external ID -> row
    lock,         \* who holds the team's row FOR UPDATE
    call,         \* resolveRequestCustomer of each request
    editing,      \* UpdateCustomer of each administrator
    edits,
    wanted, raced \* ghosts: the last value written to each field; rows whose updates overlapped

customerVars == <<mode, row, lock, call, editing, edits, wanted, raced>>

ModeSet == {"optional", "required", "auto_create"}
Fields == {"budget", "rate"}
Absent == [by |-> "none"]
NoFields == [f \in Fields |-> Unset]
Registered(fields, cap, by) == [by |-> by, fields |-> fields, cap |-> cap, archived |-> FALSE]
Present == {i \in Ids : row[i] # Absent}
NoCall == [at |-> "new", id |-> Nobody, mode |-> "optional", as |-> Absent]
NoEdit == [at |-> "idle", id |-> Nobody, fields |-> NoFields, field |-> "budget", value |-> Unset]

CustomersInit ==
    /\ mode \in ModeSet
    /\ row = [i \in Ids |-> Absent]
    /\ lock = Nobody
    /\ call = [r \in Requests |-> NoCall]
    /\ editing = [e \in Editors |-> NoEdit]
    /\ edits = 0 /\ raced = {}
    /\ wanted = [i \in Ids |-> [fields |-> NoFields, cap |-> Unset]]

Goes(r, at) == call' = [call EXCEPT ![r].at = at]
Keep == UNCHANGED <<mode, editing, edits, wanted, raced>>

(* The team row loaded with the key carries the mode; the identity comes   *)
(* from the headers or the body.                                           *)
Arrives(r, id) ==
    /\ call[r].at = "new"
    /\ call' = [call EXCEPT ![r] = [at |-> "resolve", id |-> id, mode |-> mode, as |-> Absent]]
    /\ Keep /\ UNCHANGED <<row, lock>>

(* A row that was found: an archived customer is refused.                  *)
Resolves(r, c) == call' = [call EXCEPT ![r].at = IF c.archived THEN "denied" ELSE "admitted", ![r].as = c]

(* resolveRequestCustomer up to its first read.                            *)
Anonymous(r) ==
    /\ call[r].at = "resolve" /\ call[r].id = Nobody
    /\ Goes(r, IF call[r].mode = "optional" THEN "admitted" ELSE "denied")
    /\ Keep /\ UNCHANGED <<row, lock>>
GetCustomerByExternalID(r) ==
    LET id == call[r].id
    IN /\ call[r].at = "resolve" /\ id # Nobody
       /\ IF row[id] # Absent THEN Resolves(r, row[id])
          ELSE Goes(r, CASE call[r].mode = "auto_create" -> "register"
                         [] call[r].mode = "optional" -> "admitted"
                         [] OTHER -> "denied")
       /\ Keep /\ UNCHANGED <<row, lock>>
StoreFails(r) ==
    /\ call[r].at \in {"resolve", "register", "begin", "locked", "insert"}
    /\ call[r].id # Nobody
    /\ Goes(r, "denied")
    /\ lock' = IF lock = r THEN Nobody ELSE lock
    /\ Keep /\ UNCHANGED row

(* GetOrCreateCustomer: it reads again, then locks the team's row, counts  *)
(* and inserts in one transaction.                                         *)
ReadsAgain(r) ==
    /\ call[r].at = "register"
    /\ IF row[call[r].id] # Absent THEN Resolves(r, row[call[r].id]) ELSE Goes(r, "begin")
    /\ Keep /\ UNCHANGED <<row, lock>>
\* Mutant of LocksTeam: the team's row is read without FOR UPDATE.
ReadsTeam(r) ==
    /\ call[r].at = "begin" /\ Goes(r, "locked")
    /\ Keep /\ UNCHANGED <<row, lock>>
LocksTeam(r) ==
    /\ call[r].at = "begin" /\ lock = Nobody
    /\ lock' = r /\ Goes(r, "locked")
    /\ Keep /\ UNCHANGED row
CountsCustomers(r) ==
    LET full == row[call[r].id] = Absent /\ Cardinality(Present) >= MaxCustomers
    IN /\ call[r].at = "locked"
       /\ Goes(r, IF full THEN "denied" ELSE "insert")
       /\ lock' = IF full /\ lock = r THEN Nobody ELSE lock
       /\ Keep /\ UNCHANGED row
InsertsCustomer(r) ==
    LET id == call[r].id
        new == IF row[id] # Absent THEN row[id] ELSE Registered(NoFields, Unset, "request")
    IN /\ call[r].at = "insert"
       /\ row' = [row EXCEPT ![id] = new]
       /\ Resolves(r, new)
       /\ lock' = IF lock = r THEN Nobody ELSE lock
       /\ Keep
-----------------------------------------------------------------------------
Counted == edits < MaxEdits /\ edits' = edits + 1

(* CreateCustomer: no capacity applies; a registered ID is a conflict.     *)
CreateCustomer(id, value) ==
    /\ Counted /\ lock = Nobody /\ row[id] = Absent
    /\ LET fields == [NoFields EXCEPT !["budget"] = value]
       IN /\ row' = [row EXCEPT ![id] = Registered(fields, value, "console")]
          /\ wanted' = [wanted EXCEPT ![id] = [fields |-> fields, cap |-> value]]
    /\ UNCHANGED <<mode, lock, call, editing, raced>>

(* SetCustomerConcurrency: one statement on one column.                    *)
SetCustomerConcurrency(id, value) ==
    /\ Counted /\ row[id] # Absent /\ ~row[id].archived
    /\ row' = [row EXCEPT ![id].cap = value]
    /\ wanted' = [wanted EXCEPT ![id].cap = value]
    /\ UNCHANGED <<mode, lock, call, editing, raced>>

(* UpdateCustomer: the row is read, the request's field merged into it,    *)
(* and every field but the cap written unless the row was archived.        *)
UpdateCustomerReads(e, id, f, value) ==
    /\ Counted /\ editing[e].at = "idle" /\ row[id] # Absent
    /\ editing' = [editing EXCEPT ![e] = [at |-> "writing", id |-> id, field |-> f, value |-> value,
                                          fields |-> row[id].fields]]
    /\ raced' = IF \E o \in Editors : editing[o].id = id THEN raced \cup {id} ELSE raced
    /\ UNCHANGED <<mode, row, lock, call, wanted>>
Merged(e, id) == [row[id] EXCEPT !.fields = [editing[e].fields EXCEPT ![editing[e].field] = editing[e].value]]
UpdateCustomer(e) ==
    LET id == editing[e].id
    IN /\ editing[e].at = "writing"
       /\ IF row[id].archived THEN UNCHANGED <<row, wanted>>
          ELSE /\ row' = [row EXCEPT ![id] = Merged(e, id)]
               /\ wanted' = [wanted EXCEPT ![id].fields[editing[e].field] = editing[e].value]
       /\ editing' = [editing EXCEPT ![e] = NoEdit]
       /\ UNCHANGED <<mode, lock, call, edits, raced>>

(* SetCustomerRegistration updates the team's row, so it waits for it.     *)
SetCustomerRegistration(m) ==
    /\ Counted /\ lock = Nobody /\ m # mode /\ mode' = m
    /\ UNCHANGED <<row, lock, call, editing, wanted, raced>>

(* External: no operation archives a customer; an operator does.           *)
Archives(id) ==
    /\ Counted /\ row[id] # Absent /\ ~row[id].archived
    /\ row' = [row EXCEPT ![id].archived = TRUE]
    /\ UNCHANGED <<mode, lock, call, editing, wanted, raced>>

CustomersNext ==
    \/ \E r \in Requests :
         \/ \E id \in Ids \cup {Nobody} : Arrives(r, id)
         \/ Anonymous(r) \/ GetCustomerByExternalID(r) \/ StoreFails(r)
         \/ ReadsAgain(r) \/ LocksTeam(r) \/ CountsCustomers(r) \/ InsertsCustomer(r)
    \/ \E id \in Ids, v \in Limits \cup {Unset} :
         \/ CreateCustomer(id, v) \/ SetCustomerConcurrency(id, v)
         \/ \E e \in Editors, f \in Fields : UpdateCustomerReads(e, id, f, v)
    \/ \E e \in Editors : UpdateCustomer(e)
    \/ \E m \in ModeSet : SetCustomerRegistration(m)
    \/ \E id \in Ids : Archives(id)

CustomersSpec == CustomersInit /\ [][CustomersNext]_customerVars
-----------------------------------------------------------------------------
(* A request registers a customer only while the team has fewer than the   *)
(* cap, however many first requests and console inserts arrive together    *)
(* (GetOrCreateCustomer's row lock).                                       *)
RegistrationCapped ==
    \A i \in Ids : row[i] = Absent /\ row'[i] # Absent /\ row'[i].by = "request" =>
         Cardinality(Present) < MaxCustomers

(* An admitted request whose team required a customer has a registered one *)
(* that was not archived when it was read (resolveRequestCustomer), and a  *)
(* registration leaves no lock on the team's row behind.                   *)
AdmittedAreRegistered ==
    \A r \in Requests :
      /\ call[r].at = "admitted" /\ call[r].mode # "optional" =>
           /\ call[r].as # Absent /\ ~call[r].as.archived
           /\ row[call[r].id] # Absent
      /\ lock = r => call[r].at \in {"locked", "insert"}

(* A cap is the last one set, whatever updates run beside it, and the      *)
(* other limits are the last written unless two updates of the customer    *)
(* overlapped (UpdateCustomer's merge, SetCustomerConcurrency).            *)
CustomerEditsHold ==
    \A i \in Present :
      /\ row[i].cap = wanted[i].cap
      /\ i \notin raced => row[i].fields = wanted[i].fields
=============================================================================
