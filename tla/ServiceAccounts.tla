--------------------------- MODULE ServiceAccounts ---------------------------
(***************************************************************************)
(* Service accounts: named owners of keys with limits of their own.  An    *)
(* update sends some limits and leaves others out; each one left out is    *)
(* read back by a statement of its own, and a last statement writes all.   *)
(***************************************************************************)
EXTENDS Integers, FiniteSets

CONSTANTS
    Accounts,      \* accounts of a team
    Editors,       \* console requests in progress
    Limits,        \* values of a limit
    Null,          \* no limit, no account
    MaxKeys,       \* bound: keys issued to an account
    MaxReadFaults  \* bound: failed reads

VARIABLES
    account,   \* service_accounts
    editing,   \* the console request of each editor
    readFaults

serviceVars == <<account, editing, readFaults>>

Columns == {"usd", "rpm"}         \* usd_limit_cents; rpm and tpm
Resting == [op |-> "idle"]
Unmade == [made |-> FALSE, archived |-> FALSE, usd |-> Null, rpm |-> Null, parallel |-> Null, keys |-> 0]
Live(s) == account[s].made /\ ~account[s].archived

ServiceAccountsInit == /\ account = [s \in Accounts |-> Unmade]
                       /\ editing = [e \in Editors |-> Resting]
                       /\ readFaults = 0

Opens(e, j) == editing[e] = Resting /\ editing' = [editing EXCEPT ![e] = j]
Closes(e) == editing' = [editing EXCEPT ![e] = Resting]

(* CreateServiceAccount: names are unique in the team, so a second one is a conflict. *)
CreateServiceAccount(s, usd, rpm, n) ==
    /\ ~account[s].made
    /\ account' = [account EXCEPT ![s] = [@ EXCEPT !.made = TRUE, !.usd = usd, !.rpm = rpm, !.parallel = n]]
    /\ UNCHANGED <<editing, readFaults>>

(* UpdateServiceAccountConcurrency: one statement of its own. *)
UpdateServiceAccountConcurrency(s, n) ==
    /\ Live(s)
    /\ account' = [account EXCEPT ![s].parallel = n]
    /\ UNCHANGED <<editing, readFaults>>

(* UpdateServiceAccount: the console sends the identifier of an account     *)
(* that exists; the limits sent may be values or Null.                     *)
UpdateServiceAccount(e, s, sent) ==
    /\ account[s].made
    /\ Opens(e, [op |-> "update", sa |-> s, sent |-> sent, have |-> sent, stale |-> FALSE])
    /\ UNCHANGED <<account, readFaults>>

Has(have, c, v) == [x \in DOMAIN have \cup {c} |-> IF x = c THEN v ELSE have[x]]

\* The job with c as it was read; a read that fails leaves it stale.
Picked(j, c, v, failed) == [j EXCEPT !.have = Has(@, c, v), !.stale = @ \/ failed]

\* Mutant of PickIntPointer: a limit that was not sent is cleared.
PickNothing(e, c) ==
    /\ editing[e].op = "update" /\ c \notin DOMAIN editing[e].have
    /\ editing' = [editing EXCEPT ![e] = Picked(@, c, Null, FALSE)]
    /\ UNCHANGED <<account, readFaults>>

(* A failed read of usd ends the request; pickIntPointer ignores a failed  *)
(* read of rpm or tpm and takes NULL for it.                               *)
PickIntPointer(e, c) ==
    LET j == editing[e]
    IN  /\ j.op = "update" /\ c \notin DOMAIN j.have
        /\ c = "rpm" => "usd" \in DOMAIN j.have
        /\ \/ /\ editing' = [editing EXCEPT ![e] = Picked(@, c, account[j.sa][c], FALSE)]
              /\ UNCHANGED readFaults
           \/ /\ readFaults < MaxReadFaults /\ readFaults' = readFaults + 1
              /\ IF c = "usd" THEN Closes(e)
                 ELSE editing' = [editing EXCEPT ![e] = Picked(@, c, Null, TRUE)]
        /\ UNCHANGED account

\* The other updates of the account that are under way become stale with a write.
Staled(e) == [f \in Editors |->
    IF f = e THEN Resting
    ELSE IF editing[f].op = "update" /\ editing[f].sa = editing[e].sa
         THEN [editing[f] EXCEPT !.stale = TRUE] ELSE editing[f]]

WriteServiceAccount(e) ==
    LET j == editing[e]
    IN  /\ j.op = "update" /\ DOMAIN j.have = Columns
        /\ account' = IF Live(j.sa)
                      THEN [account EXCEPT ![j.sa] = [@ EXCEPT !.usd = j.have["usd"], !.rpm = j.have["rpm"]]]
                      ELSE account
        /\ editing' = Staled(e)
        /\ UNCHANGED readFaults

(* ArchiveServiceAccount: the account's keys stay as they are. *)
ArchiveServiceAccount(s) == /\ Live(s)
                            /\ account' = [account EXCEPT ![s].archived = TRUE]
                            /\ UNCHANGED <<editing, readFaults>>

(* CreateServiceAccountKey: the account is read, the key inserted later. *)
CreateServiceAccountKey(e, s) == /\ Live(s)
                                 /\ Opens(e, [op |-> "key", sa |-> s])
                                 /\ UNCHANGED <<account, readFaults>>

InsertsAccountKey(e) == /\ editing[e].op = "key" /\ account[editing[e].sa].keys < MaxKeys
                        /\ account' = [account EXCEPT ![editing[e].sa].keys = @ + 1]
                        /\ Closes(e)
                        /\ UNCHANGED readFaults

Sent == UNION {[C -> Limits \cup {Null}] : C \in SUBSET Columns}

ServiceAccountsNext ==
    \/ \E s \in Accounts, usd, rpm, n \in Limits \cup {Null} : CreateServiceAccount(s, usd, rpm, n)
    \/ \E s \in Accounts, n \in Limits \cup {Null} : UpdateServiceAccountConcurrency(s, n)
    \/ \E s \in Accounts : ArchiveServiceAccount(s)
    \/ \E e \in Editors, s \in Accounts :
         CreateServiceAccountKey(e, s) \/ \E sent \in Sent : UpdateServiceAccount(e, s, sent)
    \/ \E e \in Editors : WriteServiceAccount(e) \/ InsertsAccountKey(e)
    \/ \E e \in Editors, c \in Columns : PickIntPointer(e, c)

ServiceAccountsSpec == ServiceAccountsInit /\ [][ServiceAccountsNext]_serviceVars

(* A limit the request left out is left alone by its update, unless its    *)
(* read failed or another update of the account wrote in between           *)
(* (UpdateServiceAccountParams: 'Pointers distinguish "leave it" from "set *)
(* to NULL"'); and an archived account is final: no edit begun before the  *)
(* archival, and no key insertion, changes its limits or revives it.       *)
AccountEditsHold ==
    /\ \A e \in Editors : (editing[e].op = "update" /\ editing'[e] = Resting /\ ~editing[e].stale)
          => \A c \in Columns \ DOMAIN editing[e].sent :
               account'[editing[e].sa][c] = account[editing[e].sa][c]
    /\ \A s \in Accounts : account[s].archived =>
          account'[s] = [account[s] EXCEPT !.keys = account'[s].keys]
=============================================================================
