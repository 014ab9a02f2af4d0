---------------------------- MODULE ModelCatalog ----------------------------
(***************************************************************************)
(* The catalogue of deployments, aliases and prices as the console edits   *)
(* it.  A handler runs its statements or its transaction, then reloads the *)
(* registry of its replica and writes an audit row.  The handlers of       *)
(* several administrators interleave between statements; the locks are     *)
(* those of the rows a transaction has written.                            *)
(***************************************************************************)
EXTENDS Integers, FiniteSets, TLC

CONSTANTS
    Deps,        \* deployment names
    Aliases,     \* alias names
    Editors,     \* console requests in progress
    Lists,       \* the lists of deployments that a request may give an alias
    Values,      \* values of a column
    Unset,       \* the default of a column, and a field a request leaves out
    MaxIds,      \* bound: deployment rows ever inserted
    MaxWrites    \* bound: handlers started

VARIABLES
    dep,       \* deployments: the row of each name, id 0 when there is none
    alias,     \* model_aliases with alias_deployments: links are deployment ids
    price,     \* the current row of pricing
    editing,   \* the handler of each editor
    served,    \* what the replica's registry routes by
    ids, writes,
    torn,      \* a reload failed, or two handlers overlapped, since the last clean reload
    mixed,     \* the handlers that have overlapped another
    wanted,    \* the value of each column last asked for, per deployment
    raced      \* deployments whose row changed between an update's read and its write

catalogVars == <<dep, alias, price, editing, served, ids, writes, torn, mixed, wanted, raced>>

Columns == {"spec", "limit", "tags"}
Editable == {"spec", "limit"}      \* what UpsertDeployment writes
NoDep == [id |-> 0] @@ [c \in Columns |-> Unset]
NoAlias == [live |-> FALSE, links |-> {}, strategy |-> Unset, cache |-> Unset]
Idle == [at |-> "idle"]

(* The start of the replica: the deployments of its configuration file     *)
(* have been upserted and the registry loaded.                             *)
CatalogInit ==
    /\ ids = Cardinality(Deps)
    /\ \E number \in [Deps -> 1 .. ids] :
         /\ \A c, d \in Deps : number[c] = number[d] => c = d
         /\ dep = [d \in Deps |-> [NoDep EXCEPT !.id = number[d]]]
    /\ alias = [a \in Aliases |-> NoAlias]
    /\ price = Unset
    /\ editing = [e \in Editors |-> Idle]
    /\ served = [dep |-> dep, alias |-> alias, price |-> price]
    /\ writes = 0 /\ torn = FALSE /\ mixed = {}
    /\ wanted = [d \in Deps |-> NoDep] /\ raced = {}

Present == {d \in Deps : dep[d].id # 0}
NamesOf(links) == {d \in Present : dep[d].id \in links}

(* ListAliasesWithDeployments joins the links with the names.              *)
Listed == [a \in Aliases |-> [alias[a] EXCEPT !.links = NamesOf(@)]]

(* A handler starts; it overlaps whatever else is in progress.             *)
Overlaps(e) == \E f \in Editors \ {e} : editing[f] # Idle
Begins(e, j) ==
    /\ editing[e] = Idle
    /\ writes < MaxWrites /\ writes' = writes + 1
    /\ editing' = [editing EXCEPT ![e] = j]
    /\ torn' = (torn \/ Overlaps(e))
    /\ mixed' = IF Overlaps(e) THEN {f \in Editors : editing'[f] # Idle} ELSE mixed \ {e}
Goes(e, j) == editing' = [editing EXCEPT ![e] = j] /\ UNCHANGED <<writes, torn, mixed>>

(* refreshRegistry follows every committed change of deployments, aliases. *)
Reloading == [at |-> "reload"]

(* The row of alias a is locked by a transaction that has written it.      *)
Locked(a) == \E e \in Editors : editing[e].at = "linking" /\ editing[e].alias = a
(* A link row of d, or the key of d itself, is locked by one that has      *)
(* cleared or inserted the link.                                           *)
Referenced(d) == \E e \in Editors : /\ editing[e].at = "linking"
                                    /\ dep[d].id \in editing[e].cleared \cup editing[e].links
-----------------------------------------------------------------------------
(* UpsertDeployment: one statement inserts the row or replaces its         *)
(* editable columns; tags, weight and the enabled flag are not among them. *)
UpsertDeployment(d, v) ==
    LET old == IF d \in Present THEN dep[d] ELSE [NoDep EXCEPT !.id = ids + 1]
    IN  /\ d \in Present \/ ids < MaxIds
        /\ dep' = [dep EXCEPT ![d] = [c \in DOMAIN old |-> IF c \in Editable THEN v[c] ELSE old[c]]]
        /\ ids' = IF d \in Present THEN ids ELSE ids + 1

Asked(d, v) == wanted' = [wanted EXCEPT ![d] = [c \in DOMAIN @ |->
                   IF c \in DOMAIN v /\ v[c] # Unset THEN v[c]
                   ELSE IF c \in Columns /\ d \notin Present THEN Unset ELSE @[c]]]

(* CreateDeployment, also over a deployment of the same name.              *)
CreateDeployment(e, d, v) ==
    /\ UpsertDeployment(d, v)
    /\ wanted' = [wanted EXCEPT ![d] = [dep'[d] EXCEPT !.id = 0]]
    /\ Begins(e, Reloading)
    /\ UNCHANGED <<alias, price, served, raced>>

(* UpdateDeployment reads the row, refuses a name it does not find, and    *)
(* fills what the request leaves out from its copy.                        *)
UpdateDeploymentReads(e, d, sent) ==
    /\ d \in Present
    /\ Begins(e, [at |-> "update", name |-> d, sent |-> sent, copy |-> dep[d]])
    /\ UNCHANGED <<dep, alias, price, served, ids, wanted, raced>>

Merged(j) == [c \in Editable |-> IF j.sent[c] = Unset THEN j.copy[c] ELSE j.sent[c]]

UpdateDeployment(e) ==
    LET j == editing[e]
    IN  /\ j.at = "update"
        /\ UpsertDeployment(j.name, Merged(j))
        /\ raced' = IF dep[j.name] = j.copy THEN raced ELSE raced \cup {j.name}
        /\ Asked(j.name, j.sent)
        /\ Goes(e, Reloading)
        /\ UNCHANGED <<alias, price, served>>

UpdateDeploymentTags(e, d, v) ==
    /\ d \in Present
    /\ dep' = [dep EXCEPT ![d].tags = v]
    /\ wanted' = [wanted EXCEPT ![d].tags = v]
    /\ Begins(e, Reloading)
    /\ UNCHANGED <<alias, price, served, ids, raced>>

(* The row is deleted, and its links go with it.                           *)
DeletesRow(d) ==
    /\ d \in Present /\ ~Referenced(d)
    /\ dep' = [dep EXCEPT ![d] = NoDep]
    /\ alias' = [a \in Aliases |-> [alias[a] EXCEPT !.links = @ \ {dep[d].id}]]
DeleteDeployment(e, d) ==
    /\ DeletesRow(d)
    /\ wanted' = [wanted EXCEPT ![d] = NoDep]
    /\ raced' = raced \ {d}
    /\ Begins(e, Reloading)
    /\ UNCHANGED <<price, served, ids>>
-----------------------------------------------------------------------------
(* UpsertAlias begins: every deployment of the list exists.                *)
UpsertAlias(e, a, list) ==
    /\ list \subseteq Present
    /\ Begins(e, [at |-> "checked", alias |-> a, list |-> list])
    /\ UNCHANGED <<dep, alias, price, served, ids, wanted, raced>>


(* The alias row is inserted or rewritten, which locks it to the end of    *)
(* the transaction, and the links of the alias are deleted.                *)
LocksAlias(e) ==
    LET j == editing[e]
    IN  /\ j.at = "checked" /\ ~Locked(j.alias)
        /\ Goes(e, [at |-> "linking", alias |-> j.alias, list |-> j.list,
                    cleared |-> alias[j.alias].links, links |-> {}])
        /\ UNCHANGED <<dep, alias, price, served, ids, wanted, raced>>

(* Each name is linked by a select, which finds nothing when the           *)
(* deployment has been deleted since the check.                            *)
LinksDeployment(e) ==
    LET j == editing[e]
    IN  /\ j.at = "linking" /\ j.list # {}
        /\ \E d \in j.list :
             Goes(e, [j EXCEPT !.list = @ \ {d},
                               !.links = IF d \in Present THEN @ \cup {dep[d].id} ELSE @])
        /\ UNCHANGED <<dep, alias, price, served, ids, wanted, raced>>

CommitsAlias(e) ==
    LET j == editing[e]
    IN  /\ j.at = "linking" /\ j.list = {}
        /\ alias' = [alias EXCEPT ![j.alias].live = TRUE,
                                  ![j.alias].links = (@ \ j.cleared) \cup j.links]
        /\ Goes(e, Reloading)
        /\ UNCHANGED <<dep, price, served, ids, wanted, raced>>

(* A statement fails, for instance as the victim of a deadlock with a      *)
(* DELETE of a deployment: the transaction is rolled back.                 *)
AliasFails(e) ==
    /\ editing[e].at \in {"checked", "linking"}
    /\ Goes(e, Idle)
    /\ UNCHANGED <<dep, alias, price, served, ids, wanted, raced>>

(* One statement writes the columns of one kind of an alias that exists,   *)
(* and waits for its lock.                                                 *)
WritesAlias(e, a, column, v) ==
    /\ alias[a].live /\ ~Locked(a)
    /\ alias' = [alias EXCEPT ![a] = [@ EXCEPT ![column] = v]]
    /\ Begins(e, Reloading)
    /\ UNCHANGED <<dep, price, served, ids, wanted, raced>>
UpdateAliasStrategy(e, a, v) == WritesAlias(e, a, "strategy", v)
UpdateAliasCache(e, a, v) == WritesAlias(e, a, "cache", v)

DeleteAlias(e, a) ==
    /\ alias[a].live /\ ~Locked(a)
    /\ alias' = [alias EXCEPT ![a] = NoAlias]
    /\ Begins(e, Reloading)
    /\ UNCHANGED <<dep, price, served, ids, wanted, raced>>

(* UpsertPricing inserts the current price; the registry is not reloaded.  *)
UpsertPricing(e, v) ==
    /\ price' = v
    /\ Begins(e, Idle)
    /\ UNCHANGED <<dep, alias, served, ids, wanted, raced>>
-----------------------------------------------------------------------------
(* Refresh: the deployments and then the aliases are read by statements of *)
(* their own, and the maps are swapped under the lock.  The prices, whose  *)
(* failed read leaves none, are read with the aliases here; the policies   *)
(* are those of ConcurrencyPolicies.                                       *)
ReadsDeployments(e) ==
    /\ editing[e].at = "reload"
    /\ Goes(e, [at |-> "listed", dep |-> dep])
    /\ UNCHANGED <<dep, alias, price, served, ids, wanted, raced>>

ReadsAliases(e) ==
    /\ editing[e].at = "listed"
    /\ \E p \in {price, Unset} :
         Goes(e, [at |-> "swap", loaded |-> [dep |-> editing[e].dep, alias |-> Listed, price |-> p]])
    /\ UNCHANGED <<dep, alias, price, served, ids, wanted, raced>>

Swaps(e) ==
    /\ editing[e].at = "swap"
    /\ served' = editing[e].loaded
    /\ editing' = [editing EXCEPT ![e] = Idle]
    /\ torn' = (torn /\ e \in mixed)
    /\ UNCHANGED <<dep, alias, price, ids, writes, mixed, wanted, raced>>

(* A read fails: the handler goes on, its reload is lost.                  *)
RefreshFails(e) ==
    /\ editing[e].at \in {"reload", "listed"}
    /\ editing' = [editing EXCEPT ![e] = Idle]
    /\ torn' = TRUE
    /\ UNCHANGED <<dep, alias, price, served, ids, writes, mixed, wanted, raced>>

CatalogNext == \E e \in Editors :
    \/ \E d \in Deps, v \in [Editable -> Values] : CreateDeployment(e, d, v)
    \/ \E d \in Deps, v \in [Editable -> Values \cup {Unset}] : UpdateDeploymentReads(e, d, v)
    \/ UpdateDeployment(e)
    \/ \E d \in Deps, v \in Values : UpdateDeploymentTags(e, d, v)
    \/ \E d \in Deps : DeleteDeployment(e, d)
    \/ \E a \in Aliases, l \in Lists : UpsertAlias(e, a, l)
    \/ LocksAlias(e) \/ LinksDeployment(e) \/ CommitsAlias(e) \/ AliasFails(e)
    \/ \E a \in Aliases, v \in Values : UpdateAliasStrategy(e, a, v) \/ UpdateAliasCache(e, a, v)
    \/ \E a \in Aliases : DeleteAlias(e, a)
    \/ \E v \in Values : UpsertPricing(e, v)
    \/ ReadsDeployments(e) \/ ReadsAliases(e) \/ Swaps(e) \/ RefreshFails(e)

CatalogSpec == CatalogInit /\ [][CatalogNext]_catalogVars
-----------------------------------------------------------------------------
TypeOK == /\ \A d \in Deps : dep[d].id \in 0 .. ids
          /\ \A a \in Aliases : alias[a].links \subseteq 1 .. ids
          /\ torn \in BOOLEAN /\ mixed \subseteq Editors /\ raced \subseteq Deps

(***************************************************************************)
(* However requests for one alias interleave with each other and with      *)
(* deletions, the alias routes to the list of one request, less what has   *)
(* been deleted: never to a mixture, never to a row that is gone           *)
(* (Store.UpsertAlias, Store.DeleteDeployment).                            *)
(***************************************************************************)
AliasIsOneList == \A a \in Aliases :
    /\ \E l \in Lists : NamesOf(alias[a].links) \subseteq l
    /\ alias[a].links \subseteq {dep[d].id : d \in Present}

(***************************************************************************)
(* When no handler is in progress, and the last reload succeeded and was   *)
(* not overlapped, the registry routes by the tables as they are           *)
(* (AdminHandler.refreshRegistry after each change, Registry.Refresh).     *)
(* Prices are not claimed: UpsertPricing does not reload.                  *)
(***************************************************************************)
CleanReloadIsCurrent ==
    (~torn /\ \A e \in Editors : editing[e] = Idle) =>
        served.dep = dep /\ served.alias = Listed

(***************************************************************************)
(* A column of a deployment has the value last asked for, whichever        *)
(* handler asked and whatever later requests left out, unless an update    *)
(* wrote a copy that had become stale (UpdateDeployment, UpsertDeployment).*)
(***************************************************************************)
EditsKeptUnlessRaced == \A d \in Present \ raced : \A c \in Columns : dep[d][c] = wanted[d][c]
=============================================================================
