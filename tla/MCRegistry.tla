---------------------------- MODULE MCRegistry ------------------------------
(***************************************************************************)
(* What administrators change while requests are served: deployments and   *)
(* their counters, the circuit breaker of a deployment with its mirror in  *)
(* Redis, the snapshots of the concurrency policies and of the JWT key     *)
(* sets, the catalog of models, virtual keys, user and service accounts.   *)
(* A behaviour runs one of them, its scene; the variables of the others    *)
(* are off.                                                                *)
(***************************************************************************)
EXTENDS Integers, TLC

CONSTANTS x0, x1, x2, h1, h2, gpt, r1, r2, w, e1, e2, watcher, unset, off

VARIABLES
    scene,
    rows, changes, handler, registered, counterOf, limit, inFlight, allocated, request,
    failures, age, open, store, attempt, streak, sinceFailure,
    db, superseded, snapshot, policyAge, refresh,
    config, configGen, issuer, keyGen, keySets, keyRefresh, refreshes,
    dep, alias, price, catalogEdit, served, ids, catalogWrites, torn, mixed, wanted, raced,
    now, key, console, keyWrites,
    row, sess, invite, reset, job, jobs, opened, faults, cut, purged,
    account, accountEdit, readFaults

registryVars ==
    <<rows, changes, handler, registered, counterOf, limit, inFlight, allocated, request>>
breakerVars == <<failures, age, open, store, attempt, streak, sinceFailure>>
policyVars == <<db, superseded, snapshot, policyAge, refresh>>
jwtVars == <<config, configGen, issuer, keyGen, keySets, keyRefresh, refreshes>>
catalogVars ==
    <<dep, alias, price, catalogEdit, served, ids, catalogWrites, torn, mixed, wanted, raced>>
keyVars == <<now, key, console, keyWrites>>
userVars == <<row, sess, invite, reset, job, jobs, opened, faults, cut, purged>>
serviceVars == <<account, accountEdit, readFaults>>

Three == {x0, x1, x2}
Two == {x1, x2}
Editing == {e1, e2}

\* Two administration handlers and three requests of one deployment.
Serving == {gpt}
Handling == {h1, h2}
Capacities == {0, 1, 2}

Registry == INSTANCE DeploymentRegistry WITH
    Deployments <- Serving, Requests <- Three, Handlers <- Handling, Limits <- Capacities,
    MaxChanges <- 3, MaxCounters <- 3

\* One attempt on one replica, two on the other.
Replicas == {r1, r2}
Attempts == {w, e1, e2}
Home == (w :> r1) @@ (e1 :> r2) @@ (e2 :> r2)

Breaker == INSTANCE CircuitBreaker WITH Threshold <- 3, Cooldown <- 2

\* One administration handler and the watcher.
Policies == INSTANCE ConcurrencyPolicies WITH
    Handlers <- {h1}, Watcher <- watcher, MaxVersion <- 2, MaxAge <- 1, QueryTime <- 1,
    age <- policyAge

\* The ticker and a handler refresh the key sets of two teams.
JwtTeams == {"t1", "t2"}
Urls == {"u1", "u2"}

Jwt == INSTANCE JwtVerifier WITH
    Refreshers <- Editing, NoUrl <- "none", MaxKeyGen <- 2, MaxConfig <- 2, MaxRefresh <- 2,
    snapshot <- keySets, refresh <- keyRefresh

\* Two handlers change two deployments and an alias of one of them.
Aliases == {"gpt"}
Lists == {{x1}, {x2}}
OneValue == {"v"}

Catalog == INSTANCE ModelCatalog WITH
    Deps <- Two, Editors <- Editing, Values <- OneValue, Unset <- unset, MaxIds <- 3,
    MaxWrites <- 3, editing <- catalogEdit, writes <- catalogWrites

\* Two handlers change a key and the two that may follow it.
Settings == {1, 2}

VirtualKeys == INSTANCE TenantKeys WITH
    Keys <- Three, Admins <- Editing, Values <- Settings, NoKey <- unset, Grace <- 1,
    MaxTime <- 1, MaxWrites <- 3, writes <- keyWrites

\* Two handlers serve three requests about two users who have no account yet, ...
Users == {"ann", "bob"}
Seeded == {"ann"}
Invites == {"i"}
Resets == {"r"}
Roles == {"admin", "member"}
Teams == {"t"}

People == INSTANCE UserAccounts WITH
    Seeded <- {}, Handlers <- Editing, MappedRole <- "member", MappedTeam <- "t",
    NoUser <- unset, Unset <- unset, MaxJobs <- 3, MaxSessions <- 2, MaxFaults <- 0

\* ... and two requests, one of whose statements may fail, when one of them may have.
Failing == INSTANCE UserAccounts WITH
    Handlers <- Editing, MappedRole <- "member", MappedTeam <- "t",
    NoUser <- unset, Unset <- unset, MaxJobs <- 2, MaxSessions <- 2, MaxFaults <- 1

\* Two handlers and one service account.
Robots == {"ci"}
OneLimit == {1}

Services == INSTANCE ServiceAccounts WITH
    Accounts <- Robots, Editors <- Editing, Limits <- OneLimit, Null <- unset, MaxKeys <- 1,
    MaxReadFaults <- 1, editing <- accountEdit

RegistryInit ==
    /\ scene \in {"registry", "breaker", "policies", "jwt", "catalog", "keys",
                  "users", "failing", "services"}
    /\ IF scene = "registry" THEN Registry!Init ELSE
         /\ rows = off /\ changes = off /\ handler = off /\ registered = off /\ counterOf = off
         /\ limit = off /\ inFlight = off /\ allocated = off /\ request = off
    /\ IF scene = "breaker" THEN Breaker!Init ELSE
         /\ failures = off /\ age = off /\ open = off /\ store = off /\ attempt = off
         /\ streak = off /\ sinceFailure = off
    /\ IF scene = "policies" THEN Policies!Init ELSE
         /\ db = off /\ superseded = off /\ snapshot = off /\ policyAge = off /\ refresh = off
    /\ IF scene = "jwt" THEN Jwt!JwtInit ELSE
         /\ config = off /\ configGen = off /\ issuer = off /\ keyGen = off /\ keySets = off
         /\ keyRefresh = off /\ refreshes = off
    /\ IF scene = "catalog" THEN Catalog!CatalogInit ELSE
         /\ dep = off /\ alias = off /\ price = off /\ catalogEdit = off /\ served = off
         /\ ids = off /\ catalogWrites = off /\ torn = off /\ mixed = off /\ wanted = off
         /\ raced = off
    /\ IF scene = "keys" THEN VirtualKeys!KeysInit ELSE
         /\ now = off /\ key = off /\ console = off /\ keyWrites = off
    /\ IF scene = "users" THEN People!AccountsInit
       ELSE IF scene = "failing" THEN Failing!AccountsInit ELSE
         /\ row = off /\ sess = off /\ invite = off /\ reset = off /\ job = off /\ jobs = off
         /\ opened = off /\ faults = off /\ cut = off /\ purged = off
    /\ IF scene = "services" THEN Services!ServiceAccountsInit ELSE
         /\ account = off /\ accountEdit = off /\ readFaults = off

RegistryNext ==
    /\ UNCHANGED scene
    /\ \/ /\ scene = "registry" /\ Registry!Next
          /\ UNCHANGED <<breakerVars, policyVars, jwtVars, catalogVars, keyVars,
                         userVars, serviceVars>>
       \/ /\ scene = "breaker" /\ Breaker!Next
          /\ UNCHANGED <<registryVars, policyVars, jwtVars, catalogVars, keyVars,
                         userVars, serviceVars>>
       \/ /\ scene = "policies" /\ Policies!Next
          /\ UNCHANGED <<registryVars, breakerVars, jwtVars, catalogVars, keyVars,
                         userVars, serviceVars>>
       \/ /\ scene = "jwt" /\ Jwt!JwtNext
          /\ UNCHANGED <<registryVars, breakerVars, policyVars, catalogVars, keyVars,
                         userVars, serviceVars>>
       \/ /\ scene = "catalog" /\ Catalog!CatalogNext
          /\ UNCHANGED <<registryVars, breakerVars, policyVars, jwtVars, keyVars,
                         userVars, serviceVars>>
       \/ /\ scene = "keys" /\ VirtualKeys!KeysNext
          /\ UNCHANGED <<registryVars, breakerVars, policyVars, jwtVars, catalogVars,
                         userVars, serviceVars>>
       \/ /\ scene = "users" /\ People!AccountsNext
          /\ UNCHANGED <<registryVars, breakerVars, policyVars, jwtVars, catalogVars,
                         keyVars, serviceVars>>
       \/ /\ scene = "failing" /\ Failing!AccountsNext
          /\ UNCHANGED <<registryVars, breakerVars, policyVars, jwtVars, catalogVars,
                         keyVars, serviceVars>>
       \/ /\ scene = "services" /\ Services!ServiceAccountsNext
          /\ UNCHANGED <<registryVars, breakerVars, policyVars, jwtVars, catalogVars,
                         keyVars, userVars>>

RegistrySpec ==
    /\ RegistryInit
    /\ [][RegistryNext]_<<scene, registryVars, breakerVars, policyVars, jwtVars, catalogVars,
                         keyVars, userVars, serviceVars>>

Alike == Permutations(Two) \cup Permutations(Editing)
-----------------------------------------------------------------------------
(***************************************************************************)
(* A hot configuration update never forgets work in flight: the counter    *)
(* that the registry consults counts exactly the live permits, with the    *)
(* limit of the deployment as registered, and no permit is granted at or   *)
(* above the limit in force (Refresh, CounterPermit.Release, TryAcquire).  *)
(***************************************************************************)
WorkIsCounted ==
    /\ [](scene = "registry" =>
            Registry!TypeOK /\ Registry!WorkIsCounted /\ Registry!LimitsAreRegistered)
    /\ [][scene = "registry" => Registry!NoGrantAboveLimit]_registryVars

(***************************************************************************)
(* A deployment open anywhere failed within the last cooldown, and failures*)
(* in a row, on whichever replicas, open it for all of them (RecordFailure,*)
(* RecordSuccess, isOpenLocked).                                           *)
(***************************************************************************)
BreakerFollowsFailures ==
    scene = "breaker" => Breaker!TypeOK /\ Breaker!OpenHasCause /\ Breaker!StreakIsSeen



(***************************************************************************)
(* A rotation replaces a usable key by one with its settings, and the old  *)
(* one ends within the grace period; a revoked key never changes again     *)
(* (RotateVirtualKey).  An update of a service account leaves the limits   *)
(* it was not sent alone, unless a read failed or another update wrote in  *)
(* between, and an archived account is final (UpdateServiceAccount).       *)
(***************************************************************************)
KeysHold ==
    /\ [][scene = "keys" => VirtualKeys!RotationsHold]_keyVars
    /\ [][scene = "services" => Services!AccountEditsHold]_serviceVars

(***************************************************************************)
(* No session outlives the forced sign-out that ran after it, the sessions *)
(* of an invite are of the one user that accepted it, and an OIDC sign-in  *)
(* that starts after an administrator's edit of role or team was marked    *)
(* never undoes it (DeleteSessionsForUser, MarkInviteAccepted,             *)
(* ApplyOIDCMapping).                                                      *)
(***************************************************************************)
UsersHold ==
    /\ [](scene \in {"users", "failing"} => People!SessionsJustified)
    /\ [][(scene \in {"users", "failing"}) => People!EditsOutlastSignIns]_userVars
=============================================================================
