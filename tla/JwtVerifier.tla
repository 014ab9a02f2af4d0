----------------------------- MODULE JwtVerifier -----------------------------
(***************************************************************************)
(* Bearer tokens signed by a team's own issuer.  A replica verifies them   *)
(* against a snapshot: the teams that configured an issuer and, per JWKS   *)
(* address, the signing keys it last fetched.  A refresh reads the teams,  *)
(* fetches every address without holding the lock, and then replaces the   *)
(* snapshot; at most one runs at a time.                                   *)
(***************************************************************************)
EXTENDS Integers, FiniteSets

CONSTANTS
    JwtTeams,      \* teams
    Urls,          \* JWKS addresses; one may serve several teams
    Refreshers,    \* callers of Refresh: startup, the ticker, the admin path
    NoUrl,         \* JWT is not configured
    MaxKeyGen,     \* bound: signing-key rotations of an issuer
    MaxConfig,     \* bound: edits of a team's configuration
    MaxRefresh     \* bound: refreshes

VARIABLES
    config,      \* teams table: the JWKS address of each team, or NoUrl
    configGen,   \* how many edits the table has seen
    issuer,      \* the signing key each address serves, 0 while unreachable
    keyGen,      \* the newest signing key of each issuer
    snapshot,    \* v.teams and v.jwks, with the edit they were listed at
    refresh,     \* what each refresher is doing
    refreshes    \* refreshes begun

jwtVars == <<config, configGen, issuer, keyGen, snapshot, refresh, refreshes>>

Asleep == [pc |-> "idle"]
UrlsOf(teams) == {teams[t] : t \in JwtTeams} \ {NoUrl}
Unconfigured == [t \in JwtTeams |-> NoUrl]

JwtInit == /\ config \in [JwtTeams -> Urls \cup {NoUrl}]
           /\ configGen = 0
           /\ issuer = [u \in Urls |-> 1] /\ keyGen = [u \in Urls |-> 1]
           /\ snapshot = [teams |-> Unconfigured, jwks |-> [u \in {} |-> 0], gen |-> 0]
           /\ refresh = [r \in Refreshers |-> Asleep]
           /\ refreshes = 0


(* Refresh: a running one refuses the next; otherwise the teams are listed. *)
ListJWTTeams(r) ==
    /\ refresh[r] = Asleep /\ refreshes < MaxRefresh
    /\ \A s \in Refreshers : refresh[s] = Asleep
    /\ refresh' = [refresh EXCEPT ![r] = [pc |-> "fetch", teams |-> config, gen |-> configGen,
                                          todo |-> UrlsOf(config), next |-> [u \in {} |-> 0]]]
    /\ refreshes' = refreshes + 1
    /\ UNCHANGED <<config, configGen, issuer, keyGen, snapshot>>

With(f, u, v) == [x \in DOMAIN f \cup {u} |-> IF x = u THEN v ELSE f[x]]

(* loadKeyfunc for one address; a failed fetch keeps the keyfunc held      *)
(* before (marked 0: the same object, whatever keys it has by then).       *)
LoadKeyfunc(r, u) ==
    LET j == refresh[r]
        kept == IF u \in DOMAIN snapshot.jwks THEN With(j.next, u, 0) ELSE j.next
    IN  /\ j.pc = "fetch" /\ u \in j.todo
        /\ refresh' = [refresh EXCEPT ![r].todo = @ \ {u},
                         ![r].next = IF issuer[u] # 0 THEN With(@, u, issuer[u]) ELSE kept]
        /\ UNCHANGED <<config, configGen, issuer, keyGen, snapshot, refreshes>>

Installs(r) ==
    LET j == refresh[r]
    IN  /\ j.pc = "fetch" /\ j.todo = {}
        /\ snapshot' = [teams |-> j.teams, gen |-> j.gen,
                        jwks |-> [u \in DOMAIN j.next |-> IF j.next[u] = 0 THEN snapshot.jwks[u] ELSE j.next[u]]]
        /\ refresh' = [refresh EXCEPT ![r] = Asleep]
        /\ UNCHANGED <<config, configGen, issuer, keyGen, refreshes>>

(* A token with an unknown key id makes the keyfunc fetch its address      *)
(* again, synchronously and rate limited; the snapshot's map is shared.    *)
RefreshUnknownKID(u) ==
    /\ u \in DOMAIN snapshot.jwks /\ issuer[u] # 0 /\ snapshot.jwks[u] # issuer[u]
    /\ snapshot' = [snapshot EXCEPT !.jwks[u] = issuer[u]]
    /\ UNCHANGED <<config, configGen, issuer, keyGen, refresh, refreshes>>

(* Verify accepts a token of team t signed with key g: the keys held for   *)
(* the team's address in the snapshot, and then the team's row, read again. *)
Verify(t, g) == /\ snapshot.teams[t] \in DOMAIN snapshot.jwks
                /\ snapshot.jwks[snapshot.teams[t]] = g
                /\ config[t] # NoUrl

(* An administrator edits a team; an issuer rotates, fails and recovers. *)
EditsJwtTeam(t, u) == /\ configGen < MaxConfig /\ config[t] # u
                      /\ config' = [config EXCEPT ![t] = u] /\ configGen' = configGen + 1
                      /\ UNCHANGED <<issuer, keyGen, snapshot, refresh, refreshes>>

RotatesSigningKey(u) == /\ keyGen[u] < MaxKeyGen /\ issuer[u] # 0
                        /\ keyGen' = [keyGen EXCEPT ![u] = @ + 1]
                        /\ issuer' = [issuer EXCEPT ![u] = keyGen[u] + 1]
                        /\ UNCHANGED <<config, configGen, snapshot, refresh, refreshes>>

Flaps(u) == /\ issuer' = [issuer EXCEPT ![u] = IF @ = 0 THEN keyGen[u] ELSE 0]
            /\ UNCHANGED <<config, configGen, keyGen, snapshot, refresh, refreshes>>

JwtNext == \/ \E r \in Refreshers : ListJWTTeams(r) \/ Installs(r) \/ \E u \in Urls : LoadKeyfunc(r, u)
           \/ \E u \in Urls : RefreshUnknownKID(u) \/ RotatesSigningKey(u) \/ Flaps(u)
           \/ \E t \in JwtTeams, u \in Urls \cup {NoUrl} : EditsJwtTeam(t, u)
JwtSpec == JwtInit /\ [][JwtNext]_jwtVars

(* A replica's view of the issuers only moves forward: a snapshot never    *)
(* replaces one listed later and holds keys of listed addresses only, and  *)
(* the tokens of a team that stays configured as it was keep verifying     *)
(* through failed fetches (jwt.go:119).                                    *)
Verifiable(t) == \E g \in 1..MaxKeyGen : Verify(t, g)
SnapshotsAdvance ==
    /\ snapshot'.gen >= snapshot.gen
    /\ DOMAIN snapshot'.jwks \subseteq UrlsOf(snapshot'.teams)
    /\ \A t \in JwtTeams : (/\ Verifiable(t)
                            /\ snapshot'.teams[t] = snapshot.teams[t] /\ config'[t] = config[t])
                           => Verifiable(t)'
=============================================================================
