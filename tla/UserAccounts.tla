---------------------------- MODULE UserAccounts ----------------------------
(***************************************************************************)
(* The console's accounts: password sign-in, sessions, invites, password   *)
(* resets, OIDC sign-in and the administrator's disable and role edits.    *)
(* Every handler issues its SQL statements one by one, most of them outside*)
(* a transaction, so a handler is a job whose steps interleave with those  *)
(* of the other handlers.  A user is identified by the e-mail address (the *)
(* table's unique key); a password by the number of the write that set it. *)
(* Requests that are refused before any write change nothing and are not   *)
(* steps of the model.                                                     *)
(***************************************************************************)
EXTENDS Integers, FiniteSets, FiniteSetsExt

CONSTANTS
    Users,        \* e-mail addresses
    Seeded,       \* those that may have a password account at the start
    Invites,      \* invite tokens
    Resets,       \* password-reset tokens
    Handlers,     \* HTTP requests in progress
    Roles,        \* admin, manager, member
    Teams,        \* team slugs
    MappedRole,   \* what mapRole and mapTeam make of the identity provider's claims
    MappedTeam,
    NoUser,       \* an invite pinned to nobody
    Unset,        \* a field an administrator's edit leaves out
    MaxJobs,      \* bound: requests started
    MaxSessions,  \* bound: sessions opened
    MaxFaults     \* bound: statements that fail

VARIABLES
    row,      \* users: what the table holds for each e-mail
    sess,     \* sessions
    invite,   \* invites
    reset,    \* password_resets
    job,      \* the request each handler is serving, and its next statement
    jobs,     \* requests started so far
    opened,   \* sessions opened so far
    faults,   \* statements that failed
    cut,      \* per user: forced sign-outs written (reset passwords, disables)
    purged    \* per user: the latest of them whose purge has run

accountVars == <<row, sess, invite, reset, job, jobs, opened, faults, cut, purged>>

Absent == [st |-> FALSE, disabled |-> FALSE, pw |-> FALSE, role |-> MappedRole, team |-> MappedTeam,
           managed |-> TRUE, bound |-> FALSE]
Idle == [op |-> "idle", pc |-> "idle"]

AccountsInit ==
    /\ \E seeded \in SUBSET Seeded :
         row = [u \in Users |-> IF u \in seeded THEN [Absent EXCEPT !.st = TRUE, !.pw = TRUE] ELSE Absent]
    /\ sess = {}
    /\ invite = [i \in Invites |-> [st |-> "none"]]
    /\ reset = [r \in Resets |-> [st |-> "none"]]
    /\ job = [h \in Handlers |-> Idle]
    /\ jobs = 0 /\ opened = 0 /\ faults = 0
    /\ cut = [u \in Users |-> 0] /\ purged = [u \in Users |-> 0]

(* A handler takes a new request; it continues one; it answers. *)
Starts(h, j) == /\ job[h].op = "idle" /\ jobs < MaxJobs
                /\ jobs' = jobs + 1
                /\ job' = [job EXCEPT ![h] = j]
Continues(h, pc) == job' = [job EXCEPT ![h].pc = pc] /\ UNCHANGED jobs
Answers(h) == job' = [job EXCEPT ![h] = Idle] /\ UNCHANGED jobs

(* The caller sent the account's current password: the account has one     *)
(* (one made by OIDC sign-in has none).                                    *)
CheckPassword(u) == row[u].pw
WritePassword(u) == row' = [row EXCEPT ![u].pw = TRUE]

-----------------------------------------------------------------------------
(* Login: one read of the row decides; the session is inserted later. *)
GetUserByEmail(u) == row[u].st
Login(h, u) == /\ GetUserByEmail(u) /\ CheckPassword(u) /\ ~row[u].disabled
               /\ Starts(h, [op |-> "login", pc |-> "session", user |-> u])
               /\ UNCHANGED <<row, sess, invite, reset, opened, faults, cut, purged>>

(* CreateSessionWithMeta, the last write of the three ways to sign in. *)
CreateSession(h) ==
    /\ job[h].pc = "session" /\ opened < MaxSessions
    /\ opened' = opened + 1
    /\ sess' = sess \cup {[id |-> opened + 1, user |-> job[h].user, born |-> cut[job[h].user],
                           via |-> IF job[h].op = "accept" THEN job[h].inv ELSE Unset]}
    /\ Answers(h)
    /\ UNCHANGED <<row, invite, reset, faults, cut, purged>>

(* Logout deletes the row of the token it is given, without authentication. *)
Logout(s) == /\ sess' = sess \ {s}
             /\ UNCHANGED <<row, invite, reset, job, jobs, opened, faults, cut, purged>>

(* The Session middleware on a /me request: a disabled account loses the   *)
(* session, otherwise the handler runs as the user the row named.          *)
Session(h, s, op) ==
    /\ job[h].op = "idle" /\ jobs < MaxJobs
    /\ IF row[s.user].disabled
       THEN sess' = sess \ {s} /\ UNCHANGED <<job, jobs>>
       ELSE Starts(h, [op |-> op, pc |-> op, user |-> s.user, keep |-> s.id]) /\ UNCHANGED sess
    /\ UNCHANGED <<row, invite, reset, opened, faults, cut, purged>>

(* ChangePassword reads the hash and compares, then writes the new one. *)
ChangePasswordReads(h) == /\ job[h].pc = "change" /\ CheckPassword(job[h].user)
                          /\ Continues(h, "rotate")
                          /\ UNCHANGED <<row, sess, invite, reset, opened, faults, cut, purged>>
ChangePasswordRefused(h) == /\ job[h].pc = "change" /\ Answers(h)
                            /\ UNCHANGED <<row, sess, invite, reset, opened, faults, cut, purged>>
ChangePasswordWrites(h) == /\ job[h].pc = "rotate" /\ WritePassword(job[h].user) /\ Answers(h)
                           /\ UNCHANGED <<sess, invite, reset, opened, faults, cut, purged>>

(* RevokeOtherSessions keeps the session the request came with. *)
RevokeOtherSessions(h) == /\ job[h].pc = "others"
                          /\ sess' = {s \in sess : s.user # job[h].user \/ s.id = job[h].keep}
                          /\ Answers(h)
                          /\ UNCHANGED <<row, invite, reset, opened, faults, cut, purged>>

-----------------------------------------------------------------------------
(* Invites.  An administrator issues one, pinned to an address or open; a  *)
(* manager's is always a member of the manager's own team.                 *)
CreateInvite(i, pin, role, team) ==
    /\ invite[i].st = "none"
    /\ invite' = [invite EXCEPT ![i] = [st |-> "open", pin |-> pin, role |-> role, team |-> team, by |-> NoUser]]
    /\ UNCHANGED <<row, sess, reset, job, jobs, opened, faults, cut, purged>>

AcceptInviteReads(h, i, u) ==
    /\ invite[i].st = "open" /\ invite[i].pin \in {NoUser, u}
    /\ Starts(h, [op |-> "accept", pc |-> "create", user |-> u, inv |-> i])
    /\ UNCHANGED <<row, sess, invite, reset, opened, faults, cut, purged>>

CreateUser(h) ==
    /\ job[h].pc = "create"
    /\ LET u == job[h].user
       IN  IF row[u].st
           THEN Answers(h) /\ UNCHANGED row
           ELSE /\ row' = [row EXCEPT ![u] = [Absent EXCEPT !.st = TRUE, !.pw = TRUE,
                                               !.role = invite[job[h].inv].role, !.team = invite[job[h].inv].team]]
                /\ Continues(h, "accepted")
    /\ UNCHANGED <<sess, invite, reset, opened, faults, cut, purged>>

\* Mutant of MarkInviteAccepted: the update ignores whether the invite is still open.
MarkInviteAcceptedAnyway(h) ==
    /\ job[h].pc = "accepted"
    /\ invite' = [invite EXCEPT ![job[h].inv].st = "used", ![job[h].inv].by = job[h].user]
    /\ Continues(h, "session")
    /\ UNCHANGED <<row, sess, reset, opened, faults, cut, purged>>

(* The conditional update that only one acceptance can win. *)
MarkInviteAccepted(h) ==
    /\ job[h].pc = "accepted"
    /\ IF invite[job[h].inv].st = "open"
       THEN /\ invite' = [invite EXCEPT ![job[h].inv].st = "used", ![job[h].inv].by = job[h].user]
            /\ Continues(h, "session")
       ELSE Answers(h) /\ UNCHANGED invite
    /\ UNCHANGED <<row, sess, reset, opened, faults, cut, purged>>

-----------------------------------------------------------------------------
(* Password resets: an administrator issues a link, its holder consumes it.*)
IssuePasswordReset(r, u) == /\ reset[r].st = "none" /\ row[u].st
                            /\ reset' = [reset EXCEPT ![r] = [st |-> "open", user |-> u]]
                            /\ UNCHANGED <<row, sess, invite, job, jobs, opened, faults, cut, purged>>

LookupPasswordReset(h, r) == /\ reset[r].st = "open"
                             /\ Starts(h, [op |-> "consume", pc |-> "password", user |-> reset[r].user, rst |-> r])
                             /\ UNCHANGED <<row, sess, invite, reset, opened, faults, cut, purged>>

(* The write after which no earlier session may remain. *)
UpdatePasswordHash(h) ==
    /\ job[h].pc = "password"
    /\ WritePassword(job[h].user)
    /\ cut' = [cut EXCEPT ![job[h].user] = @ + 1]
    /\ job' = [job EXCEPT ![h] = [op |-> "consume", pc |-> "usedup", user |-> job[h].user, rst |-> job[h].rst,
                                  mark |-> cut[job[h].user] + 1]]
    /\ UNCHANGED <<sess, invite, reset, jobs, opened, faults, purged>>

(* Marking a used row again is tolerated. *)
MarkPasswordResetUsed(h) == /\ job[h].pc = "usedup"
                            /\ reset' = [reset EXCEPT ![job[h].rst].st = "used"]
                            /\ Continues(h, "purge")
                            /\ UNCHANGED <<row, sess, invite, opened, faults, cut, purged>>

\* Mutant of DeleteSessionsForUser: only the newest session is deleted.
DeleteNewestSession(h) ==
    /\ job[h].pc = "purge"
    /\ sess' = {s \in sess : s.user # job[h].user \/ \E t \in sess : t.user = s.user /\ t.id > s.id}
    /\ purged' = [purged EXCEPT ![job[h].user] = Max({@, job[h].mark})]
    /\ Answers(h)
    /\ UNCHANGED <<row, invite, reset, opened, faults, cut>>

DeleteSessionsForUser(h) ==
    /\ job[h].pc = "purge"
    /\ sess' = {s \in sess : s.user # job[h].user}
    /\ purged' = [purged EXCEPT ![job[h].user] = Max({@, job[h].mark})]
    /\ Answers(h)
    /\ UNCHANGED <<row, invite, reset, opened, faults, cut>>

(* Time passes the expiry of an open invite or reset link. *)
Expires(i, r) == /\ \/ invite[i].st = "open" /\ invite' = [invite EXCEPT ![i].st = "expired"] /\ UNCHANGED reset
                    \/ reset[r].st = "open" /\ reset' = [reset EXCEPT ![r].st = "expired"] /\ UNCHANGED invite
                 /\ UNCHANGED <<row, sess, job, jobs, opened, faults, cut, purged>>

-----------------------------------------------------------------------------
(* SetUserDisabled: the flag, then the purge of the account's sessions. *)
SetUserDisabled(h, u, b) ==
    /\ row[u].st
    /\ row' = [row EXCEPT ![u].disabled = b]
    /\ IF b THEN /\ Starts(h, [op |-> "disable", pc |-> "purge", user |-> u, mark |-> cut[u] + 1])
                 /\ cut' = [cut EXCEPT ![u] = @ + 1]
            ELSE job[h].op = "idle" /\ jobs < MaxJobs /\ jobs' = jobs + 1 /\ UNCHANGED <<job, cut>>
    /\ UNCHANGED <<sess, invite, reset, opened, faults, purged>>

(* SetUserRole: role, team and the flag that keeps claim mapping away are  *)
(* three statements; an unknown team ends the request after the first.     *)
SetUserRole(h, u, role, team) ==
    /\ row[u].st /\ (role # Unset \/ team # Unset)
    /\ row' = [row EXCEPT ![u].role = IF role = Unset THEN @ ELSE role]
    /\ Starts(h, [op |-> "role", pc |-> "team", user |-> u, team |-> team])
    /\ UNCHANGED <<sess, invite, reset, opened, faults, cut, purged>>
SetUserTeam(h) ==
    /\ job[h].pc = "team"
    /\ \/ /\ row' = [row EXCEPT ![job[h].user].team = IF job[h].team = Unset THEN @ ELSE job[h].team]
          /\ Continues(h, "manual")
       \/ job[h].team # Unset /\ Answers(h) /\ UNCHANGED row   \* no such team: 404
    /\ UNCHANGED <<sess, invite, reset, opened, faults, cut, purged>>
MarkRoleManuallyEdited(h) ==
    /\ job[h].pc = "manual"
    /\ row' = [row EXCEPT ![job[h].user].managed = FALSE]
    /\ Answers(h)
    /\ UNCHANGED <<sess, invite, reset, opened, faults, cut, purged>>

-----------------------------------------------------------------------------
(* The OIDC callback, once state, nonce and ID token have been verified:   *)
(* by subject, else by e-mail (the account is bound), else a new account.  *)
LookupUserByOIDCSub(h, u) ==
    /\ Starts(h, [op |-> "oidc", user |-> u, off |-> row[u].disabled, saw |-> FALSE,
                  pc |-> IF row[u].bound THEN "mapping" ELSE "email"])
    /\ UNCHANGED <<row, sess, invite, reset, opened, faults, cut, purged>>
LookupUserByEmail(h) ==
    /\ job[h].pc = "email"
    /\ job' = [job EXCEPT ![h].pc = IF row[job[h].user].st THEN "bind" ELSE "provision",
                          ![h].off = row[job[h].user].disabled]
    /\ UNCHANGED <<row, sess, invite, reset, jobs, opened, faults, cut, purged>>
(* The disabled flag was read with the row; a session follows if it was off.*)
SignsIn(h) == IF job[h].off THEN Answers(h) ELSE Continues(h, "session")
BindOIDCSub(h) ==
    /\ job[h].pc = "bind"
    /\ row' = [row EXCEPT ![job[h].user].bound = TRUE]
    /\ SignsIn(h)
    /\ UNCHANGED <<sess, invite, reset, opened, faults, cut, purged>>
CreateOIDCUser(h) ==
    /\ job[h].pc = "provision"
    /\ IF row[job[h].user].st
       THEN Answers(h) /\ UNCHANGED row
       ELSE /\ row' = [row EXCEPT ![job[h].user] = [Absent EXCEPT !.st = TRUE, !.bound = TRUE]]
            /\ Continues(h, "session")
    /\ UNCHANGED <<sess, invite, reset, opened, faults, cut, purged>>

Remaps(h) == /\ job' = [job EXCEPT ![h].pc = "remap", ![h].saw = row[job[h].user].managed]
             /\ UNCHANGED jobs

\* Mutant of ApplyOIDCMappingReads: claims win over the administrator's edit.
ApplyOIDCMappingAlways(h) ==
    /\ job[h].pc = "mapping"
    /\ Remaps(h)
    /\ UNCHANGED <<row, sess, invite, reset, opened, faults, cut, purged>>

(* ApplyOIDCMapping: the flag is read without a lock, role and team are    *)
(* written afterwards in the same transaction.                             *)
ApplyOIDCMappingReads(h) ==
    /\ job[h].pc = "mapping"
    /\ IF row[job[h].user].managed THEN Remaps(h) ELSE SignsIn(h)
    /\ UNCHANGED <<row, sess, invite, reset, opened, faults, cut, purged>>

ApplyOIDCMappingWrites(h) ==
    /\ job[h].pc = "remap"
    /\ row' = [row EXCEPT ![job[h].user].role = MappedRole, ![job[h].user].team = MappedTeam]
    /\ SignsIn(h)
    /\ UNCHANGED <<sess, invite, reset, opened, faults, cut, purged>>

(* A statement fails.  The error ends the request with what it has already *)
(* written, except where the code ignores it: the purge answers as if done *)
(* and a failed mapping still signs in.                                    *)
StatementFails(h) ==
    /\ job[h].op # "idle" /\ faults < MaxFaults
    /\ faults' = faults + 1
    /\ IF job[h].pc \in {"mapping", "remap"} THEN SignsIn(h) ELSE Answers(h)
    /\ UNCHANGED <<row, sess, invite, reset, opened, cut, purged>>

(* The handlers that go on over several statements, in their order (pc). *)
AcceptInvite(h) == CreateUser(h) \/ MarkInviteAccepted(h)
Consume(h) == UpdatePasswordHash(h) \/ MarkPasswordResetUsed(h) \/ DeleteSessionsForUser(h)
Callback(h) == \/ LookupUserByEmail(h) \/ BindOIDCSub(h) \/ CreateOIDCUser(h)
               \/ ApplyOIDCMappingReads(h) \/ ApplyOIDCMappingWrites(h)

AccountsNext ==
    \/ \E h \in Handlers, u \in Users :
         \/ Login(h, u) \/ LookupUserByOIDCSub(h, u)
         \/ \E i \in Invites : AcceptInviteReads(h, i, u)
         \/ \E b \in BOOLEAN : SetUserDisabled(h, u, b)
         \/ \E role \in Roles \cup {Unset}, team \in Teams \cup {Unset} : SetUserRole(h, u, role, team)
    \/ \E h \in Handlers, s \in sess, op \in {"change", "others"} : Session(h, s, op)
    \/ \E h \in Handlers, r \in Resets : LookupPasswordReset(h, r)
    \/ \E h \in Handlers :
         \/ CreateSession(h) \/ ChangePasswordReads(h) \/ ChangePasswordRefused(h) \/ ChangePasswordWrites(h)
         \/ RevokeOtherSessions(h) \/ AcceptInvite(h) \/ Consume(h) \/ SetUserTeam(h) \/ MarkRoleManuallyEdited(h)
         \/ Callback(h) \/ StatementFails(h)
    \/ \E s \in sess : Logout(s)
    \/ \E i \in Invites, pin \in Users \cup {NoUser}, role \in Roles, team \in Teams : CreateInvite(i, pin, role, team)
    \/ \E r \in Resets, u \in Users : IssuePasswordReset(r, u)
    \/ \E i \in Invites, r \in Resets : Expires(i, r)

AccountsSpec == AccountsInit /\ [][AccountsNext]_accountVars

-----------------------------------------------------------------------------
(* A session is never older than a forced sign-out that has run: once a    *)
(* password reset or a disable has purged the account, no session opened   *)
(* before that password or flag was written is left.  And the sessions an  *)
(* invite opened all belong to the one user it is recorded as accepted by, *)
(* however many requests accepted it at once.                              *)
SessionsJustified ==
    \A s \in sess : /\ s.born >= purged[s.user]
                    /\ s.via # Unset => invite[s.via].st = "used" /\ invite[s.via].by = s.user

Serves(j, op, u) == j.op = op /\ j.user = u
Edited(u) == /\ row[u].st /\ ~row[u].managed
             /\ \A h \in Handlers : Serves(job[h], "oidc", u) => ~(job[h].pc = "remap" /\ job[h].saw)

(* After an administrator's edit of role or team is marked, a sign-in that *)
(* had not already read the flag never changes either again: only another  *)
(* administrator's edit does, and the mark is never taken back.            *)
EditsOutlastSignIns ==
    \A u \in Users : Edited(u) =>
         /\ ~row'[u].managed
         /\ <<row'[u].role, row'[u].team>> # <<row[u].role, row[u].team>> =>
              \E h \in Handlers : Serves(job[h], "role", u) \/ Serves(job'[h], "role", u)
=============================================================================
