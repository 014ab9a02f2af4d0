----------------------------- MODULE TenantKeys -----------------------------
(***************************************************************************)
(* Virtual keys.  A handler of the console reads a row to check the        *)
(* request, then runs the statement or transaction that changes it; two    *)
(* administrators and the clock interleave between the two.  A key's       *)
(* settings are its editable columns (name, limits, models); its owner and *)
(* its address list are never edited and are carried over with them.       *)
(***************************************************************************)
EXTENDS Integers, FiniteSets

CONSTANTS
    Keys,          \* key rows
    Admins,        \* console requests in progress
    Values,        \* values of the settings
    NoKey,         \* not a key
    Grace,         \* the grace period of a graceful rotation, in clock steps
    MaxTime,       \* bound: clock steps
    MaxWrites      \* bound: key writes by the console

VARIABLES
    now,       \* the database's clock
    key,       \* virtual_keys
    console,   \* the console request each administrator has in progress
    writes

keyVars == <<now, key, console, writes>>

Never == MaxTime + Grace + 1      \* no expiry
Idle == [op |-> "idle"]
NoRow == [made |-> FALSE]

KeysInit == /\ now = 0
            /\ key = [k \in Keys |-> NoRow]
            /\ console = [a \in Admins |-> Idle]
            /\ writes = 0

Rows == {k \in Keys : key[k].made}
Expired(k) == key[k].expires < now
LookupKey(k) == k \in Rows
Row(v, expires, from) == [made |-> TRUE, settings |-> v, expires |-> expires, from |-> from,
                          revoked |-> FALSE, paused |-> FALSE]

Begins(a, j) == console[a] = Idle /\ console' = [console EXCEPT ![a] = j]
Finishes(a) == console' = [console EXCEPT ![a] = Idle]
Writes(k, r) == /\ writes < MaxWrites /\ writes' = writes + 1
                /\ key' = [key EXCEPT ![k] = r]

(* CreateKey and CreateServiceAccountKey: a validated request inserts a    *)
(* fresh row.                                                              *)
CreateKey(k, v, expires) ==
    /\ k \notin Rows /\ expires >= now
    /\ Writes(k, Row(v, expires, NoKey))
    /\ UNCHANGED <<now, console>>

(* UpdateKey: the row is read and must not be revoked; then one statement  *)
(* replaces every editable column, the expiry included, on a live row.     *)
UpdateKey(a, k, v, expires) ==
    /\ k \in Rows /\ ~key[k].revoked /\ expires >= now
    /\ Begins(a, [op |-> "update", key |-> k, settings |-> v, expires |-> expires])
    /\ UNCHANGED <<now, key, writes>>

UpdateVirtualKey(a) ==
    LET j == console[a]
    IN  /\ j.op = "update"
        /\ IF key[j.key].revoked THEN UNCHANGED <<key, writes>>
           ELSE Writes(j.key, [key[j.key] EXCEPT !.settings = j.settings, !.expires = j.expires])
        /\ Finishes(a)
        /\ UNCHANGED now

(* RotateKey's checks on the row it reads first. *)
RotateKey(a, k, graceful) ==
    /\ k \in Rows /\ ~key[k].revoked /\ ~key[k].paused /\ ~Expired(k)
    /\ Begins(a, [op |-> "rotate", key |-> k, grace |-> graceful])
    /\ UNCHANGED <<now, key, writes>>

Replaces(k, c, graceful) ==
    key' = [key EXCEPT ![c] = Row(key[k].settings, key[k].expires, k),
                       ![k] = IF graceful
                              THEN [@ EXCEPT !.expires = IF @ < now + Grace THEN @ ELSE now + Grace]
                              ELSE [@ EXCEPT !.revoked = TRUE]]

\* Mutant of RotateVirtualKey: the transaction trusts the handler's earlier check.
RotateVirtualKeyUnchecked(a, c) ==
    LET k == console[a].key
    IN  /\ console[a].op = "rotate" /\ c \notin Rows
        /\ IF key[k].revoked
           THEN UNCHANGED <<key, writes>>
           ELSE /\ writes < MaxWrites /\ writes' = writes + 1
                /\ Replaces(k, c, console[a].grace)
        /\ Finishes(a)
        /\ UNCHANGED now

(* RotateVirtualKey: with the row locked, the checks again, a row with the *)
(* settings of the locked one, and the old key's revocation or expiry.     *)
RotateVirtualKey(a, c) ==
    LET k == console[a].key
    IN  /\ console[a].op = "rotate" /\ c \notin Rows
        /\ IF key[k].revoked \/ key[k].paused \/ Expired(k)
           THEN UNCHANGED <<key, writes>>
           ELSE /\ writes < MaxWrites /\ writes' = writes + 1
                /\ Replaces(k, c, console[a].grace)
        /\ Finishes(a)
        /\ UNCHANGED now

SetKeyPaused(k, paused) == /\ k \in Rows /\ ~key[k].revoked /\ key[k].paused # paused
                           /\ Writes(k, [key[k] EXCEPT !.paused = paused])
                           /\ UNCHANGED <<now, console>>

RevokeKey(k) == /\ k \in Rows /\ ~key[k].revoked
                /\ Writes(k, [key[k] EXCEPT !.revoked = TRUE])
                /\ UNCHANGED <<now, console>>

(* Bearer admits a request on the row LookupKey returns. *)
Bearer(k) == LookupKey(k) /\ ~key[k].revoked /\ ~key[k].paused /\ ~Expired(k)

Ticks == /\ now < MaxTime
         /\ now' = now + 1
         /\ UNCHANGED <<key, console, writes>>

KeysNext == \/ \E k \in Keys, v \in Values, e \in {now, Never} : CreateKey(k, v, e)
            \/ \E k \in Keys, b \in BOOLEAN : SetKeyPaused(k, b)
            \/ \E k \in Keys : RevokeKey(k)
            \/ \E a \in Admins, k \in Keys :
                 \/ \E v \in Values, e \in {now, Never} : UpdateKey(a, k, v, e)
                 \/ \E g \in BOOLEAN : RotateKey(a, k, g)
                 \/ RotateVirtualKey(a, k)
            \/ \E a \in Admins : UpdateVirtualKey(a)
            \/ Ticks
KeysSpec == KeysInit /\ [][KeysNext]_keyVars

----------------------------------------------------------------------------
(* A rotation replaces a key that could be used at that moment by one with *)
(* the settings it has then, and the old key is revoked or expires within  *)
(* the grace period; a revoked key never changes again, so one rotation    *)
(* without grace is the last (RotateVirtualKey's checks under the lock).   *)
RotationsHold ==
    /\ \A k \in Rows : key[k].revoked => key'[k] = key[k]
    /\ \A c \in Keys \ Rows :
         (key'[c].made /\ key'[c].from # NoKey)
         => LET k == key'[c].from
            IN  /\ Bearer(k)
                /\ key'[c].settings = key[k].settings
                /\ key'[k].revoked \/ key'[k].expires <= now + Grace
=============================================================================
