------------------------- MODULE ConcurrencyPolicies ------------------------
(***************************************************************************)
(* The snapshot of the concurrency caps that one replica keeps: the        *)
(* handlers and the watcher that refresh it from two tables, and how old   *)
(* what ConcurrencyScope answers may be.  A table is its version number.   *)
(***************************************************************************)
EXTENDS Integers

CONSTANTS
    Handlers,     \* administration requests
    Watcher,
    MaxVersion,   \* bound on the changes of a table
    MaxAge,       \* ConcurrencyPolicyMaxAge
    QueryTime     \* how long a refresh may take

Tables == {"routing", "customers"}
Refreshers == Handlers \cup {Watcher}
Versions == 0..MaxVersion
Oldest == MaxAge + QueryTime + 1
NoRead == -1

VARIABLES
    db,           \* the version of each table
    superseded,   \* history: how long ago a version was replaced
    snapshot,     \* byScope
    age,          \* time since loadedAt
    refresh       \* of each refresher: step, versions read, time since it began

vars == <<db, superseded, snapshot, age, refresh>>

Idle == [step |-> "idle", read |-> [t \in Tables |-> NoRead], since |-> 0,
         wrote |-> [t \in Tables |-> 0]]
Older(n, bound) == IF n < bound THEN n + 1 ELSE n

TypeOK ==
    /\ db \in [Tables -> Versions] /\ snapshot \in [Tables -> Versions]
    /\ superseded \in [Tables -> [Versions -> 0..Oldest]]
    /\ age \in 0..(MaxAge + 1)
    /\ \A r \in Refreshers :
        /\ refresh[r].step \in {"idle", "saved", "reading", "done"}
        /\ refresh[r].read \in [Tables -> Versions \cup {NoRead}]
        /\ refresh[r].since \in 0..(QueryTime + 1)
        /\ refresh[r].wrote \in [Tables -> Versions]

\* New loads the policies before the replica serves.
Init ==
    /\ db = [t \in Tables |-> 0] /\ snapshot = db
    /\ superseded = [t \in Tables |-> [v \in Versions |-> 0]]
    /\ age = 0
    /\ refresh = [r \in Refreshers |-> Idle]

Tick ==
    /\ age' = Older(age, MaxAge + 1)
    /\ superseded' = [t \in Tables |-> [v \in Versions |->
        IF v < db[t] THEN Older(superseded[t][v], Oldest) ELSE 0]]
    /\ refresh' = [r \in Refreshers |->
        IF refresh[r].step = "reading"
        THEN [refresh[r] EXCEPT !.since = Older(@, QueryTime + 1)] ELSE refresh[r]]
    /\ UNCHANGED <<db, snapshot>>

\* A handler commits its change, and then refreshes.
Save(h, t) ==
    /\ refresh[h].step = "idle" /\ db[t] < MaxVersion
    /\ db' = [db EXCEPT ![t] = @ + 1]
    /\ refresh' = [refresh EXCEPT ![h].step = "saved", ![h].wrote[t] = db'[t]]
    /\ UNCHANGED <<superseded, snapshot, age>>

\* Another replica commits a change.
PeerSaves(t) ==
    /\ db[t] < MaxVersion
    /\ db' = [db EXCEPT ![t] = @ + 1]
    /\ UNCHANGED <<superseded, snapshot, age, refresh>>

Reading(r) == [refresh[r] EXCEPT !.step = "reading", !.since = 0]

\* Mutant of BeginRefresh: loads are not serialized.
BeginUnserialized(r) ==
    /\ refresh[r].step = IF r = Watcher THEN "idle" ELSE "saved"
    /\ refresh' = [refresh EXCEPT ![r] = Reading(r)]
    /\ UNCHANGED <<db, superseded, snapshot, age>>

\* refreshMu is taken; the watcher refreshes when its ticker says so.
BeginRefresh(r) ==
    /\ refresh[r].step = IF r = Watcher THEN "idle" ELSE "saved"
    /\ \A other \in Refreshers : refresh[other].step # "reading"
    /\ refresh' = [refresh EXCEPT ![r] = Reading(r)]
    /\ UNCHANGED <<db, superseded, snapshot, age>>

\* The two queries: the routing limits, then those of the customers.
Query(r, t) ==
    /\ refresh[r].step = "reading" /\ refresh[r].read[t] = NoRead
    /\ t = "customers" => refresh[r].read["routing"] # NoRead
    /\ refresh' = [refresh EXCEPT ![r].read[t] = db[t]]
    /\ UNCHANGED <<db, superseded, snapshot, age>>

Finished(r) ==
    IF r = Watcher THEN Idle ELSE [Idle EXCEPT !.step = "done", !.wrote = refresh[r].wrote]

\* Mutant of Fail: the time of the attempt is kept as that of the load.
FailStamps(r) ==
    /\ refresh[r].step = "reading"
    /\ refresh' = [refresh EXCEPT ![r] = Idle]
    /\ age' = 0
    /\ UNCHANGED <<db, superseded, snapshot>>

\* A query fails, or the context of the refresh expires: the snapshot stays.
Fail(r) ==
    /\ refresh[r].step = "reading"
    /\ refresh' = [refresh EXCEPT ![r] = Idle]
    /\ UNCHANGED <<db, superseded, snapshot, age>>

Swap(r) ==
    /\ refresh[r].step = "reading" /\ refresh[r].since <= QueryTime
    /\ \A t \in Tables : refresh[r].read[t] # NoRead
    /\ snapshot' = refresh[r].read
    /\ age' = 0
    /\ refresh' = [refresh EXCEPT ![r] = Finished(r)]
    /\ UNCHANGED <<db, superseded>>

Next ==
    \/ Tick
    \/ \E t \in Tables : PeerSaves(t) \/ \E h \in Handlers : Save(h, t)
    \/ \E r \in Refreshers :
        BeginRefresh(r) \/ Fail(r) \/ Swap(r) \/ \E t \in Tables : Query(r, t)

Spec == Init /\ [][Next]_vars

\* ConcurrencyScope answers from the snapshot.
Answers == age <= MaxAge
-----------------------------------------------------------------------------
\* "An older concurrent query cannot overwrite a more recent policy"
\* (RefreshConcurrencyPolicies).
NeverOlder == \A t \in Tables : snapshot'[t] >= snapshot[t]

(***************************************************************************)
(* What ConcurrencyScope answers was in the database at most MaxAge and    *)
(* one refresh ago, whatever fails: a cap that another replica configured  *)
(* is enforced, or requests are refused.                                   *)
(***************************************************************************)
AnswersAreRecent ==
    Answers => \A t \in Tables :
        superseded[t][snapshot[t]] <= MaxAge + QueryTime

\* A change that a handler saved and refreshed stays in force on its replica, whichever
\* refreshes were under way (SetRoutingConcurrencyLimit).
SavedIsInForce ==
    \A h \in Handlers : refresh[h].step = "done" =>
        \A t \in Tables : snapshot[t] >= refresh[h].wrote[t]
=============================================================================
