---------------------------- MODULE LoginThrottle ----------------------------
(***************************************************************************)
(* The throttle in front of sign-in and reset: every attempt is counted    *)
(* against its source address and, on sign-in, its account before the      *)
(* password is looked at.  The counters of a window live in one bounded    *)
(* hash: in Redis, shared by the replicas, or in each process.  A request  *)
(* reads the clock, then its counters are checked and raised atomically    *)
(* (the Lua script, or the mutex); the window it read may be over by then. *)
(***************************************************************************)
EXTENDS Integers, FiniteSets, Functions

CONSTANTS
    Fields,        \* identity digests: source addresses and accounts, per endpoint
    Limit,         \* Fields -> Nat: 20 for an address, 5 for an account
    Attempts,      \* requests in progress
    Wants,         \* Attempts -> SUBSET Fields: the identities each is counted against
    Stores,        \* one shared store with Redis, one per process without it
    StoreOf,       \* Attempts -> Stores
    Shared,        \* Redis is configured
    Capacity,      \* loginCounterCapacity
    MaxWindow      \* bound: windows the clock passes through

VARIABLES
    window,    \* the current 15-minute window
    counts,    \* per store: the windows it holds, each a map from field to count
    at,        \* per attempt: the window read from the clock, or Waiting
    passed     \* per window and field: attempts let through to the handler in it

throttleVars == <<window, counts, at, passed>>

Waiting == -1
NoCounts == [f \in {} |-> 0]
Count(c, f) == IF f \in DOMAIN c THEN c[f] ELSE 0

ThrottleInit == /\ window = 0
                /\ counts = [s \in Stores |-> [w \in {} |-> NoCounts]]
                /\ at = [a \in Attempts |-> Waiting]
                /\ passed = [w \in 0..MaxWindow |-> [f \in Fields |-> 0]]

(* The hash an attempt of window w meets.  Redis keeps one key a window;   *)
(* a process drops its map when the window it sees is not the map's.       *)
Bucket(s, w) == IF w \in DOMAIN counts[s] THEN counts[s][w] ELSE NoCounts

(* allow: no counter at its limit, room for the new fields, then all rise. *)
UnderLimits(c, fs) == \A f \in fs : Count(c, f) < Limit[f]
HasRoom(c, fs) == Cardinality(DOMAIN c \cup fs) <= Capacity
\* Mutant of Raised: an attempt is counted against one of its two fields.
RaisedFirst(c, fs) == LET g == CHOOSE g \in fs : TRUE
                      IN  [f \in DOMAIN c \cup {g} |-> Count(c, f) + IF f = g THEN 1 ELSE 0]

Raised(c, fs) == [f \in DOMAIN c \cup fs |-> Count(c, f) + IF f \in fs THEN 1 ELSE 0]

ReadClock(a) == /\ at[a] = Waiting
                /\ at' = [at EXCEPT ![a] = window]
                /\ UNCHANGED <<window, counts, passed>>

Allow(a) ==
    LET s == StoreOf[a]
        w == at[a]
        old == Bucket(s, w)
        fs == Wants[a]
        ok == UnderLimits(old, fs) /\ HasRoom(old, fs)
    IN  /\ w # Waiting
        /\ counts' = [counts EXCEPT ![s] =
             IF Shared THEN IF ok THEN [v \in DOMAIN @ \cup {w} |-> IF v = w THEN Raised(old, fs) ELSE @[v]] ELSE @
             ELSE [v \in {w} |-> IF ok THEN Raised(old, fs) ELSE old]]
        /\ passed' = IF ok /\ w = window
                     THEN [passed EXCEPT ![w] = [f \in Fields |-> @[f] + IF f \in fs THEN 1 ELSE 0]]
                     ELSE passed
        /\ at' = [at EXCEPT ![a] = Waiting]
        /\ UNCHANGED window

(* Redis does not answer in time: 503, whether or not the script ran. *)
Unanswered(a) == /\ Shared /\ at[a] # Waiting
                 /\ LET old == Bucket(StoreOf[a], at[a])
                    IN  counts' \in {counts,
                          IF UnderLimits(old, Wants[a]) /\ HasRoom(old, Wants[a])
                          THEN [counts EXCEPT ![StoreOf[a]] =
                                  [v \in DOMAIN @ \cup {at[a]} |-> IF v = at[a] THEN Raised(old, Wants[a]) ELSE @[v]]]
                          ELSE counts}
                 /\ at' = [at EXCEPT ![a] = Waiting]
                 /\ UNCHANGED <<window, passed>>

(* The window ends; Redis expires the keys of the windows before it. *)
NextWindow == /\ window < MaxWindow
              /\ window' = window + 1
              /\ counts' = IF Shared THEN [s \in Stores |-> Restrict(counts[s], {})] ELSE counts
              /\ UNCHANGED <<at, passed>>

ThrottleNext == \/ \E a \in Attempts : ReadClock(a) \/ Allow(a) \/ Unanswered(a)
                \/ NextWindow
ThrottleSpec == ThrottleInit /\ [][ThrottleNext]_throttleVars

(* No identity gets more than its limit of attempts through to the         *)
(* password check within a window, over all replicas when Redis is shared  *)
(* and per process otherwise, and no window's map outgrows the capacity.   *)
AttemptsBounded ==
    /\ \A w \in 0..MaxWindow, f \in Fields : passed[w][f] <= Limit[f] * Cardinality(Stores)
    /\ \A s \in Stores : \A w \in DOMAIN counts[s] : Cardinality(DOMAIN counts[s][w]) <= Capacity
=============================================================================
