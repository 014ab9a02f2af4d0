--------------------------- MODULE BoundedPermits ---------------------------
(***************************************************************************)
(* What a concurrency limiter promises: at most Limit clients hold a       *)
(* permit, and a permit is granted to and returned by one client at a time.*)
(***************************************************************************)
EXTENDS Naturals, FiniteSets

CONSTANTS Clients, Limit

VARIABLE held

Init == held = {}

Grant(c) ==
    /\ c \notin held
    /\ Cardinality(held) < Limit
    /\ held' = held \cup {c}

Return(c) ==
    /\ c \in held
    /\ held' = held \ {c}

Next == \E c \in Clients : Grant(c) \/ Return(c)

Spec == Init /\ [][Next]_held
=============================================================================
