-------------------------- MODULE MCRequestRouting --------------------------
EXTENDS RequestRouting

CONSTANTS a, b, c, r1, r2, x, y

Prio == [d \in {a, b, c} |-> IF d = c THEN 1 ELSE 0]
Of == [d \in {a, b, c} |-> IF d = b THEN y ELSE x]
Allowed == [r \in {r1, r2} |-> {a, b, c}]
Local == [d \in {a, b, c} |-> IF d = b THEN 0 ELSE 1]
Leases == [p \in {x, y} |-> 1]
=============================================================================
