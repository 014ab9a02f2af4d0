----------------------------- MODULE Microcents -----------------------------
(***************************************************************************)
(* Exact amounts in micro-cents beside whole cents: rounding, limits and   *)
(* sums at the edge of int64, whose largest value is MaxInt.               *)
(***************************************************************************)
EXTENDS Integers

CONSTANTS
    MaxInt,
    PerCent,     \* MicrocentsPerCent
    None

Overflow == -1

CeilCents(microcents) ==
    microcents \div PerCent + (IF microcents % PerCent # 0 THEN 1 ELSE 0)

LimitMicrocents(limitCents) ==
    IF limitCents > MaxInt \div PerCent THEN MaxInt ELSE limitCents * PerCent

EffectiveMicrocents(cents, exact) ==
    CASE exact # None -> exact
      [] exact = None /\ cents < -(MaxInt \div PerCent) -> -MaxInt - 1
      [] exact = None /\ cents > MaxInt \div PerCent -> MaxInt
      [] OTHER -> cents * PerCent

AddMicrocents(a, b) == IF a < 0 \/ b < 0 \/ a > MaxInt - b THEN Overflow ELSE a + b

\* Mutant of WouldExceed: the sum is formed first and wraps.
WouldExceedWraps(used, need, limit) ==
    LET sum == used + need
    IN  (IF sum > MaxInt THEN sum - 2 * (MaxInt + 1) ELSE sum) > limit

WouldExceed(used, need, limit) ==
    used < 0 \/ need < 0 \/ limit < 0 \/ used > limit \/ need > limit - used

\* A negative limit admits nothing.
ScopeExceeded(limitCents, used, need) ==
    limitCents < 0 \/ WouldExceed(used, need, LimitMicrocents(limitCents))
=============================================================================
