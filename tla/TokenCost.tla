----------------------------- MODULE TokenCost ------------------------------
(***************************************************************************)
(* What a request costs, in exact micro-cents: the partition of the        *)
(* reported usage into tiers with inherited rates, and the estimate that   *)
(* admission reserves before the usage is known.  Integers are bounded by  *)
(* MaxInt, as Go's int and int64 are by 2^63 - 1.                          *)
(***************************************************************************)
EXTENDS Integers

CONSTANTS
    MaxInt,
    None        \* a rate or a breakdown that is absent

ASSUME CostAssumption == MaxInt \in Nat /\ None \notin Int

Fail == -1

Pricing == [input : Int, output : Int, cacheRead : Int \cup {None}, cacheWrite : Int \cup {None},
            cacheWrite1h : Int \cup {None}, reasoning : Int \cup {None}]

Usage == [prompt : Int, completion : Int, read : Int, cached : Int, write : Int,
          creation : [h1 : Int, m5 : Int] \cup {None}, reasoning : Int]

Larger(a, b) == IF a < b THEN b ELSE a

TierRate(override, fallback) == IF override = None THEN fallback ELSE override

ReadRate(p) == TierRate(p.cacheRead, p.input)
WriteRate(p) == TierRate(p.cacheWrite, p.input)
Write1hRate(p) == TierRate(p.cacheWrite1h, WriteRate(p))
ReasoningRate(p) == TierRate(p.reasoning, p.output)

\* Providers report cached input in one field or in another.
CacheRead(u) == Larger(u.read, u.cached)

Write1h(u) == IF u.creation = None THEN 0 ELSE u.creation.h1
CacheWrite(u) ==
    IF u.creation # None /\ u.write = 0 THEN u.creation.h1 + u.creation.m5 ELSE u.write

\* What CostUsage accepts: the fields agree and the details are parts of the totals.
Consistent(u) ==
    /\ u.read >= 0 /\ u.write >= 0 /\ u.cached >= 0
    /\ u.read > 0 /\ u.cached > 0 => u.cached = u.read
    /\ u.creation # None =>
        /\ u.creation.h1 >= 0 /\ u.creation.m5 >= 0
        /\ u.creation.h1 <= MaxInt - u.creation.m5
        /\ u.write # 0 => u.write = u.creation.h1 + u.creation.m5
    /\ u.prompt >= 0 /\ u.completion >= 0
    /\ CacheRead(u) <= u.prompt /\ CacheWrite(u) <= u.prompt - CacheRead(u)
    /\ u.reasoning >= 0 /\ u.reasoning <= u.completion

\* weightedMicrocents: sums of products beyond int64 fail.
Fit(sum) == IF sum > MaxInt THEN Fail ELSE sum

InputCost(p, u) ==
    IF p.input < 0 \/ ReadRate(p) < 0 \/ WriteRate(p) < 0 \/ Write1hRate(p) < 0 THEN Fail
    ELSE Fit((u.prompt - CacheRead(u) - CacheWrite(u)) * p.input
           + CacheRead(u) * ReadRate(p)
           + (CacheWrite(u) - Write1h(u)) * WriteRate(p)
           + Write1h(u) * Write1hRate(p))

\* Mutant of OutputCost: reasoning is charged beside the completion it is part of.
OutputCostTwice(p, u) ==
    IF p.output < 0 \/ ReasoningRate(p) < 0 THEN Fail
    ELSE Fit(u.completion * p.output + u.reasoning * ReasoningRate(p))

OutputCost(p, u) ==
    IF p.output < 0 \/ ReasoningRate(p) < 0 THEN Fail
    ELSE Fit((u.completion - u.reasoning) * p.output + u.reasoning * ReasoningRate(p))

CostUsage(p, u) ==
    IF ~Consistent(u) \/ InputCost(p, u) = Fail \/ OutputCost(p, u) = Fail THEN Fail
    ELSE Fit(InputCost(p, u) + OutputCost(p, u))

Plain(prompt, completion) ==
    [prompt |-> prompt, completion |-> completion, read |-> 0, cached |-> 0, write |-> 0,
     creation |-> None, reasoning |-> 0]

\* Mutant of HighestRates: the rate of one-hour writes is left out.
HighestRatesNo1h(p) ==
    [p EXCEPT !.input = Larger(Larger(@, TierRate(p.cacheRead, @)), TierRate(p.cacheWrite, @)),
              !.output = Larger(@, ReasoningRate(p))]

\* The copy of the row that estimatedTierCost prices with; tiers stay as they are.
HighestRates(p) ==
    [p EXCEPT !.input = Larger(Larger(Larger(@, TierRate(p.cacheRead, @)),
                                      TierRate(p.cacheWrite, @)), TierRate(p.cacheWrite1h, @)),
              !.output = Larger(@, ReasoningRate(p))]

EstimatedTierCost(p, prompt, completion) == CostUsage(HighestRates(p), Plain(prompt, completion))

\* Over the rows of every target the request may fall back to.
MaxEstimatedCost(rows, prompt, completion) ==
    LET costs == {EstimatedTierCost(p, prompt, completion) : p \in rows}
    IN  IF Fail \in costs THEN Fail ELSE CHOOSE c \in costs : \A d \in costs : d <= c
=============================================================================
