--------------------------- MODULE TokenCostProofs --------------------------
(* The reservation covers the settlement, for all rates, counts and widths. *)
EXTENDS TokenCost, TLAPS

\* Products grow with either factor.
LEMMA ProductGrows ==
    ASSUME NEW a \in Nat, NEW b \in Nat, NEW c \in Nat, a <= b
    PROVE  a * c \in Nat /\ a * c <= b * c /\ c * a \in Nat /\ c * a <= c * b
<1>1. PICK d \in Nat : b = a + d
    <2>1. b - a \in Nat /\ b = a + (b - a)  OBVIOUS
    <2> QED BY <2>1
<1>2. a * c \in Nat /\ d * c \in Nat /\ b * c = a * c + d * c  BY <1>1
<1>3. c * a = a * c /\ c * b = b * c  OBVIOUS
<1> QED BY <1>2, <1>3

-----------------------------------------------------------------------------
\* A row without negative rates.
NonNegative(p) ==
    /\ p.input >= 0 /\ p.output >= 0
    /\ p.cacheRead # None => p.cacheRead >= 0
    /\ p.cacheWrite # None => p.cacheWrite >= 0
    /\ p.cacheWrite1h # None => p.cacheWrite1h >= 0
    /\ p.reasoning # None => p.reasoning >= 0

\* The rates that estimatedTierCost prices with are above every rate of the row.
LEMMA HighestIsHighest ==
    ASSUME NEW p \in Pricing, NonNegative(p)
    PROVE  /\ HighestRates(p).input \in Nat /\ HighestRates(p).output \in Nat
           /\ {p.input, ReadRate(p), WriteRate(p), Write1hRate(p)} \subseteq 0..HighestRates(p).input
           /\ {p.output, ReasoningRate(p)} \subseteq 0..HighestRates(p).output
<1>1. HighestRates(p).input = Larger(Larger(Larger(p.input, ReadRate(p)), WriteRate(p)),
                                     TierRate(p.cacheWrite1h, p.input))
    BY DEF HighestRates, Pricing, ReadRate, WriteRate
<1>2. HighestRates(p).output = Larger(p.output, ReasoningRate(p))
    BY DEF HighestRates, Pricing
<1>3. /\ p.input \in Nat /\ ReadRate(p) \in Nat /\ WriteRate(p) \in Nat
      /\ TierRate(p.cacheWrite1h, p.input) \in Nat
      /\ Write1hRate(p) \in {TierRate(p.cacheWrite1h, p.input), WriteRate(p)}
    BY DEF Pricing, NonNegative, TierRate, ReadRate, WriteRate, Write1hRate
<1>4. p.output \in Nat /\ ReasoningRate(p) \in Nat
    BY DEF Pricing, NonNegative, TierRate, ReasoningRate
<1> QED BY <1>1, <1>2, <1>3, <1>4 DEF Larger

\* The tiers of accepted usage are disjoint parts of its prompt.
LEMMA TiersPartition ==
    ASSUME NEW u \in Usage, Consistent(u)
    PROVE  /\ u.prompt \in Nat /\ CacheRead(u) \in Nat /\ Write1h(u) \in Nat
           /\ CacheWrite(u) - Write1h(u) \in Nat /\ CacheWrite(u) \in Nat
           /\ u.prompt - CacheRead(u) - CacheWrite(u) \in Nat
           /\ u.reasoning \in Nat /\ u.completion - u.reasoning \in Nat /\ u.completion \in Nat
<1>1. CacheRead(u) \in Nat  BY DEF Usage, Consistent, CacheRead, Larger
<1>2. /\ Write1h(u) \in Nat /\ CacheWrite(u) \in Nat
      /\ CacheWrite(u) - Write1h(u) \in Nat
    <2>1. CASE u.creation = None
        BY <2>1 DEF Usage, Consistent, Write1h, CacheWrite
    <2>2. CASE u.creation # None
        <3>1. u.creation.h1 \in Nat /\ u.creation.m5 \in Nat
            BY <2>2 DEF Usage, Consistent
        <3>2. Write1h(u) = u.creation.h1 /\ CacheWrite(u) = u.creation.h1 + u.creation.m5
            BY <2>2 DEF Usage, Consistent, Write1h, CacheWrite
        <3> QED BY <3>1, <3>2
    <2> QED BY <2>1, <2>2
<1>3. /\ u.prompt \in Nat /\ CacheRead(u) <= u.prompt
      /\ CacheWrite(u) <= u.prompt - CacheRead(u)
      /\ u.reasoning \in Nat /\ u.completion \in Nat /\ u.reasoning <= u.completion
    BY DEF Usage, Consistent
<1> QED BY <1>1, <1>2, <1>3

\* The estimate is the tokens at the highest rates, when that fits.
LEMMA EstimateIsProduct ==
    ASSUME NEW p \in Pricing, NonNegative(p), NEW prompt \in Nat, NEW completion \in Nat,
           EstimatedTierCost(p, prompt, completion) # Fail
    PROVE  /\ EstimatedTierCost(p, prompt, completion)
                = prompt * HighestRates(p).input + completion * HighestRates(p).output
           /\ EstimatedTierCost(p, prompt, completion) <= MaxInt
<1> DEFINE h == HighestRates(p)
           u == Plain(prompt, completion)
<1>1. h.input \in Nat /\ h.output \in Nat  BY HighestIsHighest
<1>2. /\ h.cacheRead = p.cacheRead /\ h.cacheWrite = p.cacheWrite
      /\ h.cacheWrite1h = p.cacheWrite1h /\ h.reasoning = p.reasoning
    BY DEF HighestRates, Pricing
<1>3. /\ ReadRate(h) \in Nat /\ WriteRate(h) \in Nat /\ Write1hRate(h) \in Nat
      /\ ReasoningRate(h) \in Nat
    <2> HIDE DEF h
    <2> QED BY <1>1, <1>2
            DEF Pricing, NonNegative, TierRate, ReadRate, WriteRate, Write1hRate, ReasoningRate
<1>4. /\ u.prompt = prompt /\ u.completion = completion /\ u.reasoning = 0
      /\ CacheRead(u) = 0 /\ CacheWrite(u) = 0 /\ Write1h(u) = 0
    BY DEF Plain, CacheRead, CacheWrite, Write1h, Larger
<1>5. prompt * h.input \in Nat /\ completion * h.output \in Nat
    BY <1>1, ProductGrows
<1>6. InputCost(h, u) = Fit(prompt * h.input)
    <2>1. 0 * ReadRate(h) = 0 /\ (0 - 0) * WriteRate(h) = 0 /\ 0 * Write1hRate(h) = 0
        BY <1>3
    <2>2. prompt - 0 - 0 = prompt  OBVIOUS
    <2>3. prompt * h.input + 0 + 0 + 0 = prompt * h.input  BY <1>5
    <2> HIDE DEF h, u
    <2> QED BY <1>1, <1>3, <1>4, <2>1, <2>2, <2>3 DEF InputCost
<1>7. OutputCost(h, u) = Fit(completion * h.output)
    <2>1. 0 * ReasoningRate(h) = 0  BY <1>3
    <2>2. completion - 0 = completion  OBVIOUS
    <2>3. completion * h.output + 0 = completion * h.output  BY <1>5
    <2> HIDE DEF h, u
    <2> QED BY <1>1, <1>3, <1>4, <2>1, <2>2, <2>3 DEF OutputCost
<1>8. CostUsage(h, u) # Fail  BY DEF EstimatedTierCost
<1>9. /\ InputCost(h, u) # Fail /\ OutputCost(h, u) # Fail
      /\ CostUsage(h, u) = Fit(InputCost(h, u) + OutputCost(h, u))
    BY <1>8 DEF CostUsage
<1>10. InputCost(h, u) = prompt * h.input /\ OutputCost(h, u) = completion * h.output
    BY <1>6, <1>7, <1>9 DEF Fit
<1>11. CostUsage(h, u) = prompt * h.input + completion * h.output /\ CostUsage(h, u) <= MaxInt
    <2> HIDE DEF h, u
    <2> QED BY <1>5, <1>8, <1>9, <1>10, CostAssumption DEF Fit
<1> QED BY <1>11 DEF EstimatedTierCost

(***************************************************************************)
(* What admission reserves covers what settlement charges: usage that is   *)
(* accepted and has no more tokens than were reserved costs at most the    *)
(* estimate, and its cost fits in an int64 whenever the estimate did, for  *)
(* every price list, every split into cached, written and reasoning        *)
(* tokens, and every width (estimatedTierCost, CostUsage).                 *)
(***************************************************************************)
THEOREM EstimateCoversCost ==
    ASSUME NEW p \in Pricing, NonNegative(p), NEW u \in Usage, Consistent(u),
           NEW prompt \in Nat, NEW completion \in Nat,
           u.prompt <= prompt, u.completion <= completion,
           EstimatedTierCost(p, prompt, completion) # Fail
    PROVE  CostUsage(p, u) \in 0..EstimatedTierCost(p, prompt, completion)
<1> DEFINE high == HighestRates(p).input
           top == HighestRates(p).output
           input == (u.prompt - CacheRead(u) - CacheWrite(u)) * p.input
                  + CacheRead(u) * ReadRate(p)
                  + (CacheWrite(u) - Write1h(u)) * WriteRate(p)
                  + Write1h(u) * Write1hRate(p)
           output == (u.completion - u.reasoning) * p.output + u.reasoning * ReasoningRate(p)
<1>1. /\ high \in Nat /\ top \in Nat
      /\ p.input \in Nat /\ ReadRate(p) \in Nat /\ WriteRate(p) \in Nat /\ Write1hRate(p) \in Nat
      /\ p.input <= high /\ ReadRate(p) <= high /\ WriteRate(p) <= high /\ Write1hRate(p) <= high
      /\ p.output \in Nat /\ ReasoningRate(p) \in Nat /\ p.output <= top /\ ReasoningRate(p) <= top
    <2> HIDE DEF high, top
    <2>1. /\ high \in Nat /\ top \in Nat
          /\ {p.input, ReadRate(p), WriteRate(p), Write1hRate(p)} \subseteq 0..high
          /\ {p.output, ReasoningRate(p)} \subseteq 0..top
        BY HighestIsHighest DEF high, top
    <2> QED BY <2>1
<1>2. input \in Nat /\ input <= prompt * high
    <2> DEFINE plain == u.prompt - CacheRead(u) - CacheWrite(u)
               read == CacheRead(u)
               short == CacheWrite(u) - Write1h(u)
               long == Write1h(u)
    <2>1. plain \in Nat /\ read \in Nat /\ short \in Nat /\ long \in Nat
        BY TiersPartition
    <2>2. plain + read + short + long <= prompt
        BY TiersPartition
    <2> HIDE DEF high, plain, read, short, long
    <2>3. /\ plain * p.input \in Nat /\ plain * p.input <= plain * high
          /\ read * ReadRate(p) \in Nat /\ read * ReadRate(p) <= read * high
        BY <1>1, <2>1, ProductGrows
    <2>4. /\ short * WriteRate(p) \in Nat /\ short * WriteRate(p) <= short * high
          /\ long * Write1hRate(p) \in Nat /\ long * Write1hRate(p) <= long * high
        BY <1>1, <2>1, ProductGrows
    <2>5. (plain + read + short + long) * high <= prompt * high
        <3>1. plain + read + short + long \in Nat  BY <2>1
        <3> QED BY <1>1, <2>2, <3>1, ProductGrows
    <2>6. (plain + read + short + long) * high
            = plain * high + read * high + short * high + long * high
        BY <1>1, <2>1
    <2>7. /\ plain * high \in Nat /\ read * high \in Nat /\ short * high \in Nat
          /\ long * high \in Nat /\ prompt * high \in Nat
        BY <1>1, <2>1, ProductGrows
    <2>8. /\ plain * p.input + read * ReadRate(p) + short * WriteRate(p) + long * Write1hRate(p) \in Nat
          /\ plain * p.input + read * ReadRate(p) + short * WriteRate(p) + long * Write1hRate(p)
                <= prompt * high
        BY <2>3, <2>4, <2>5, <2>6, <2>7
    <2> QED BY <2>8 DEF plain, read, short, long
<1>3. output \in Nat /\ output <= completion * top
    <2> DEFINE said == u.completion - u.reasoning
               thought == u.reasoning
    <2>1. said \in Nat /\ thought \in Nat /\ said + thought <= completion
        BY TiersPartition
    <2> HIDE DEF top, said, thought
    <2>2. /\ said * p.output \in Nat /\ said * p.output <= said * top
          /\ thought * ReasoningRate(p) \in Nat /\ thought * ReasoningRate(p) <= thought * top
        BY <1>1, <2>1, ProductGrows
    <2>3. (said + thought) * top <= completion * top
        BY <1>1, <2>1, ProductGrows
    <2>4. /\ (said + thought) * top = said * top + thought * top
          /\ said * top \in Nat /\ thought * top \in Nat /\ completion * top \in Nat
        BY <1>1, <2>1, ProductGrows
    <2>5. /\ said * p.output + thought * ReasoningRate(p) \in Nat
          /\ said * p.output + thought * ReasoningRate(p) <= completion * top
        BY <2>2, <2>3, <2>4
    <2> QED BY <2>5 DEF said, thought
<1>4. /\ EstimatedTierCost(p, prompt, completion) = prompt * high + completion * top
      /\ EstimatedTierCost(p, prompt, completion) <= MaxInt
    BY EstimateIsProduct
<1>5. prompt * high \in Nat /\ completion * top \in Nat  BY <1>1, ProductGrows
<1>6. InputCost(p, u) = Fit(input) /\ OutputCost(p, u) = Fit(output)
    BY <1>1 DEF InputCost, OutputCost
<1> HIDE DEF high, top, input, output
<1>7. input + output \in 0..EstimatedTierCost(p, prompt, completion) /\ input + output <= MaxInt
    BY <1>2, <1>3, <1>4, <1>5, CostAssumption
<1>8. InputCost(p, u) = input /\ OutputCost(p, u) = output
    BY <1>2, <1>3, <1>6, <1>7, CostAssumption DEF Fit
<1>9. CostUsage(p, u) = input + output
    BY <1>2, <1>3, <1>7, <1>8, CostAssumption DEF CostUsage, Fit, Fail
<1> QED BY <1>7, <1>9
=============================================================================
