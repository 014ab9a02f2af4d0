---------------------------- MODULE MCFunctions -----------------------------
(***************************************************************************)
(* The pure functions (token costs and their estimates, amounts in         *)
(* micro-cents and cents, the choice among deployments), and what is made  *)
(* of a request and its answer: guardrails, the response cache, stored     *)
(* responses, the translation of provider streams.  A behaviour exercises  *)
(* one of them, its scene; the variables of the others are off.            *)
(***************************************************************************)
EXTENDS TokenCost, FiniteSetsExt, TLC

CONSTANTS
    Tokens,      \* bound on every reported count
    Rates,       \* the rates of pricing rows
    LargestInt,  \* MaxInt of the amounts
    PerCent,     \* micro-cents in a cent
    MaxLimit,    \* bound on limits in cents
    Size,        \* deployments in the alias
    MaxWeight,
    Turns,       \* bound on the round-robin counter
    x1, x2, unset, off

VARIABLES
    scene,
    rows, prompt, completion, estimate, target, usage, cost,
    limit, spent, need, admitted,
    set, weight, price, byCost, rr, count,
    req, policy, policyEdit, alias, entry, decided, edits,
    row, native, identity, create, reading, moves, faults,
    policies, phase, results, pending, text, out, fate,
    provider, at, seen, todo, finished, tally, pipe, closed, reader, cut

costVars == <<rows, prompt, completion, estimate, target, usage, cost>>
moneyVars == <<limit, spent, need, admitted>>
selectionVars == <<set, weight, price, byCost, rr, count>>
pipeVars == <<req, policy, policyEdit, alias, entry, decided, edits>>
storedVars == <<row, native, identity, create, reading, moves, faults>>
filterVars == <<policies, phase, results, pending, text, out, fate>>
translateVars == <<provider, at, seen, todo, finished, tally, pipe, closed, reader, cut>>
wireVars == <<pipeVars, storedVars, filterVars, translateVars>>

Money == INSTANCE Microcents WITH MaxInt <- LargestInt
Selection == INSTANCE DeploymentSelection
-----------------------------------------------------------------------------
\* A request is admitted at an estimate over its targets and settled at the cost of one.
Row(input, output, read, write, write1h, reasoning) ==
    [input |-> input, output |-> output, cacheRead |-> read, cacheWrite |-> write,
     cacheWrite1h |-> write1h, reasoning |-> reasoning]
Optional == Rates \cup {None}
CheapRow == Row(0, 1, None, None, None, None)

\* What providers report, with counts below zero and above the totals among it.
Reports ==
    {[prompt |-> p, completion |-> 0, read |-> r, cached |-> c, write |-> w, creation |-> b,
      reasoning |-> 0] :
        p \in 0..Tokens, r \in -1..1, c \in 0..2, w \in 0..2,
        b \in [h1 : -1..1, m5 : 0..1] \cup {None}}
    \cup
    {[Plain(1, c) EXCEPT !.reasoning = r] : c \in 0..Tokens, r \in -1..Tokens}

\* Reservations at the edge of a report, and one above them all.
Reservations == ((0..Tokens) \X {0}) \cup ({1} \X (0..Tokens)) \cup {<<Tokens, Tokens>>}

CostInit ==
    /\ IF scene = "cost"
       THEN /\ rows \in {{p, CheapRow} : p \in {Row(1, 2, r, w, h, t) : r, w, h, t \in Optional}}
            /\ \E r \in Reservations : prompt = r[1] /\ completion = r[2]
       ELSE rows = {CheapRow} /\ prompt = 0 /\ completion = 0
    /\ estimate = None /\ target = CheapRow /\ usage = Plain(0, 0) /\ cost = None

Admit ==
    /\ scene = "cost" /\ estimate = None
    /\ estimate' = MaxEstimatedCost(rows, prompt, completion)
    /\ UNCHANGED <<scene, rows, prompt, completion, target, usage, cost,
                   moneyVars, selectionVars, wireVars>>

Settle ==
    /\ scene = "cost" /\ estimate # None /\ cost = None
    /\ target' \in rows
    /\ usage' \in Reports
    /\ cost' = CostUsage(target', usage')
    /\ UNCHANGED <<scene, rows, prompt, completion, estimate, moneyVars, selectionVars, wireVars>>
-----------------------------------------------------------------------------
\* A scope with a limit in cents admits charges in micro-cents on top of rows that have
\* cents alone; the admitted amounts are summed as the reports sum them.
MoneyInit ==
    /\ IF scene = "money"
       THEN /\ limit \in -1..MaxLimit
            /\ \E cents \in 0..MaxLimit : spent = Money!EffectiveMicrocents(cents, None)
       ELSE limit = 0 /\ spent = 0
    /\ need = 0 /\ admitted = FALSE

Charge ==
    /\ scene = "money"
    /\ need' \in 0..LargestInt
    /\ admitted' = ~Money!ScopeExceeded(limit, spent, need')
    /\ spent' = IF admitted' THEN Money!AddMicrocents(spent, need') ELSE spent
    /\ UNCHANGED <<scene, limit, costVars, selectionVars, wireVars>>
-----------------------------------------------------------------------------
\* Requests of an unchanging alias, one after the other.
place == [d \in 1..Size |-> d]

SelectionInit ==
    /\ IF scene = "selection"
       THEN /\ set \in SUBSET (1..Size) \ {{}}
            /\ weight \in [1..Size -> -1..MaxWeight]
            /\ price \in [1..Size -> 0..1]
            /\ byCost \in BOOLEAN
       ELSE set = {1} /\ weight = place /\ price = place /\ byCost = FALSE
    /\ rr = 0 /\ count = [d \in 1..Size |-> 0]

Resolve ==
    LET d == IF Selection!UsesCost(set, byCost) THEN Selection!Cheapest(set, price, place)
             ELSE Selection!Rotate(set, weight, place, rr)
    IN  /\ scene = "selection" /\ rr < Turns
        /\ rr' = rr + 1
        /\ count' = [count EXCEPT ![d] = @ + 1]
        /\ UNCHANGED <<scene, set, weight, price, byCost, costVars, moneyVars, wireVars>>

-----------------------------------------------------------------------------
\* Of two chat requests the second may differ in spacing, team, streaming or the cache it
\* asks for, or be an embedding; two administrators edit the one guardrail.
Send(kind, team, body, stream, bypass) ==
    [kind |-> kind, team |-> team, body |-> body, stream |-> stream, bypass |-> bypass]

Sends ==
    ("r1" :> {Send("chat", "t1", "hi", FALSE, FALSE)})
    @@ ("r2" :> {Send("chat", "t1", "hi  ", FALSE, FALSE), Send("chat", "t2", "hi", FALSE, FALSE),
                 Send("chat", "t1", "hi", FALSE, TRUE), Send("chat", "t1", "hi", TRUE, FALSE),
                 Send("embed", "t1", "hi", FALSE, FALSE)})
Canonical == ("hi" :> "hi") @@ ("hi  " :> "hi")
Guardrail == "p" :> {"pre", "post"}
Two == {x1, x2}
Chats == {"r1", "r2"}
Teams == {"t1", "t2"}

Pipeline == INSTANCE ChatPipeline WITH
    Requests <- Chats, Policies <- Guardrail, Editors <- Two, MaxEdits <- 2, editing <- policyEdit

\* A response, one that may continue it or be another caller's, and a read of one of them.
Creates == {"q1", "q2"}
Reads == {"r"}
Callers == {"a", "b"}
OwnerOf == ("a" :> "k1") @@ ("b" :> "k2")
ScopeOf == ("a" :> "s1") @@ ("b" :> "s1")
Bodies ==
    ("q1" :> [who : {"a"}, stream : BOOLEAN, store : {TRUE}, prev : {"none"}])
    @@ ("q2" :> ([who : {"a", "b"}, stream : {FALSE}, store : {TRUE}, prev : {"q1"}]
                 \cup [who : {"b"}, stream : {TRUE}, store : {FALSE}, prev : {"none"}]))

Stored == INSTANCE ResponsesAPI WITH
    Sends <- Bodies, NoId <- "none", Deps <- Two, PermitCap <- 1, MaxEdits <- 1, MaxFaults <- 1,
    edits <- moves, read <- reading

\* Rules whose terms overlap themselves, each other and the marks they leave.
Rule(mode, when, terms) == [mode |-> mode, phase |-> when, terms |-> terms]

Chars == {"a", "b", "A"}
Fold == ("a" :> "a") @@ ("b" :> "b") @@ ("A" :> "a")
Assignments ==
    {<<Rule("redact", "both", {<<"a", "b">>})>>,
     <<Rule("redact", "post", {<<"a", "a">>}), Rule("block", "both", {<<"b", "a", "b">>})>>,
     <<Rule("redact", "both", {<<"a", "b">>, <<"b", "a">>}), Rule("flag", "post", {<<"b">>})>>,
     <<Rule("flag", "both", {<<"b">>}), Rule("redact", "both", {<<"b">>, <<"a", "a", "b">>}),
       Rule("block", "pre", {<<"b", "b">>})>>}

Filter == INSTANCE GuardrailFilter WITH MaxText <- 6, MaxPiece <- 2, MaxPending <- 4

\* Streams of up to four events, whose counts may exceed an int.
Providers == {"anthropic", "gemini", "bedrock", "cohere"}
Counts == {1, 3}

Translation == INSTANCE StreamTranslation WITH MaxInt <- 5, MaxEvents <- 4, usage <- tally

WireInit ==
    /\ IF scene = "pipeline" THEN Pipeline!PipeInit ELSE
         /\ req = off /\ policy = off /\ policyEdit = off /\ alias = off /\ entry = off
         /\ decided = off /\ edits = off
    /\ IF scene = "responses" THEN Stored!ResponsesInit ELSE
         /\ row = off /\ native = off /\ identity = off /\ create = off /\ reading = off
         /\ moves = off /\ faults = off
    /\ IF scene = "filter" THEN Filter!FilterInit ELSE
         /\ policies = off /\ phase = off /\ results = off /\ pending = off /\ text = off
         /\ out = off /\ fate = off
    /\ IF scene = "translation" THEN Translation!TranslateInit ELSE
         /\ provider = off /\ at = off /\ seen = off /\ todo = off /\ finished = off
         /\ tally = off /\ pipe = off /\ closed = off /\ reader = off /\ cut = off

WireNext ==
    /\ UNCHANGED <<scene, costVars, moneyVars, selectionVars>>
    /\ \/ /\ scene = "pipeline" /\ Pipeline!PipeNext
          /\ UNCHANGED <<storedVars, filterVars, translateVars>>
       \/ /\ scene = "responses" /\ Stored!ResponsesNext
          /\ UNCHANGED <<pipeVars, filterVars, translateVars>>
       \/ /\ scene = "filter" /\ Filter!FilterNext
          /\ UNCHANGED <<pipeVars, storedVars, translateVars>>
       \/ /\ scene = "translation" /\ Translation!TranslateNext
          /\ UNCHANGED <<pipeVars, storedVars, filterVars>>

Init ==
    /\ scene \in {"cost", "money", "selection", "pipeline", "responses",
                  "filter", "translation"}
    /\ CostInit /\ MoneyInit /\ SelectionInit /\ WireInit

Spec ==
    /\ Init
    /\ [][Admit \/ Settle \/ Charge \/ Resolve \/ WireNext]_<<scene, costVars, moneyVars,
                                                              selectionVars, wireVars>>

Alike == Permutations(Two)
-----------------------------------------------------------------------------
\* The rates of the tokens of a prompt, one by one: plain, read, written, written for an hour.
PromptRate(i) ==
    LET plain == usage.prompt - CacheRead(usage) - CacheWrite(usage)
        read == plain + CacheRead(usage)
        short == read + CacheWrite(usage) - Write1h(usage)
    IN  CASE i <= plain -> target.input
          [] plain < i /\ i <= read -> ReadRate(target)
          [] read < i /\ i <= short -> WriteRate(target)
          [] OTHER -> Write1hRate(target)

CompletionRate(i) == IF i <= usage.reasoning THEN ReasoningRate(target) ELSE target.output

Reference ==
    MapThenSumSet(PromptRate, 1..usage.prompt) + MapThenSumSet(CompletionRate, 1..usage.completion)

(***************************************************************************)
(* A cost charges every reported token once, at the rate of its tier, and  *)
(* is refused only when the usage contradicts itself or the sum does not   *)
(* fit (CostUsage).                                                        *)
(***************************************************************************)
CostIsExact ==
    cost # None =>
        /\ cost # Fail => cost = Reference
        /\ cost = Fail => ~Consistent(usage) \/ Reference > MaxInt

(***************************************************************************)
(* A request that uses no more tokens than were reserved costs no more     *)
(* than the estimate it was admitted with, whichever target served it and  *)
(* whatever part was cached, written or reasoning, and its cost can be     *)
(* computed (estimatedTierCost, maxEstimatedCost).                         *)
(***************************************************************************)
EstimateCovers ==
    cost # None /\ estimate # Fail /\ usage.prompt <= prompt /\ usage.completion <= completion
        => cost <= estimate /\ (Consistent(usage) => cost # Fail)

(***************************************************************************)
(* A charge is admitted exactly if the spend with it, in whole cents       *)
(* rounded up as reports show it, is within the limit and fits in int64,   *)
(* and is then added without wrapping: deciding in micro-cents and reading *)
(* cents never disagree (scopeExceeded, LimitMicrocents, CeilCents).  Cents*)
(* read back in place of an exact amount are less than a cent above it     *)
(* (EffectiveMicrocents).                                                  *)
(***************************************************************************)
CentsAgree ==
    [][scene = "money" =>
       LET sum == spent + need'
           again == Money!EffectiveMicrocents(Money!CeilCents(spent'), None)
       IN  /\ admitted' <=> sum <= LargestInt /\ Money!CeilCents(sum) <= limit
           /\ spent' = IF admitted' THEN sum ELSE spent
           /\ spent' <= again /\ again < spent' + PerCent]_moneyVars

(***************************************************************************)
(* The strategy of an alias decides who serves.  By weight, each candidate *)
(* was chosen as often as its weight says after every full turn, and is at *)
(* most its weight ahead in between; by cost, nothing but the cheapest was *)
(* chosen (pickLocked, sortCandidatesByCostLocked).                        *)
(***************************************************************************)
StrategyDecides == scene = "selection" =>
    IF Selection!UsesCost(set, byCost)
    THEN \A d, e \in set : count[d] > 0 => price[d] <= price[e]
    ELSE LET turns == rr \div Selection!Total(set, weight)
         IN  \A d \in set :
                LET due == turns * Selection!Share(weight, d)
                IN  /\ count[d] >= due /\ count[d] <= due + Selection!Share(weight, d)
                    /\ rr % Selection!Total(set, weight) = 0 => count[d] = due

(***************************************************************************)
(* An answer is shown or stored only with the decisions of all guardrails  *)
(* in force for it, a cache hit repeats the answer to the same request of  *)
(* the same team, and a saved guardrail assignment replaces the one its    *)
(* editor had seen (ChatCompletions, Cache.Key, ReplaceGuardrailScope).    *)
(***************************************************************************)
PipelineHolds ==
    /\ [](scene = "pipeline" => Pipeline!GuardedIsDecided /\ Pipeline!HitsRepeatAnAnswer)
    /\ [][scene = "pipeline" => Pipeline!PolicyEditsSeeTheLast]_pipeVars

(***************************************************************************)
(* A response ID a client was shown resolves to its response, a continued  *)
(* response goes to the deployment that holds the one it continues, and    *)
(* what a provider accepted is charged once (responses.go).                *)
(***************************************************************************)
StoredResponsesHold == scene = "responses" =>
    Stored!ShownIdsResolve /\ Stored!ContinuesWhereItWas /\ Stored!AcceptedIsCharged

(***************************************************************************)
(* Filtering a stream piece by piece shows what filtering the whole text   *)
(* shows, and a test of the policy predicts it (Filter.Push,               *)
(* TestGuardrails).                                                        *)
(***************************************************************************)
FilteredAsWhole == scene = "filter" => Filter!PiecesDoNotShow /\ Filter!TestPredictsLive

(***************************************************************************)
(* A translated stream ends in [DONE] only if the provider's own stream    *)
(* ended well, and its usage counts every reported token once              *)
(* (translateStream of each adapter).                                      *)
(***************************************************************************)
TranslationIsHonest == scene = "translation" =>
    Translation!DoneIsEarned /\ Translation!UsageCountsOnce
=============================================================================
