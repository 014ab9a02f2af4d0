---------------------------- MODULE ChatPipeline ----------------------------
(***************************************************************************)
(* ChatCompletions and Embeddings, stage by stage: the guardrail policies  *)
(* read for the request, admission, the prompt cache in Redis, the budget  *)
(* hold, the upstream call, the decisions audited, the usage row and the   *)
(* entry left in the cache.  Between two stages administrators replace     *)
(* policies (a compare-and-swap under a row lock), and change the alias.   *)
(* What a policy does to text is GuardrailFilter's; who is a customer is   *)
(* Customers'; attempts and streams are RequestRouting's and ChatStream's. *)
(***************************************************************************)
EXTENDS Naturals, Sequences, FiniteSets

CONSTANTS
    Requests,
    Sends,        \* Requests -> the calls it may be: [kind, team, body, stream, bypass]
    Canonical,    \* body -> what is left of it for the cache key
    Teams, Editors,
    Policies,     \* policy -> the phases it runs in
    MaxEdits      \* bound: changes by administrators

VARIABLES
    req,          \* the handler of each request
    policy,       \* guardrails of each team row and of the alias row
    editing,      \* PUT /guardrails of each administrator
    alias,        \* the alias in the router: has targets, cache enabled
    entry,        \* Redis: cache key -> the request whose answer it holds
    decided,      \* guardrail_decisions rows of each request, by phase
    edits

pipeVars == <<req, policy, editing, alias, entry, decided, edits>>

Scopes == Teams \cup {"alias"}
NoEntry == "none"
Keys == {<<s.team, Canonical[s.body]>> : s \in UNION {Sends[r] : r \in Requests}}
Idle == [at |-> "idle", scope |-> "alias", expected |-> {}]

PipeInit ==
    /\ \E s \in [Requests -> UNION {Sends[r] : r \in Requests}] :
         /\ \A r \in Requests : s[r] \in Sends[r]
         /\ req = [r \in Requests |-> [at |-> "new", sent |-> s[r], guard |-> {}, caches |-> FALSE,
                                       held |-> FALSE, called |-> FALSE, tool |-> FALSE,
                                       from |-> "none", under |-> {}, rows |-> <<>>]]
    /\ policy = [s \in Scopes |-> {}]
    /\ editing = [e \in Editors |-> Idle]
    /\ alias \in [targets : {TRUE}, cached : BOOLEAN]
    /\ entry = [k \in Keys |-> NoEntry]
    /\ decided = [r \in Requests |-> {}]
    /\ edits = 0

Key(r) == <<req[r].sent.team, Canonical[req[r].sent.body]>>
Chat(r) == req[r].sent.kind = "chat"
Goes(r, at) == req' = [req EXCEPT ![r].at = at]

(* recordDenial and writeJSONError; some refusals write no usage row.      *)
Refused(r, recorded) ==
    req' = [req EXCEPT ![r].at = "refused", ![r].rows = IF recorded THEN Append(@, "denied") ELSE @]

KeepConsole == UNCHANGED <<policy, editing, alias, edits>>
-----------------------------------------------------------------------------
(* guardrailRun.audit: one transaction for the decisions of a phase; with  *)
(* no rule in the phase and no error there is nothing to write.            *)
Runs(r, phase) == \E p \in req[r].guard : phase \in Policies[p[2]]
Verdicts(r, phase) == {"pass", "unsupported"} \cup (IF Runs(r, phase) THEN {"block"} ELSE {})
Audit(r, phase, verdict, saved) ==
    IF Runs(r, phase) \/ verdict # "pass"
    THEN decided' = [decided EXCEPT ![r] = IF saved THEN @ \cup {phase} ELSE @]
    ELSE saved /\ UNCHANGED decided

(* modelAllowed, then loadGuardrails: one fresh read of the team's and the *)
(* alias's policies.  Only chat can be guarded; a refusal is audited,      *)
(* whether or not the audit succeeds.                                      *)
ModelNotAllowed(r) == /\ req[r].at = "new" /\ Refused(r, TRUE)
                      /\ KeepConsole /\ UNCHANGED <<entry, decided>>
GuardrailPolicies(team) == {<<"team", p>> : p \in policy[team]} \cup {<<"alias", p>> : p \in policy["alias"]}
LoadGuardrails(r) ==
    LET loaded == GuardrailPolicies(req[r].sent.team)
    IN /\ req[r].at = "new" /\ (loaded = {} \/ Chat(r))
       /\ req' = [req EXCEPT ![r].at = "admit", ![r].guard = loaded]
       /\ KeepConsole /\ UNCHANGED <<entry, decided>>
GuardrailsRefuse(r, saved) ==
    /\ req[r].at = "new"    \* unsupported for this endpoint, or not readable
    /\ Audit(r, "validation", "error", saved) /\ Refused(r, TRUE)
    /\ KeepConsole /\ UNCHANGED entry

(* The rest of admitRequestConcurrency: the customer and the caps refuse   *)
(* with a row, beginAccounting without one.                                *)
Admitted(r) == /\ req[r].at = "admit" /\ Goes(r, IF req[r].guard # {} THEN "pre" ELSE "rate")
               /\ KeepConsole /\ UNCHANGED <<entry, decided>>
NotAdmitted(r, recorded) == /\ req[r].at = "admit" /\ Refused(r, recorded)
                            /\ KeepConsole /\ UNCHANGED <<entry, decided>>

(* guardrailPre: the filtered body goes on only when the filter passed it  *)
(* and its decisions are committed.                                        *)
\* Mutant of GuardrailPre: the body goes on although its decisions were not committed.
GuardrailPreUnsaved(r, verdict, saved) ==
    /\ req[r].at = "pre"
    /\ verdict \in Verdicts(r, "pre") /\ Audit(r, "pre", verdict, saved)
    /\ IF verdict = "pass" THEN Goes(r, "rate") ELSE Refused(r, TRUE)
    /\ KeepConsole /\ UNCHANGED entry
GuardrailPre(r, verdict, saved) ==
    /\ req[r].at = "pre"
    /\ verdict \in Verdicts(r, "pre") /\ Audit(r, "pre", verdict, saved)
    /\ IF verdict = "pass" /\ saved THEN Goes(r, "rate") ELSE Refused(r, TRUE)
    /\ KeepConsole /\ UNCHANGED entry

(* Customer pricing, the completion bound and the rate limit: denials have *)
(* a row, an unavailable limiter and a bad bound do not.  Then CacheParams *)
(* says from the router's options whether the cache takes part; a guarded  *)
(* request never uses it.                                                  *)
CacheParams == alias.cached

RateRefuses(r, recorded) == /\ req[r].at = "rate" /\ Refused(r, recorded)
                            /\ KeepConsole /\ UNCHANGED <<entry, decided>>
RateAllows(r) ==
    /\ req[r].at = "rate"
    /\ req' = [req EXCEPT ![r].at = IF Chat(r) THEN "lookup" ELSE "budget",
                          ![r].caches = Chat(r) /\ CacheParams /\ req[r].guard = {}]
    /\ KeepConsole /\ UNCHANGED <<entry, decided>>

(* A hit is replayed with a usage row of no cost; a miss, a bypass, a      *)
(* stream or an error of Redis goes on to the budget.                      *)
Looks(r) == req[r].caches /\ ~req[r].sent.bypass /\ ~req[r].sent.stream
ReplayCachedChat(r) ==
    /\ req[r].at = "lookup" /\ Looks(r) /\ entry[Key(r)] # NoEntry
    /\ req' = [req EXCEPT ![r].at = "done", ![r].from = entry[Key(r)], ![r].rows = Append(@, "cached")]
    /\ KeepConsole /\ UNCHANGED <<entry, decided>>
CacheMiss(r) == /\ req[r].at = "lookup" /\ Goes(r, "budget")
                /\ ~(Looks(r) /\ entry[Key(r)] # NoEntry)
                /\ KeepConsole /\ UNCHANGED <<entry, decided>>
CacheFails(r) == /\ req[r].at = "lookup" /\ Looks(r) /\ Goes(r, "budget")
                 /\ KeepConsole /\ UNCHANGED <<entry, decided>>

(* enforceBudget: without targets it lets the request pass unheld, which   *)
(* then fails to route unless targets have appeared.                       *)
BudgetAdmits(r) ==
    /\ req[r].at = "budget"
    /\ req' = [req EXCEPT ![r].at = "route", ![r].held = alias.targets]
    /\ KeepConsole /\ UNCHANGED <<entry, decided>>
BudgetRefuses(r, recorded) == /\ req[r].at = "budget" /\ alias.targets /\ Refused(r, recorded)
                              /\ KeepConsole /\ UNCHANGED <<entry, decided>>

(* runChatWithFallback, streamChat or runEmbeddingsWithFallback.           *)
Calls(r) == /\ req[r].at = "route" /\ alias.targets
            /\ req' = [req EXCEPT ![r].at = IF req[r].sent.stream THEN "streaming" ELSE "waiting",
                                  ![r].called = TRUE]
            /\ KeepConsole /\ UNCHANGED <<entry, decided>>

(* writeRoutingError: no deployment served the request, or its call        *)
(* failed.  A guarded request's failure is audited, whether or not the     *)
(* audit succeeds; the usage row is written after the answer.              *)
RoutingFails(r, saved) ==
    /\ req[r].at \in {"route", "waiting"}
    /\ IF req[r].guard = {} THEN saved /\ UNCHANGED decided ELSE Audit(r, "post", "error", saved)
    /\ req' = [req EXCEPT ![r].at = "failed", ![r].rows = Append(@, "failed")]
    /\ KeepConsole /\ UNCHANGED entry

(* A stream is relayed and accounted by ChatStream; it is never cached.    *)
StreamEnds(r) ==
    /\ req[r].at = "streaming"
    /\ req' = [req EXCEPT ![r].at = "streamed", ![r].rows = Append(@, "charged")]
    /\ KeepConsole /\ UNCHANGED <<entry, decided>>

Answered(r, tool) ==
    /\ req[r].at = "waiting"
    /\ req' = [req EXCEPT ![r].tool = tool,
                          ![r].at = IF req[r].guard # {} THEN "post" ELSE "respond"]
    /\ KeepConsole /\ UNCHANGED <<entry, decided>>

(* guardedResponse: the answer is rewritten by the post rules and leaves   *)
(* only when their decisions are committed.                                *)
GuardedResponse(r, verdict, saved) ==
    /\ req[r].at = "post"
    /\ verdict \in Verdicts(r, "post") /\ Audit(r, "post", verdict, saved)
    /\ req' = IF verdict = "pass" /\ saved
              THEN [req EXCEPT ![r].at = "respond", ![r].under = req[r].guard]
              ELSE [req EXCEPT ![r].at = "failed", ![r].rows = Append(@, "charged")]
    /\ KeepConsole /\ UNCHANGED entry

(* writeJSON and recordUsage, then the entry for a cacheable answer, under *)
(* the options read at the lookup; a failed Set is ignored.                *)
Cacheable(r) == ~req[r].tool
Responds(r) ==
    /\ req[r].at = "respond"
    /\ req' = [req EXCEPT ![r].from = r, ![r].rows = Append(@, "charged"),
                          ![r].at = IF req[r].caches /\ ~req[r].sent.bypass /\ Cacheable(r)
                                    THEN "store" ELSE "done"]
    /\ KeepConsole /\ UNCHANGED <<entry, decided>>
CacheSet(r) ==
    /\ req[r].at = "store" /\ Goes(r, "done")
    /\ entry' = [entry EXCEPT ![Key(r)] = r]
    /\ KeepConsole /\ UNCHANGED decided
CacheSetFails(r) == /\ req[r].at = "store" /\ Goes(r, "done")
                    /\ KeepConsole /\ UNCHANGED <<entry, decided>>
-----------------------------------------------------------------------------
(* GET and PUT of a scope's policies by an administrator: what was shown   *)
(* is sent back as expected, compared under the row's lock.                *)
GetGuardrailScope(e, s) ==
    /\ editing[e].at = "idle" /\ edits < MaxEdits /\ edits' = edits + 1
    /\ editing' = [editing EXCEPT ![e] = [at |-> "editing", scope |-> s, expected |-> policy[s]]]
    /\ UNCHANGED <<req, policy, alias, entry, decided>>
Unlocked(e, s) == \A o \in Editors \ {e} : editing[o].at = "locked" => editing[o].scope # s
\* Mutant of LocksScope: what was shown is not compared.
LocksScopeBlindly(e) ==
    /\ editing[e].at = "editing" /\ Unlocked(e, editing[e].scope)
    /\ editing' = [editing EXCEPT ![e].at = "locked"]
    /\ UNCHANGED <<req, policy, alias, entry, decided, edits>>
LocksScope(e) ==
    /\ editing[e].at = "editing" /\ Unlocked(e, editing[e].scope)
    /\ editing' = IF policy[editing[e].scope] = editing[e].expected
                  THEN [editing EXCEPT ![e].at = "locked"] ELSE [editing EXCEPT ![e] = Idle]
    /\ UNCHANGED <<req, policy, alias, entry, decided, edits>>
ReplaceGuardrailScope(e, ps) ==
    /\ editing[e].at = "locked"
    /\ policy' = [policy EXCEPT ![editing[e].scope] = ps]
    /\ editing' = [editing EXCEPT ![e] = Idle]
    /\ UNCHANGED <<req, alias, entry, decided, edits>>
ReplaceFails(e) ==
    /\ editing[e].at \in {"editing", "locked"}
    /\ editing' = [editing EXCEPT ![e] = Idle]
    /\ UNCHANGED <<req, policy, alias, entry, decided, edits>>

(* The router swaps in other options or targets of the alias.              *)
AliasChanges(new) ==
    /\ alias # new /\ edits < MaxEdits /\ edits' = edits + 1
    /\ alias' = new
    /\ UNCHANGED <<req, policy, editing, entry, decided>>
(* External: Redis drops an entry whose TTL has passed.                    *)
Expires(k) == /\ entry[k] # NoEntry
              /\ entry' = [entry EXCEPT ![k] = NoEntry]
              /\ KeepConsole /\ UNCHANGED <<req, decided>>

Request(r) ==
    \/ ModelNotAllowed(r) \/ LoadGuardrails(r) \/ \E b \in BOOLEAN : GuardrailsRefuse(r, b)
    \/ Admitted(r) \/ \E b \in BOOLEAN : NotAdmitted(r, b)
    \/ \E v \in {"pass", "block", "unsupported"}, b \in BOOLEAN : GuardrailPre(r, v, b)
    \/ RateAllows(r) \/ \E b \in BOOLEAN : RateRefuses(r, b)
    \/ ReplayCachedChat(r) \/ CacheMiss(r) \/ CacheFails(r)
    \/ BudgetAdmits(r) \/ \E b \in BOOLEAN : BudgetRefuses(r, b)
    \/ Calls(r) \/ \E b \in BOOLEAN : RoutingFails(r, b)
    \/ StreamEnds(r) \/ \E b \in BOOLEAN : Answered(r, b)
    \/ \E v \in {"pass", "block", "unsupported"}, b \in BOOLEAN : GuardedResponse(r, v, b)
    \/ Responds(r) \/ CacheSet(r) \/ CacheSetFails(r)
Console ==
    \/ \E e \in Editors : \/ \E s \in Scopes : GetGuardrailScope(e, s)
                          \/ LocksScope(e) \/ ReplaceFails(e)
                          \/ \E ps \in SUBSET DOMAIN Policies : ReplaceGuardrailScope(e, ps)
    \/ \E new \in [targets : BOOLEAN, cached : BOOLEAN] : AliasChanges(new)

PipeNext == (\E r \in Requests : Request(r)) \/ Console \/ \E k \in Keys : Expires(k)
PipeSpec == PipeInit /\ [][PipeNext]_pipeVars
-----------------------------------------------------------------------------
(* A request that loaded policies calls upstream only with its pre         *)
(* decisions committed, and is answered only with its own upstream's       *)
(* answer, rewritten under exactly those policies, its post decisions      *)
(* committed: never from a cache filled under other policies (loadGuard-   *)
(* rails, guardrailPre, guardedResponse).                                  *)
GuardedIsDecided ==
    \A r \in Requests : req[r].guard # {} =>
        /\ req[r].called /\ Runs(r, "pre") => "pre" \in decided[r]
        /\ req[r].from # "none" =>
             /\ req[r].from = r /\ req[r].under = req[r].guard
             /\ Runs(r, "post") => "post" \in decided[r]

(* What the cache replays was answered in full to a request of the same    *)
(* team with the same canonical body that no policy guarded and that       *)
(* called no tool; it was charged there once and costs nothing here, and a *)
(* hit holds no budget (ChatCompletions, cacheable, replayCachedChat).     *)
HitsRepeatAnAnswer ==
    /\ \A r \in Requests :
         LET o == req[r].from
         IN o \notin {"none", r} =>
              /\ Key(o) = Key(r) /\ req[o].guard = {} /\ ~req[o].tool /\ ~req[o].sent.bypass
              /\ req[o].called /\ req[o].rows = <<"charged">>
              /\ ~req[r].held /\ ~req[r].called /\ req[r].rows = <<"cached">>
    /\ \A r \in Requests :
         /\ Len(req[r].rows) <= 1
         /\ req[r].called /\ req[r].at \in {"done", "streamed", "failed"} =>
              req[r].rows \in {<<"charged">>, <<"failed">>}
         /\ req[r].at = "refused" => ~req[r].called /\ ~req[r].held

(* A scope's policies are replaced only by an administrator who was shown  *)
(* exactly the policies replaced (ReplaceGuardrailScope's expected value). *)
PolicyEditsSeeTheLast ==
    \A s \in Scopes : policy'[s] # policy[s] =>
         \E e \in Editors : /\ editing[e].at = "locked" /\ editing[e].scope = s
                            /\ editing[e].expected = policy[s]
=============================================================================
