----------------------------- MODULE MCLimits -------------------------------
(***************************************************************************)
(* What a request meets on its way to a provider: the entry to the gateway,*)
(* concurrency leases and request rates, end customers, the forwarding of  *)
(* requests as they are; and two limits of the console, on sign-ins and on *)
(* alerts.  A behaviour runs one of them in one configuration, its scene;  *)
(* the variables of the others are off.  Of leases one unit of time is 30  *)
(* seconds.                                                                *)
(***************************************************************************)
EXTENDS Integers, TLC

CONSTANTS Scenes, Callers, Entering, a, b, c, e, model, customer, teamRpm, keyTpm, unset, off

VARIABLES
    scene,
    lease, keyLeft, step, timeLeft,
    now, used, expires, prunedAt, check, onTime,
    mode, row, lock, call, editing, edits, wanted, raced,
    stage, unwinding, caller, ctx, deadline, cancel, served, touched, active, slots, held,
    draining, stopping, queuedAtDrain,
    forward, upstream, context, client, audit, upload,
    window, counts, at, passed,
    clock, rule, raised, fired, pass, passes, sent

leaseVars == <<lease, keyLeft, step, timeLeft>>
rateVars == <<now, used, expires, prunedAt, check, onTime>>
customerVars == <<mode, row, lock, call, editing, edits, wanted, raced>>
entryVars == <<stage, unwinding, caller, ctx, deadline, cancel, served, touched, active, slots,
               held, draining, stopping, queuedAtDrain>>
forwardVars == <<forward, upstream, context, client, audit, upload>>
throttleVars == <<window, counts, at, passed>>
alertVars == <<clock, rule, raised, fired, pass, passes, sent>>

\* Two requests of the model, one of the customer, and one of both; the default deadline.
All == {a, b, c, e}
Pair == {b, c}
Models == {model}
Both == {model, customer}
MixedScopes == (a :> Both) @@ (b :> Models) @@ (c :> Models) @@ (e :> {customer})
MixedLimit == (model :> 2) @@ (customer :> 1)

Mixed == INSTANCE LeaseLimiter WITH
    Requests <- All, Scopes <- Both, ScopesOf <- MixedScopes, Limit <- MixedLimit,
    Deadline <- 3, Buffer <- 1, Minimum <- 4, KeyGrace <- 2, EntryLease <- {}

\* Requests of one scope and a deadline of three minutes; those in Entering take
\* their lease in tenantConcurrencyMiddleware, the others in acquireConcurrencyScopes.
LongScopes == [r \in Callers |-> Models]
LongLimit == model :> 2

Long == INSTANCE LeaseLimiter WITH
    Requests <- Callers, Scopes <- Models, ScopesOf <- LongScopes, Limit <- LongLimit,
    Deadline <- 6, Buffer <- 1, Minimum <- 4, KeyGrace <- 2, EntryLease <- Entering

\* b and c are of the same key; e has only the team's rate; a has many tokens.
Rates == {teamRpm, keyTpm}
TwoRates == (teamRpm :> 2) @@ (keyTpm :> 4)
Increments ==
    (a :> (teamRpm :> 1 @@ keyTpm :> 3)) @@ (b :> (teamRpm :> 1 @@ keyTpm :> 2))
    @@ (c :> (teamRpm :> 1 @@ keyTpm :> 2)) @@ (e :> (teamRpm :> 1 @@ keyTpm :> 0))

Redis == INSTANCE RateLimiter WITH
    Backend <- "redis", Checks <- All, Limit <- TwoRates, Increment <- Increments,
    WindowSize <- 2, Millisecond <- 1, MaxCounters <- 3, MaxTime <- 3

Memory == INSTANCE RateLimiter WITH
    Backend <- "memory", Checks <- All, Limit <- TwoRates, Increment <- Increments,
    WindowSize <- 2, Millisecond <- 1, MaxCounters <- 3, MaxTime <- 5

\* Two customers, at most one of which requests may register; two requests and two editors.
Ids == {"x", "y"}
Administrators == {a, e}
Cap == {1}

EndCustomers == INSTANCE Customers WITH
    Requests <- Pair, Editors <- Administrators, Limits <- Cap, Unset <- unset, Nobody <- unset,
    MaxCustomers <- 1, MaxEdits <- 3

\* Two connections, one slot, a caller with a team and a service account and one without.
Identities ==
    {[team |-> 1, key |-> 1, keyId |-> 7, user |-> 0, account |-> 1],
     [team |-> 0, key |-> 1, keyId |-> 0, user |-> 0, account |-> 0]}

Entry == INSTANCE RequestEntry WITH
    Conns <- Pair, Callers <- Identities, Slots <- 1, MaxServed <- 2, lease <- held

\* One request with two deployments, and answers of up to three chunks.
Forward == INSTANCE ProxyForward WITH
    Requests <- {a}, Deps <- Pair, MaxChunks <- 3, call <- forward

\* Four sign-ins from an address, two of them to one account, with one store in Redis.
Fields == {"ip", "account"}
AttemptLimit == ("ip" :> 2) @@ ("account" :> 1)
Wants == [n \in All |-> IF n \in Pair THEN Fields ELSE {"ip"}]
StoreOf == [n \in All |-> "redis"]

Throttle == INSTANCE LoginThrottle WITH
    Limit <- AttemptLimit, Attempts <- All, Stores <- {"redis"}, Shared <- TRUE, Capacity <- 2,
    MaxWindow <- 1

\* Two replicas evaluate one rule.
Alerts == INSTANCE AlertEvaluator WITH
    Evaluators <- Pair, Rules <- {1}, Cooldown <- 2, MaxTime <- 3, MaxPasses <- 2

LimitsInit ==
    /\ scene \in Scenes
    /\ IF scene = "long" THEN Long!Init ELSE IF scene = "mixed" THEN Mixed!Init ELSE
         /\ lease = off /\ keyLeft = off /\ step = off /\ timeLeft = off
    /\ IF scene = "memory" THEN Memory!Init ELSE IF scene = "redis" THEN Redis!Init ELSE
         /\ now = off /\ used = off /\ expires = off /\ prunedAt = off /\ check = off
         /\ onTime = off
    /\ IF scene = "customers" THEN EndCustomers!CustomersInit ELSE
         /\ mode = off /\ row = off /\ lock = off /\ call = off /\ editing = off /\ edits = off
         /\ wanted = off /\ raced = off
    /\ IF scene = "entry" THEN Entry!EntryInit ELSE
         /\ stage = off /\ unwinding = off /\ caller = off /\ ctx = off /\ deadline = off
         /\ cancel = off /\ served = off /\ touched = off /\ active = off /\ slots = off
         /\ held = off /\ draining = off /\ stopping = off /\ queuedAtDrain = off
    /\ IF scene = "forward" THEN Forward!ProxyInit ELSE
         /\ forward = off /\ upstream = off /\ context = off /\ client = off /\ audit = off
         /\ upload = off
    /\ IF scene = "throttle" THEN Throttle!ThrottleInit ELSE
         /\ window = off /\ counts = off /\ at = off /\ passed = off
    /\ IF scene = "alerts" THEN Alerts!AlertInit ELSE
         /\ clock = off /\ rule = off /\ raised = off /\ fired = off /\ pass = off
         /\ passes = off /\ sent = off

LimitsNext ==
    /\ UNCHANGED scene
    /\ \/ /\ scene = "mixed" /\ Mixed!Next
          /\ UNCHANGED <<rateVars, customerVars, entryVars, forwardVars, throttleVars, alertVars>>
       \/ /\ scene = "long" /\ Long!Next
          /\ UNCHANGED <<rateVars, customerVars, entryVars, forwardVars, throttleVars, alertVars>>
       \/ /\ scene = "redis" /\ Redis!Next
          /\ UNCHANGED <<leaseVars, customerVars, entryVars, forwardVars, throttleVars, alertVars>>
       \/ /\ scene = "memory" /\ Memory!Next
          /\ UNCHANGED <<leaseVars, customerVars, entryVars, forwardVars, throttleVars, alertVars>>
       \/ /\ scene = "customers" /\ EndCustomers!CustomersNext
          /\ UNCHANGED <<leaseVars, rateVars, entryVars, forwardVars, throttleVars, alertVars>>
       \/ /\ scene = "entry" /\ Entry!EntryNext
          /\ UNCHANGED <<leaseVars, rateVars, customerVars, forwardVars, throttleVars, alertVars>>
       \/ /\ scene = "forward" /\ Forward!ProxyNext
          /\ UNCHANGED <<leaseVars, rateVars, customerVars, entryVars, throttleVars, alertVars>>
       \/ /\ scene = "throttle" /\ Throttle!ThrottleNext
          /\ UNCHANGED <<leaseVars, rateVars, customerVars, entryVars, forwardVars, alertVars>>
       \/ /\ scene = "alerts" /\ Alerts!AlertNext
          /\ UNCHANGED <<leaseVars, rateVars, customerVars, entryVars, forwardVars, throttleVars>>

LimitsSpec ==
    /\ LimitsInit
    /\ [][LimitsNext]_<<scene, leaseVars, rateVars, customerVars, entryVars, forwardVars,
                       throttleVars, alertVars>>

Alike == Permutations(Pair) \cup Permutations(Callers)
-----------------------------------------------------------------------------
\* No more requests run in a scope than its limit (acquireScript, the lease times).
CapHeld ==
    /\ scene = "long" => Long!CapHeld
    /\ scene = "mixed" => Mixed!CapHeld

(***************************************************************************)
(* A slot that is taken has an owner: a lease that is in all the scopes of *)
(* its request, which runs or ended not long ago.  Lost answers, failed    *)
(* releases and crashes cost a slot for a bounded time (acquireScript,     *)
(* Lease.Release).                                                         *)
(***************************************************************************)
SlotsAreOwned ==
    /\ scene = "long" => Long!TypeOK /\ Long!AllOrNothing
    /\ scene = "mixed" => Mixed!TypeOK /\ Mixed!AllOrNothing /\ Mixed!SlotsComeBack


(***************************************************************************)
(* Requests never register an end customer beyond the team's cap, however  *)
(* many arrive at once; who was admitted in a mode that requires it is     *)
(* registered; and an edit keeps the fields it leaves out unless two edits *)
(* overlapped (resolveRequestCustomer, GetOrCreateCustomer,                *)
(* UpdateCustomer).                                                        *)
(***************************************************************************)
CustomersHold ==
    /\ [](scene = "customers" =>
            EndCustomers!AdmittedAreRegistered /\ EndCustomers!CustomerEditsHold)
    /\ [][scene = "customers" => EndCustomers!RegistrationCapped]_customerVars

(***************************************************************************)
(* Whichever way a request leaves, nothing of it is left: its deadline,    *)
(* slot, lease and count; and a request still queued when the drain began  *)
(* is never served (the middleware stack of server.go).  A client of a     *)
(* forwarded request can tell a truncated answer from a complete one, and  *)
(* each call of a provider is recorded once (forwardProxy,                 *)
(* abortIncompleteProxy).                                                  *)
(***************************************************************************)
RequestsUnwind ==
    /\ scene = "entry" => Entry!NothingOutlivesTheRequest /\ Entry!DrainedNeverServed
    /\ scene = "forward" => Forward!TruncationIsVisible /\ Forward!ForwardsAreRecorded

(***************************************************************************)
(* No window lets more sign-ins through than an address or an account may  *)
(* try (loginThrottle), and an evaluator that has delivered an alert of a  *)
(* rule waits the cooldown before the next (Evaluator.evaluateRule).       *)
(***************************************************************************)
RatesHold ==
    /\ [](scene = "throttle" => Throttle!AttemptsBounded)
    /\ [][scene = "alerts" => Alerts!CooldownHeld]_alertVars
=============================================================================
