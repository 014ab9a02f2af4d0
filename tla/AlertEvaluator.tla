--------------------------- MODULE AlertEvaluator ---------------------------
(***************************************************************************)
(* Alert rules and the evaluator every replica runs on a ticker.  A pass   *)
(* lists the enabled rules and takes them one by one under one deadline:   *)
(* the cooldown is read from the recorded events, the trigger's condition  *)
(* is read, the alert is delivered and only then recorded, on the same     *)
(* context.  Replicas do not coordinate.  What the triggers measure (spend,*)
(* errors, latency, provider samples) is the environment's.                *)
(***************************************************************************)
EXTENDS Integers, FiniteSets, FiniteSetsExt

CONSTANTS
    Evaluators,    \* replicas
    Rules,         \* rule identifiers, in evaluation order: ids are numbers
    Cooldown,      \* cooldown_seconds, in ticks
    MaxTime,       \* bound: ticks of the clock
    MaxPasses      \* bound: ticker firings, per replica

VARIABLES
    clock,     \* time
    rule,      \* alert_rules: absent, on, off, on but unusable, or deleted
    raised,    \* rules whose condition holds now
    fired,     \* alert_events: fired_at of each rule's events
    pass,      \* per replica: the pass in progress
    passes,    \* per replica: passes started
    sent       \* per replica and rule: when its last delivery was recorded

alertVars == <<clock, rule, raised, fired, pass, passes, sent>>

Never == -1
Resting == [pc |-> "rest"]

AlertInit == /\ clock = 0
             /\ rule = [r \in Rules |-> "absent"]
             /\ raised = {}
             /\ fired = [r \in Rules |-> {}]
             /\ pass = [e \in Evaluators |-> Resting]
             /\ passes = [e \in Evaluators |-> 0]
             /\ sent = [e \in Evaluators |-> [r \in Rules |-> Never]]

(* The console: create (enabled), toggle, delete with its events (its id   *)
(* is not used again).  A rule whose trigger needs a team scope it lacks   *)
(* is saved like any other.                                                *)
CreateAlertRule(r, usable) == /\ rule[r] = "absent"
                              /\ rule' = [rule EXCEPT ![r] = IF usable THEN "on" ELSE "unusable"]
                              /\ UNCHANGED <<clock, raised, fired, pass, passes, sent>>
SetAlertRuleEnabled(r) == /\ rule[r] \in {"on", "off"}
                          /\ rule' = [rule EXCEPT ![r] = IF @ = "on" THEN "off" ELSE "on"]
                          /\ UNCHANGED <<clock, raised, fired, pass, passes, sent>>
DeleteAlertRule(r) == /\ rule[r] \in {"on", "off", "unusable"}
                      /\ rule' = [rule EXCEPT ![r] = "deleted"]
                      /\ fired' = [fired EXCEPT ![r] = {}]
                      /\ UNCHANGED <<clock, raised, pass, passes, sent>>

(* A tick of the ticker: the enabled rules are listed. *)
Evaluate(e) == /\ pass[e].pc = "rest" /\ passes[e] < MaxPasses
               /\ passes' = [passes EXCEPT ![e] = @ + 1]
               /\ pass' = [pass EXCEPT ![e] = [pc |-> "next", todo |-> {r \in Rules : rule[r] \in {"on", "unusable"}}, late |-> FALSE, cur |-> 0]]
               /\ UNCHANGED <<clock, rule, raised, fired, sent>>

\* Mutant of CoolingDown: the event before the latest decides.
CoolingDownBefore(r) == LET older == fired[r] \ {Max(fired[r])}
                        IN  fired[r] # {} /\ older # {} /\ clock - Max(older) < Cooldown

(* evaluateRule up to the cooldown: a failed read skips the rule. *)
CoolingDown(r) == fired[r] # {} /\ clock - Max(fired[r]) < Cooldown

NextRule(e) ==
    /\ pass[e].pc = "next"
    /\ IF pass[e].todo = {} \/ pass[e].late
       THEN pass' = [pass EXCEPT ![e] = Resting]
       ELSE LET r == Min(pass[e].todo)
                rest == [pass[e] EXCEPT !.todo = @ \ {r}]
            IN  pass' = [pass EXCEPT ![e] = IF CoolingDown(r) THEN rest
                                            ELSE [rest EXCEPT !.pc = "check", !.cur = r]]
    /\ UNCHANGED <<clock, rule, raised, fired, passes, sent>>

(* evaluateTraffic, evaluateProviders and evaluateBudgetThreshold: below   *)
(* the threshold, out of scope, or unreadable, and nothing is sent.        *)
InScope(r) == rule[r] # "unusable"
OverThreshold(r) == r \in raised
CheckCondition(e) ==
    /\ pass[e].pc = "check"
    /\ pass' = [pass EXCEPT ![e].pc =
          IF InScope(pass[e].cur) /\ OverThreshold(pass[e].cur) /\ ~pass[e].late THEN "deliver" ELSE "next"]
    /\ UNCHANGED <<clock, rule, raised, fired, passes, sent>>

(* fire: the delivery, whatever it answers, and then the event. *)
Deliver(e) == /\ pass[e].pc = "deliver"
              /\ pass' = [pass EXCEPT ![e].pc = "record"]
              /\ UNCHANGED <<clock, rule, raised, fired, passes, sent>>
RecordAlertEvent(e) ==
    LET r == pass[e].cur
    IN  /\ pass[e].pc = "record"
        /\ IF pass[e].late \/ rule[r] = "deleted"    \* context over, or no row to refer to
           THEN UNCHANGED <<fired, sent>>
           ELSE /\ fired' = [fired EXCEPT ![r] = @ \cup {clock}]
                /\ sent' = [sent EXCEPT ![e][r] = clock]
        /\ pass' = [pass EXCEPT ![e].pc = "next"]
        /\ UNCHANGED <<clock, rule, raised, passes>>

(* The pass's deadline, at any of its waits. *)
Deadline(e) == /\ pass[e].pc # "rest" /\ ~pass[e].late
               /\ pass' = [pass EXCEPT ![e].late = TRUE]
               /\ UNCHANGED <<clock, rule, raised, fired, passes, sent>>

Tick == clock < MaxTime /\ clock' = clock + 1 /\ UNCHANGED <<rule, raised, fired, pass, passes, sent>>
Measured == \E r \in Rules : /\ raised' = IF r \in raised THEN raised \ {r} ELSE raised \cup {r}
                             /\ UNCHANGED <<clock, rule, fired, pass, passes, sent>>

AlertNext == \/ \E r \in Rules : \/ \E b \in BOOLEAN : CreateAlertRule(r, b)
                                 \/ SetAlertRuleEnabled(r) \/ DeleteAlertRule(r)
             \/ \E e \in Evaluators : \/ Evaluate(e) \/ NextRule(e) \/ CheckCondition(e)
                                      \/ Deliver(e) \/ RecordAlertEvent(e) \/ Deadline(e)
             \/ Tick \/ Measured
AlertSpec == AlertInit /\ [][AlertNext]_alertVars

(* A replica never delivers a rule's alert again within its cooldown of a  *)
(* delivery it recorded, even though the two passes read the cooldown      *)
(* before delivering and write it after: only an event that was never      *)
(* recorded, another replica's race, or the rule's deletion (which takes   *)
(* its events away under the pass) can repeat an alert.                    *)
CooldownHeld ==
    \A e \in Evaluators :
         pass[e].pc = "deliver" /\ pass'[e].pc = "record" /\ sent[e][pass[e].cur] # Never /\ rule[pass[e].cur] # "deleted"
           => clock - sent[e][pass[e].cur] >= Cooldown
=============================================================================
