--------------------------- MODULE GuardrailFilter ---------------------------
(***************************************************************************)
(* guardrails.Filter: the literal policies of a team and a model applied   *)
(* to text.  A request's messages are each pushed whole; a streamed        *)
(* response is pushed piece by piece, and the filter holds back the        *)
(* suffix in which a term may still be completed.  The text is a sequence  *)
(* of characters; Fold is the simple case folding of the patterns.         *)
(***************************************************************************)
EXTENDS Naturals, Sequences, FiniteSets, SequencesExt

CONSTANTS
    Chars,         \* the alphabet
    Fold,          \* Chars -> Chars, the character a pattern compares
    Assignments,   \* the policy lists in force: sequences of [mode, phase, terms]
    MaxText,       \* bound: characters pushed
    MaxPiece,      \* bound: characters of one event
    MaxPending     \* the lookbehind capacity (1024 bytes)

VARIABLES
    policies,      \* the policies loaded for the request
    phase,         \* the phase this filter serves
    results,       \* Filter.rules[i].result
    pending,       \* Filter.pending
    text,          \* the text pushed since the last final push
    out,           \* what the filter returned for it
    fate           \* open, final, blocked, capacity or incomplete

filterVars == <<policies, phase, results, pending, text, out, fate>>

Mark == "[REDACTED]"
Modes == {"block", "redact", "flag"}

(* Policy.Validate and Decode: what an assignment may hold.                *)
Validate(p) == /\ p.mode \in Modes /\ p.phase \in {"pre", "post", "both"}
               /\ p.terms # {} /\ \A t \in p.terms : t # <<>>

(* New: the rules of one phase, and the longest term less one character.   *)
Rules(ps, ph) == SelectSeq(ps, LAMBDA p : p.phase \in {ph, "both"})
Hold(rules) ==
    LET sizes == UNION {{Len(t) - 1 : t \in rules[i].terms} : i \in DOMAIN rules} \cup {0}
    IN CHOOSE n \in sizes : \A m \in sizes : m <= n

(* The matches of one pattern: FindStringIndex from the left, each next    *)
(* search starting where the last match ended.                             *)
At(s, t, p) == /\ p + Len(t) - 1 <= Len(s)
               /\ \A k \in 1 .. Len(t) : Fold[s[p + k - 1]] = Fold[t[k]]
Matches(s, t) ==
    LET from[p \in 1 .. Len(s) + 1] ==
            IF p > Len(s) THEN {}
            ELSE IF At(s, t, p) THEN {p} \cup from[p + Len(t)]
            ELSE from[p + 1]
    IN from[1]
Hit(rule, s) == \E t \in rule.terms : Matches(s, t) # {}

(* The first rule in order that blocks the text, 0 if none does.           *)
Blocking(rules, s) ==
    LET hits == {i \in DOMAIN rules : rules[i].mode = "block" /\ Hit(rules[i], s)}
    IN IF hits = {} THEN 0 ELSE CHOOSE i \in hits : \A j \in hits : i <= j

Mask(rules, s) ==
    UNION {UNION {UNION {p .. p + Len(t) - 1 : p \in Matches(s, t)} : t \in rules[i].terms}
           : i \in {j \in DOMAIN rules : rules[j].mode = "redact"}}

\* Mutant of Cut: the held suffix may begin inside a redaction.
CutInside(rules, s, final) ==
    IF final THEN Len(s) ELSE IF Hold(rules) < Len(s) THEN Len(s) - Hold(rules) ELSE 0

(* How much of s may be returned: all of it on a final push, else all but  *)
(* the held suffix, moved back to the start of a redaction it would split. *)
Cut(rules, s, final) ==
    LET mask == Mask(rules, s)
        first == IF Hold(rules) < Len(s) THEN Len(s) - Hold(rules) ELSE 0
        whole == {c \in 0 .. first : ~(c > 0 /\ c < Len(s) /\ {c, c + 1} \subseteq mask)}
    IN IF final THEN Len(s) ELSE CHOOSE c \in whole : \A d \in whole : d <= c

(* The first n characters, each maximal masked run replaced by one mark.   *)
Redacted(rules, s, n) ==
    LET mask == Mask(rules, s)
        kept == {i \in 1 .. n : i \notin mask \/ i = 1 \/ (i - 1) \notin mask}
        order == SetToSortSeq(kept, LAMBDA i, j : i < j)
    IN [k \in DOMAIN order |-> IF order[k] \in mask THEN Mark ELSE s[order[k]]]

(* The results after a push: a rule behind the blocking one is not run.    *)
Judged(rules, old, s) ==
    LET stop == Blocking(rules, s)
    IN [i \in DOMAIN rules |->
          IF stop # 0 /\ i > stop THEN old[i]
          ELSE IF Hit(rules[i], s) THEN rules[i].mode
          ELSE IF old[i] = "not_evaluated" THEN "allow" ELSE old[i]]
-----------------------------------------------------------------------------
FilterInit ==
    /\ policies \in {ps \in Assignments : \A i \in DOMAIN ps : Validate(ps[i])}
    /\ phase \in {"pre", "post"}
    /\ results = [i \in DOMAIN Rules(policies, phase) |-> "not_evaluated"]
    /\ pending = <<>> /\ text = <<>> /\ out = <<>> /\ fate = "open"

(* Filter.Push.  A blocked push, and one whose held suffix outgrows the    *)
(* capacity, return an error and the request is over.                      *)
Push(piece, final) ==
    LET rules == Rules(policies, phase)
        s     == pending \o piece
        cut   == Cut(rules, s, final)
        fresh == fate = "final"
    IN /\ results' = Judged(rules, results, s)
       /\ text' = (IF fresh THEN <<>> ELSE text) \o piece
       /\ IF Blocking(rules, s) # 0
          THEN fate' = "blocked" /\ out' = (IF fresh THEN <<>> ELSE out) /\ UNCHANGED pending
          ELSE /\ pending' = SubSeq(s, cut + 1, Len(s))
               /\ IF Len(pending') > MaxPending
                  THEN fate' = "capacity" /\ out' = (IF fresh THEN <<>> ELSE out)
                  ELSE /\ out' = (IF fresh THEN <<>> ELSE out) \o Redacted(rules, s, cut)
                       /\ fate' = IF final THEN "final" ELSE "open"
       /\ UNCHANGED <<policies, phase>>

(* Request: every message's content is pushed whole.                       *)
Message(content) == phase = "pre" /\ fate \in {"open", "final"} /\ Push(content, TRUE)

(* Response: one event of a stream, or a whole response (final).           *)
Event(content, final) == phase = "post" /\ fate = "open" /\ Push(content, final)

(* Complete: the stream ended; a held suffix means no finish event came.   *)
Complete ==
    /\ phase = "post" /\ fate = "open"
    /\ fate' = IF pending # <<>> THEN "incomplete" ELSE "final"
    /\ UNCHANGED <<policies, phase, results, pending, text, out>>

Pieces == UNION {[1 .. n -> Chars] : n \in 0 .. MaxPiece}
FilterNext ==
    \/ \E c \in Pieces : Len(text) + Len(c) <= MaxText /\ Message(c)
    \/ \E c \in Pieces, f \in BOOLEAN : Len(text) + Len(c) <= MaxText /\ Event(c, f)
    \/ Complete

FilterSpec == FilterInit /\ [][FilterNext]_filterVars
-----------------------------------------------------------------------------
(* TestGuardrails: the console tries each rule of a phase on its own, and  *)
(* shows the text after the rules that do not block.                       *)
Alone(p, s) == Judged(<<p>>, <<"not_evaluated">>, s)[1]
TestDecision(ps, ph, s) ==
    LET seen == {Alone(r, s) : r \in ToSet(Rules(ps, ph))}
    IN IF "block" \in seen THEN "block" ELSE IF "redact" \in seen THEN "redact"
       ELSE IF "flag" \in seen THEN "flag" ELSE "allow"
TestOutput(ps, ph, s) ==
    LET passable == SelectSeq(Rules(ps, ph), LAMBDA p : p.mode # "block")
    IN IF TestDecision(ps, ph, s) = "block" THEN <<>> ELSE Redacted(passable, s, Len(s))
-----------------------------------------------------------------------------
(* Occurrences wherever they are, not only where a scan stops.             *)
Occurs(s, t) == \E p \in 1 .. Len(s) : At(s, t, p)
Forbidden(s) == \E i \in DOMAIN Rules(policies, phase) :
                   /\ Rules(policies, phase)[i].mode = "block"
                   /\ \E t \in Rules(policies, phase)[i].terms : Occurs(s, t)
Squeezed(s) == LET keep == {i \in DOMAIN s : i = 1 \/ s[i] # Mark \/ s[i - 1] # Mark}
                   order == SetToSortSeq(keep, LAMBDA i, j : i < j)
               IN [k \in DOMAIN order |-> s[order[k]]]

(* However a response is cut into events, the client of a stream gets what *)
(* one push of the whole text returns (adjacent marks counted as one), a   *)
(* stream is blocked exactly when the whole text is, and no character of   *)
(* the blocked term has been returned (Filter.Push's held suffix).         *)
PiecesDoNotShow ==
    LET rules == Rules(policies, phase)
    IN /\ fate = "final" =>
            /\ ~Forbidden(text)
            /\ Squeezed(out) = Squeezed(Redacted(rules, text, Len(text)))
       /\ fate = "open" => ~Forbidden(text)
       /\ fate = "blocked" =>
            /\ Forbidden(text)
            /\ \E n \in 0 .. Len(text) :
                 /\ Squeezed(out) = Squeezed(Redacted(rules, SubSeq(text, 1, n), n))
                 /\ \A i \in DOMAIN rules : rules[i].mode = "block" =>
                      \A t \in rules[i].terms, p \in 1 .. n : ~At(text, t, p)

(* The console's test of a text predicts the live decision: it says block  *)
(* exactly when the filter blocks, shows the text the filter returns, and  *)
(* a rule audited as allow found none of its terms (TestGuardrails,        *)
(* Filter.Results).                                                        *)
TestPredictsLive ==
    /\ fate \in {"final", "blocked"} =>
         (fate = "blocked" <=> TestDecision(policies, phase, text) = "block")
    /\ fate = "final" =>
         /\ Squeezed(TestOutput(policies, phase, text)) = Squeezed(out)
         /\ \A i \in DOMAIN results :
              results[i] = "allow" =>
                \A t \in Rules(policies, phase)[i].terms : ~Occurs(text, t)
=============================================================================
