------------------------- MODULE AccountingTypes ----------------------------
(***************************************************************************)
(* The inductive invariant of Accounting, what a finalization records and  *)
(* charges under it, and the proof that every step preserves the types.    *)
(***************************************************************************)
EXTENDS Accounting, TLAPS

(***************************************************************************)
(* Which combinations of journal, reservation, transaction and handler     *)
(* states exist.  The last conjuncts say why recovery never competes with  *)
(* a live attempt, and why a reservation that becomes visible late belongs *)
(* to a request that was never started.                                    *)
(***************************************************************************)
Rows ==
    \A r \in Requests :
        /\ journal[r] = "none" =>
            /\ reserve[r] = "none" /\ ~upstream[r] /\ pc[r] \in {"new", "checked", "gone"}
        /\ owner[r] # "nobody" => journal[r] = "pending"
        /\ owner[r] = "nobody" => saw[r] = "none"
        /\ owner[r] = "handler" => pc[r] \in {"record", "exit"}
        /\ owner[r] \in Replicas => clock[r] = "expired"
        /\ saw[r] # "none" => saw[r] = "reserved" /\ reserve[r] = "reserved"
        /\ reserve[r] = "inflight" => journal[r] = "pending" /\ ~upstream[r]
        /\ pc[r] = "begun" => reserve[r] = "none"
        /\ pc[r] \in {"begun", "admitting"} => ~upstream[r]
        /\ pc[r] \in {"routing", "calling"} => reserve[r] # "inflight"
        /\ pc[r] = "calling" => upstream[r]
        /\ pc[r] \in {"begun", "admitting", "routing", "calling"} /\ clock[r] # "expired" =>
            journal[r] = "pending"
        /\ upstream[r] /\ owner[r] # "nobody" /\ saw[r] = "none" => reserve[r] = "none"
        /\ called[r] => upstream[r]

(***************************************************************************)
(* A started request is finalized with evidence that is not "free".        *)
(***************************************************************************)
EntriesFit ==
    \A r \in Requests :
        /\ pc[r] \notin {"record", "exit"} => entry[r] = BaseEntry(r)
        /\ r \notin Reads /\ upstream[r] => entry[r].state \in {"unknown", "priced", "unpriced"}

(***************************************************************************)
(* The epochs: a failed completion whose intent is pending is newer than   *)
(* what was acknowledged, and an older checkpoint contains its intent.     *)
(***************************************************************************)
Epochs ==
    /\ \A n \in Replicas :
        /\ healthy[n] <= failures[n] /\ observed[n] <= failures[n]
        /\ worker[n] \in {"query", "ack"} => epoch[n] = observed[n] /\ healthy[n] <= epoch[n]
        /\ worker[n] = "ack" => cutoff[n] # NoCutoff
    /\ \A r \in Requests :
        /\ failEpoch[r] <= failures[Home[r]]
        /\ failEpoch[r] > 0 => journal[r] # "none"
        /\ failEpoch[r] > 0 /\ journal[r] = "pending" =>
            /\ healthy[Home[r]] < failEpoch[r]
            /\ cutoff[Home[r]] # NoCutoff /\ failEpoch[r] <= observed[Home[r]] =>
                r \in cutoff[Home[r]]
            /\ worker[Home[r]] = "ack" /\ failEpoch[r] <= epoch[Home[r]] => pending[Home[r]]

Ledger == OneReceipt /\ TotalsMatchLedger /\ StartedWorkIsCharged

IInv == TypeOK /\ Rows /\ EntriesFit /\ Ledger /\ Epochs

(***************************************************************************)
(* TypeOK by groups of variables.                                          *)
(***************************************************************************)
ReceiptStates == {"unknown", "priced", "unpriced", "not_billable", "estimated"}

DbTypes ==
    /\ journal \in [Requests -> {"none", "pending", "complete"}]
    /\ upstream \in [Requests -> BOOLEAN]
    /\ reserve \in [Requests -> {"none", "inflight", "reserved", "settled"}]
    /\ settled \in [Requests -> Amounts]
    /\ usage \in [Requests -> {NoUsage} \cup [cost : Amounts, state : ReceiptStates]]
    /\ charged \in [Requests -> Amounts]

ClockTypes == clock \in [Requests -> {"live", "over", "expired"}]

TxTypes ==
    /\ owner \in [Requests -> {"nobody", "handler"} \cup Replicas]
    /\ saw \in [Requests -> {"none", "reserved", "settled"}]

HandlerTypes ==
    /\ pc \in [Requests -> {"new", "checked", "gone"} \cup Active]
    /\ entry \in [Requests -> Entries]
    /\ called \in [Requests -> BOOLEAN]

LoggerTypes ==
    /\ failures \in [Replicas -> Nat] /\ healthy \in [Replicas -> Nat]
    /\ observed \in [Replicas -> Nat] /\ epoch \in [Replicas -> Nat]
    /\ cutoff \in [Replicas -> (SUBSET Requests) \cup {NoCutoff}]
    /\ worker \in [Replicas -> {"idle", "claimed", "load", "query", "ack"}]
    /\ pending \in [Replicas -> BOOLEAN]

BoundTypes == failEpoch \in [Requests -> Nat] /\ faults \in Nat /\ crashes \in Nat

LEMMA TypeGroups ==
    TypeOK <=> DbTypes /\ ClockTypes /\ TxTypes /\ HandlerTypes /\ LoggerTypes /\ BoundTypes
  BY DEF TypeOK, DbTypes, ClockTypes, TxTypes, HandlerTypes, LoggerTypes, BoundTypes,
     ReceiptStates

LEMMA TypeGroupsNext ==
    DbTypes' /\ ClockTypes' /\ TxTypes' /\ HandlerTypes' /\ LoggerTypes' /\ BoundTypes' => TypeOK'
  BY DEF TypeOK, DbTypes, ClockTypes, TxTypes, HandlerTypes, LoggerTypes, BoundTypes,
     ReceiptStates

LEMMA UnchangedTypes ==
    ASSUME TypeOK
    PROVE  /\ UNCHANGED db => DbTypes'
           /\ UNCHANGED clock => ClockTypes'
           /\ UNCHANGED txs => TxTypes'
           /\ UNCHANGED handler => HandlerTypes'
           /\ UNCHANGED logger => LoggerTypes'
           /\ UNCHANGED <<failEpoch, faults, crashes>> => BoundTypes'
<1>1. UNCHANGED db => DbTypes'
  BY TypeGroups DEF DbTypes, db
<1>2. UNCHANGED clock => ClockTypes'
  BY TypeGroups DEF ClockTypes
<1>3. UNCHANGED txs => TxTypes'
  BY TypeGroups DEF TxTypes, txs
<1>4. UNCHANGED handler => HandlerTypes'
  BY TypeGroups DEF HandlerTypes, handler
<1>5. UNCHANGED logger => LoggerTypes'
  BY TypeGroups DEF LoggerTypes, logger
<1>6. UNCHANGED <<failEpoch, faults, crashes>> => BoundTypes'
  BY TypeGroups DEF BoundTypes
<1> QED
  BY <1>1, <1>2, <1>3, <1>4, <1>5, <1>6

(***************************************************************************)
(* What finalizeJournal records, and what the triggers then charge.        *)
(***************************************************************************)
LEMMA ReceiptType ==
    ASSUME IInv, NEW r \in Requests, NEW o
    PROVE  Receipt(r, o) \in [cost : Amounts, state : ReceiptStates]
<1> DEFINE Priced == [cost : Costs \cup {0}, state : ReceiptStates]
<1>1. BaseEntry(r) \in Priced /\ [cost |-> 0, state |-> "not_billable"] \in Priced
  BY DEF BaseEntry, ReceiptStates
<1>2. entry[r] \in [cost : Costs \cup {0}, state : EntryStates]
  BY DEF IInv, TypeOK, Entries
<1>3. ClassifyAccounting(entry[r]) \in Priced
  BY <1>2 DEF ClassifyAccounting, EntryStates, ReceiptStates
<1>4. Evidence(r, o) \in Priced
  BY <1>1, <1>3 DEF Evidence
<1>5. settled[r] \in Amounts /\ saw[r] \in {"none", "reserved", "settled"}
  BY DEF IInv, TypeOK
<1>6. Evidence(r, o) \in [cost : Amounts, state : ReceiptStates]
  BY <1>4 DEF Amounts
<1>7. CASE saw[r] = "none"
  BY <1>6, <1>7 DEF Receipt
<1>8. CASE saw[r] = "settled"
  BY <1>5, <1>6, <1>8 DEF Receipt, ReceiptStates
<1>9. CASE saw[r] = "reserved"
  BY <1>6, <1>9 DEF Receipt, ReceiptStates, Amounts
<1> QED
  BY <1>5, <1>7, <1>8, <1>9

LEMMA ChargeExact ==
    ASSUME IInv, NEW r \in Requests, NEW o, owner[r] # "nobody", reserve[r] # "inflight"
    PROVE  ChargeAfter(r, Receipt(r, o)) =
                IF saw[r] = "none" /\ reserve[r] # "none" THEN charged[r] ELSE Receipt(r, o).cost
<1> DEFINE c == Receipt(r, o).cost
<1>1. c \in Nat /\ charged[r] \in Nat /\ Estimate \in Nat
  <2>1. Amounts \subseteq Nat
    BY AccountingAssumption DEF Amounts
  <2>2. c \in Amounts /\ charged[r] \in Amounts
    BY ReceiptType DEF IInv, TypeOK
  <2> QED
    BY <2>1, <2>2, AccountingAssumption
<1>2. usage[r] = NoUsage /\ reserve[r] # "settled"
  BY DEF IInv, Ledger, OneReceipt, Rows, TypeOK
<1>3. CASE saw[r] = "none"
  <2>1. reserve[r] = "none" => charged[r] = 0
    BY <1>2 DEF IInv, Ledger, TotalsMatchLedger, NoUsage
  <2> QED
    BY <1>1, <1>3, <2>1 DEF ChargeAfter
<1>4. CASE saw[r] # "none"
  <2>1. saw[r] = "reserved" /\ reserve[r] = "reserved" /\ charged[r] = Estimate
    BY <1>4 DEF IInv, Rows, Ledger, TotalsMatchLedger
  <2> QED
    BY <1>1, <2>1 DEF ChargeAfter
<1> QED
  BY <1>3, <1>4

LEMMA FinalizeTypes ==
    ASSUME IInv, NEW Q \in SUBSET Requests, NEW o, Finalize(Q, o),
           \A r \in Q : owner[r] # "nobody"
    PROVE  DbTypes'
<1>1. \A r \in Requests : Receipt(r, o) \in [cost : Amounts, state : ReceiptStates]
  BY ReceiptType
<1>2. \A r \in Q : ChargeAfter(r, Receipt(r, o)) \in Amounts
  <2> TAKE r \in Q
  <2>1. reserve[r] # "inflight" /\ charged[r] \in Amounts
    BY DEF Finalize, IInv, TypeOK
  <2> QED
    BY <1>1, <2>1, ChargeExact
<1>3. charged' \in [Requests -> Amounts]
  BY <1>2 DEF Finalize, IInv, TypeOK
<1>4. usage' \in [Requests -> {NoUsage} \cup [cost : Amounts, state : ReceiptStates]]
  BY <1>1 DEF Finalize, IInv, TypeOK, ReceiptStates
<1>5. settled' \in [Requests -> Amounts]
  BY <1>1 DEF Finalize, IInv, TypeOK
<1> QED
  BY <1>3, <1>4, <1>5 DEF Finalize, IInv, TypeOK, DbTypes

LEMMA LeaveTypes ==
    ASSUME TypeOK, NEW Q \in SUBSET Requests, Leave(Q), UNCHANGED called
    PROVE  HandlerTypes'
<1>1. \A r \in Requests : BaseEntry(r) \in Entries
  BY DEF BaseEntry, Entries, EntryStates
<1> QED
  BY <1>1, TypeGroups DEF HandlerTypes, Leave

LEMMA GotoTypes ==
    ASSUME TypeOK, NEW r \in Requests, NEW l \in {"new", "checked", "gone"} \cup Active,
           Goto(r, l), UNCHANGED <<entry, called>>
    PROVE  HandlerTypes'
  BY TypeGroups DEF HandlerTypes, Goto

LEMMA UnlockTypes ==
    ASSUME TypeOK, NEW Q \in SUBSET Requests, Unlock(Q)
    PROVE  TxTypes'
  BY TypeGroups DEF TxTypes, Unlock

LEMMA EndTickTypes ==
    ASSUME TypeOK, NEW n \in Replicas, EndTick(n)
    PROVE  /\ worker' \in [Replicas -> {"idle", "claimed", "load", "query", "ack"}]
           /\ epoch' \in [Replicas -> Nat] /\ pending' \in [Replicas -> BOOLEAN]
  BY DEF TypeOK, EndTick, Step

LEMMA InflightUncharged ==
    ASSUME IInv, NEW r \in Requests, reserve[r] = "inflight"
    PROVE  usage[r] = NoUsage /\ charged[r] = 0
<1>1. journal[r] = "pending"
  BY DEF IInv, Rows
<1>2. usage[r] = NoUsage
  BY <1>1 DEF IInv, Ledger, OneReceipt
<1>3. charged[r] = usage[r].cost
  BY DEF IInv, Ledger, TotalsMatchLedger
<1> QED
  BY <1>2, <1>3 DEF NoUsage

LEMMA LockTypes ==
    ASSUME TypeOK, NEW Q \in SUBSET Requests, NEW o \in {"handler"} \cup Replicas, Lock(Q, o)
    PROVE  TxTypes'
<1>1. \A r \in Requests : Visible(r) \in {"none", "reserved", "settled"}
  BY TypeGroups DEF Visible, DbTypes
<1> QED
  BY <1>1, TypeGroups DEF TxTypes, Lock

(* Every step preserves the type invariant. *)
LEMMA TypePreserved == ASSUME IInv, [Next]_vars PROVE TypeOK'
<1>1. ASSUME NEW p \in Requests, Paused(p) PROVE TypeOK'
  <2>1. HandlerTypes'
    BY <1>1, GotoTypes DEF IInv, Active, Paused
  <2> QED
    BY <1>1, <2>1, TypeGroupsNext, UnchangedTypes DEF IInv, Paused
<1>2. ASSUME NEW p \in Requests, CheckReady(p) PROVE TypeOK'
  <2>1. HandlerTypes'
    BY <1>2, GotoTypes DEF IInv, Active, CheckReady
  <2> QED
    BY <1>2, <2>1, TypeGroupsNext, UnchangedTypes DEF IInv, CheckReady
<1>3. ASSUME NEW p \in Requests, Begin(p) PROVE TypeOK'
  <2>1. HandlerTypes'
    BY <1>3, GotoTypes DEF IInv, Active, Begin
  <2>2. DbTypes'
    BY <1>3, TypeGroups DEF IInv, DbTypes, Begin
  <2> QED
    BY <1>3, <2>1, <2>2, TypeGroupsNext, UnchangedTypes DEF IInv, Begin
<1>4. ASSUME NEW p \in Requests, Conflict(p) PROVE TypeOK'
  <2>1. HandlerTypes'
    BY <1>4, GotoTypes DEF IInv, Active, Conflict
  <2> QED
    BY <1>4, <2>1, TypeGroupsNext, UnchangedTypes DEF IInv, Conflict
<1>5. ASSUME NEW p \in Requests, BeginFails(p) PROVE TypeOK'
  <2>1. HandlerTypes'
    BY <1>5, GotoTypes DEF IInv, Active, BeginFails
  <2>2. DbTypes'
    BY <1>5, TypeGroups DEF IInv, DbTypes, BeginFails
  <2>3. BoundTypes'
    BY <1>5, TypeGroups DEF IInv, BoundTypes, Fault, BeginFails
  <2> QED
    BY <1>5, <2>1, <2>2, <2>3, TypeGroupsNext, UnchangedTypes DEF IInv, BeginFails
<1>6. ASSUME NEW p \in Requests, Decline(p) PROVE TypeOK'
  <2>1. \A s \in {"", "not_billable"} : [cost |-> 0, state |-> s] \in Entries
    BY DEF Entries, EntryStates
  <2>2. PICK e \in Entries : entry' = [entry EXCEPT ![p] = e]
    BY <1>6, <2>1 DEF Decline
  <2>3. Goto(p, "record") /\ UNCHANGED called
    BY <1>6 DEF Decline
  <2>4. HandlerTypes'
    BY <2>2, <2>3, TypeGroups DEF IInv, HandlerTypes, Active, Goto
  <2> QED
    BY <1>6, <2>4, TypeGroupsNext, UnchangedTypes DEF IInv, Decline
<1>7. ASSUME NEW p \in Requests, Abandon(p) PROVE TypeOK'
  <2>1. HandlerTypes'
    BY <1>7, GotoTypes DEF IInv, Active, Abandon
  <2> QED
    BY <1>7, <2>1, TypeGroupsNext, UnchangedTypes DEF IInv, Abandon
<1>8. ASSUME NEW p \in Requests, Unbudgeted(p) PROVE TypeOK'
  <2>1. HandlerTypes'
    BY <1>8, GotoTypes DEF IInv, Active, Unbudgeted
  <2> QED
    BY <1>8, <2>1, TypeGroupsNext, UnchangedTypes DEF IInv, Unbudgeted
<1>9. ASSUME NEW p \in Requests, Reserve(p) PROVE TypeOK'
  <2>1. HandlerTypes'
    BY <1>9, GotoTypes DEF IInv, Active, Reserve
  <2>2. DbTypes'
    BY <1>9, TypeGroups DEF IInv, DbTypes, Reserve
  <2> QED
    BY <1>9, <2>1, <2>2, TypeGroupsNext, UnchangedTypes DEF IInv, Reserve
<1>10. ASSUME NEW p \in Requests, Admitted(p) PROVE TypeOK'
  <2>1. HandlerTypes'
    BY <1>10, GotoTypes DEF IInv, Active, Admitted
  <2> QED
    BY <1>10, <2>1, TypeGroupsNext, UnchangedTypes DEF IInv, Admitted
<1>11. ASSUME NEW p \in Requests, AdmitFails(p) PROVE TypeOK'
  <2>1. HandlerTypes'
    BY <1>11, GotoTypes DEF IInv, Active, AdmitFails
  <2>3. BoundTypes'
    BY <1>11, TypeGroups DEF IInv, BoundTypes, Fault, AdmitFails
  <2> QED
    BY <1>11, <2>1, <2>3, TypeGroupsNext, UnchangedTypes DEF IInv, AdmitFails
<1>12. ASSUME NEW p \in Requests, MarkStarted(p) PROVE TypeOK'
  <2>1. HandlerTypes'
    BY <1>12, GotoTypes DEF IInv, Active, MarkStarted
  <2>2. DbTypes'
    BY <1>12, TypeGroups DEF IInv, DbTypes, MarkStarted
  <2> QED
    BY <1>12, <2>1, <2>2, TypeGroupsNext, UnchangedTypes DEF IInv, MarkStarted
<1>13. ASSUME NEW p \in Requests, MarkRefused(p) PROVE TypeOK'
  <2>1. HandlerTypes'
    BY <1>13, GotoTypes DEF IInv, Active, MarkRefused
  <2> QED
    BY <1>13, <2>1, TypeGroupsNext, UnchangedTypes DEF IInv, MarkRefused
<1>14. ASSUME NEW p \in Requests, MarkFails(p) PROVE TypeOK'
  <2>1. HandlerTypes'
    BY <1>14, GotoTypes DEF IInv, Active, MarkFails
  <2>2. DbTypes'
    BY <1>14, TypeGroups DEF IInv, DbTypes, MarkFails
  <2>3. BoundTypes'
    BY <1>14, TypeGroups DEF IInv, BoundTypes, Fault, MarkFails
  <2> QED
    BY <1>14, <2>1, <2>2, <2>3, TypeGroupsNext, UnchangedTypes DEF IInv, MarkFails
<1>15. ASSUME NEW p \in Requests, NoDeployment(p) PROVE TypeOK'
  <2>1. HandlerTypes'
    BY <1>15, GotoTypes DEF IInv, Active, NoDeployment
  <2> QED
    BY <1>15, <2>1, TypeGroupsNext, UnchangedTypes DEF IInv, NoDeployment
<1>16. ASSUME NEW p \in Requests, Call(p) PROVE TypeOK'
  <2>1. HandlerTypes'
    BY <1>16, TypeGroups DEF IInv, HandlerTypes, Call
  <2> QED
    BY <1>16, <2>1, TypeGroupsNext, UnchangedTypes DEF IInv, Call
<1>17. ASSUME NEW p \in Requests, Answered(p) PROVE TypeOK'
  <2>1. Outcome(p) \subseteq Entries
    <3>1. BaseEntry(p) \in Entries /\ [cost |-> 0, state |-> "unpriced"] \in Entries
      BY DEF BaseEntry, Entries, EntryStates
    <3>2. \A c \in Costs : [cost |-> c, state |-> "priced"] \in Entries
      BY DEF Entries, EntryStates
    <3> QED
      BY <3>1, <3>2 DEF Outcome
  <2>2. PICK e \in Entries : entry' = [entry EXCEPT ![p] = e]
    BY <1>17, <2>1 DEF Answered
  <2>3. Goto(p, "record") /\ UNCHANGED called
    BY <1>17 DEF Answered
  <2>4. HandlerTypes'
    BY <2>2, <2>3, TypeGroups DEF IInv, HandlerTypes, Active, Goto
  <2> QED
    BY <1>17, <2>4, TypeGroupsNext, UnchangedTypes DEF IInv, Answered
<1>18. ASSUME NEW p \in Requests, OpenFinalize(p) PROVE TypeOK'
  <2>1. TxTypes'
    BY <1>18, LockTypes DEF IInv, OpenFinalize
  <2> QED
    BY <1>18, <2>1, TypeGroupsNext, UnchangedTypes DEF IInv, OpenFinalize
<1>19. ASSUME NEW p \in Requests, CommitFinalize(p) PROVE TypeOK'
  <2>1. DbTypes'
    BY <1>19, FinalizeTypes DEF CommitFinalize
  <2>2. TxTypes'
    BY <1>19, UnlockTypes DEF IInv, CommitFinalize
  <2>3. HandlerTypes'
    BY <1>19, LeaveTypes DEF IInv, CommitFinalize
  <2> QED
    BY <1>19, <2>1, <2>2, <2>3, TypeGroupsNext, UnchangedTypes DEF IInv, CommitFinalize
<1>20. ASSUME NEW p \in Requests, AlreadyFinal(p) PROVE TypeOK'
  <2>1. HandlerTypes'
    BY <1>20, LeaveTypes DEF IInv, AlreadyFinal
  <2> QED
    BY <1>20, <2>1, TypeGroupsNext, UnchangedTypes DEF IInv, AlreadyFinal
<1>21. ASSUME NEW p \in Requests, RecordFails(p) PROVE TypeOK'
  <2>1. DbTypes'
    <3>1. CASE UNCHANGED db
      BY <3>1, UnchangedTypes DEF IInv
    <3>2. CASE owner[p] = "handler" /\ Finalize({p}, "handler")
      BY <3>2, FinalizeTypes
    <3> QED
      BY <1>21, <3>1, <3>2 DEF RecordFails
  <2>2. TxTypes'
    BY <1>21, UnlockTypes, UnchangedTypes DEF IInv, RecordFails
  <2>3. HandlerTypes'
    BY <1>21, LeaveTypes, GotoTypes DEF IInv, Active, RecordFails
  <2>4. LoggerTypes'
    BY <1>21, TypeGroups, AccountingAssumption DEF IInv, LoggerTypes, RecordFails
  <2>5. BoundTypes'
    <3>1. failures[Home[p]] \in Nat
      BY TypeGroups, AccountingAssumption DEF IInv, LoggerTypes
    <3> QED
      BY <1>21, <3>1, TypeGroups DEF IInv, BoundTypes, Fault, RecordFails
  <2> QED
    BY <1>21, <2>1, <2>2, <2>3, <2>4, <2>5, TypeGroupsNext, UnchangedTypes DEF IInv,
       RecordFails
<1>22. ASSUME NEW p \in Requests, Resend(p) PROVE TypeOK'
  <2>1. HandlerTypes'
    BY <1>22, GotoTypes DEF IInv, Active, Resend
  <2> QED
    BY <1>22, <2>1, TypeGroupsNext, UnchangedTypes DEF IInv, Resend
<1>23. ASSUME NEW p \in Requests, Deadline(p) PROVE TypeOK'
  <2>1. ClockTypes'
    BY <1>23, TypeGroups DEF IInv, ClockTypes, Deadline
  <2> QED
    BY <1>23, <2>1, TypeGroupsNext, UnchangedTypes DEF IInv, Deadline
<1>24. ASSUME NEW p \in Requests, Expire(p) PROVE TypeOK'
  <2>1. ClockTypes'
    BY <1>24, TypeGroups DEF IInv, ClockTypes, Expire
  <2> QED
    BY <1>24, <2>1, TypeGroupsNext, UnchangedTypes DEF IInv, Expire
<1>25. ASSUME NEW p \in Requests, ReserveCommits(p) PROVE TypeOK'
  <2>1. usage[p] = NoUsage /\ charged[p] = 0
    BY <1>25, InflightUncharged DEF ReserveCommits
  <2>2. ReservationCharge(p) = Estimate
    BY <2>1, AccountingAssumption DEF ReservationCharge, NoUsage
  <2>3. DbTypes'
    BY <1>25, <2>2, TypeGroups DEF IInv, DbTypes, Amounts, ReserveCommits
  <2> QED
    BY <1>25, <2>3, TypeGroupsNext, UnchangedTypes DEF IInv, ReserveCommits
<1>26. ASSUME NEW p \in Requests, ReserveRollsBack(p) PROVE TypeOK'
  <2>2. DbTypes'
    BY <1>26, TypeGroups DEF IInv, DbTypes, ReserveRollsBack
  <2> QED
    BY <1>26, <2>2, TypeGroupsNext, UnchangedTypes DEF IInv, ReserveRollsBack
<1>27. ASSUME NEW p \in Replicas, ReconcileClaim(p) PROVE TypeOK'
  <2>1. PICK Q \in SUBSET Requests : Lock(Q, p)
    BY <1>27 DEF ReconcileClaim, Claimable
  <2>2. TxTypes'
    BY <2>1, LockTypes DEF IInv
  <2>3. LoggerTypes'
    BY <1>27, TypeGroups DEF IInv, LoggerTypes, Step, ReconcileClaim
  <2> QED
    BY <1>27, <2>2, <2>3, TypeGroupsNext, UnchangedTypes DEF IInv, ReconcileClaim
<1>28. ASSUME NEW p \in Replicas, ReconcileCommit(p) PROVE TypeOK'
  <2>1. Batch(p) \in SUBSET Requests /\ \A r \in Batch(p) : owner[r] # "nobody"
    BY AccountingAssumption DEF Batch
  <2>2. DbTypes'
    BY <1>28, <2>1, FinalizeTypes DEF ReconcileCommit
  <2>3. TxTypes'
    BY <1>28, <2>1, UnlockTypes DEF IInv, ReconcileCommit
  <2>4. LoggerTypes'
    BY <1>28, TypeGroups DEF IInv, LoggerTypes, Step, ReconcileCommit
  <2> QED
    BY <1>28, <2>2, <2>3, <2>4, TypeGroupsNext, UnchangedTypes DEF IInv, ReconcileCommit
<1>29. ASSUME NEW p \in Replicas, LoadEpoch(p) PROVE TypeOK'
  <2>1. LoggerTypes'
    <3>1. CASE Ready(p)
      BY <1>29, <3>1, TypeGroups DEF IInv, LoggerTypes, LoadEpoch, Step
    <3>2. CASE ~Ready(p)
      BY <1>29, <3>2, TypeGroups DEF IInv, LoggerTypes, LoadEpoch, Step
    <3> QED
      BY <3>1, <3>2
  <2> QED
    BY <1>29, <2>1, TypeGroupsNext, UnchangedTypes DEF IInv, LoadEpoch
<1>30. ASSUME NEW p \in Replicas, Checkpoint(p) PROVE TypeOK'
  <2>1. LoggerTypes'
    BY <1>30, TypeGroups DEF IInv, LoggerTypes, Step, Checkpoint
  <2> QED
    BY <1>30, <2>1, TypeGroupsNext, UnchangedTypes DEF IInv, Checkpoint
<1>31. ASSUME NEW p \in Replicas, Acknowledge(p) PROVE TypeOK'
  <2>1. LoggerTypes'
    BY <1>31, TypeGroups DEF IInv, LoggerTypes, Step, EndTick, Acknowledge
  <2> QED
    BY <1>31, <2>1, TypeGroupsNext, UnchangedTypes DEF IInv, Acknowledge
<1>32. ASSUME NEW p \in Replicas, ReconcileFails(p) PROVE TypeOK'
  <2>1. Batch(p) \in SUBSET Requests /\ \A r \in Batch(p) : owner[r] # "nobody"
    BY AccountingAssumption DEF Batch
  <2>2. DbTypes'
    BY <1>32, <2>1, FinalizeTypes, UnchangedTypes DEF IInv, ReconcileFails
  <2>3. TxTypes'
    BY <1>32, <2>1, UnlockTypes DEF IInv, ReconcileFails
  <2>4. LoggerTypes'
    BY <1>32, TypeGroups DEF IInv, LoggerTypes, Step, EndTick, ReconcileFails
  <2>5. BoundTypes'
    BY <1>32, TypeGroups DEF IInv, BoundTypes, Fault, ReconcileFails
  <2> QED
    BY <1>32, <2>2, <2>3, <2>4, <2>5, TypeGroupsNext, UnchangedTypes DEF IInv,
       ReconcileFails
<1>33. ASSUME NEW p \in Replicas, Crash(p) PROVE TypeOK'
  <2> DEFINE mine == {r \in Requests : Home[r] = p}
  <2>1. HandlerTypes'
    <3>1. Leave(mine) /\ UNCHANGED called /\ mine \in SUBSET Requests
      BY <1>33 DEF Crash
    <3> QED
      BY <3>1, LeaveTypes DEF IInv
  <2>2. TxTypes'
    <3>1. PICK Q \in SUBSET Requests : Unlock(Q)
      BY <1>33 DEF Crash, Batch
    <3> QED
      BY <3>1, UnlockTypes DEF IInv
  <2>3. LoggerTypes'
    BY <1>33, TypeGroups DEF IInv, LoggerTypes, Step, EndTick, Crash
  <2>4. BoundTypes'
    BY <1>33, TypeGroups DEF IInv, BoundTypes, Crash
  <2> QED
    BY <1>33, <2>1, <2>2, <2>3, <2>4, TypeGroupsNext, UnchangedTypes DEF IInv, Crash
<1>34. CASE UNCHANGED vars
  BY <1>34, TypeGroupsNext, UnchangedTypes DEF IInv, vars
<1> QED
  BY <1>1, <1>2, <1>3, <1>4, <1>5, <1>6, <1>7, <1>8, <1>9, <1>10, <1>11,
     <1>12, <1>13, <1>14, <1>15, <1>16, <1>17, <1>18, <1>19, <1>20, <1>21,
     <1>22, <1>23, <1>24, <1>25, <1>26, <1>27, <1>28, <1>29, <1>30, <1>31,
     <1>32, <1>33, <1>34 DEF Next, Handle, Environment, Recover
=============================================================================
