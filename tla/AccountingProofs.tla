------------------------- MODULE AccountingProofs ---------------------------
(***************************************************************************)
(* Theorems about Accounting for every number of requests and replicas,    *)
(* every estimate and price, and any number of faults and crashes.         *)
(***************************************************************************)
EXTENDS AccountingRows

(***************************************************************************)
(* The receipt of started work: never free, and with an open reservation   *)
(* either priced or the whole estimate.                                    *)
(***************************************************************************)
LEMMA StartedReceipt ==
    ASSUME IInv, NEW r \in Requests \ Reads, NEW o, upstream[r], owner[r] # "nobody"
    PROVE  /\ Receipt(r, o).state # "not_billable"
           /\ saw[r] = "reserved" =>
                \/ Receipt(r, o).state = "priced"
                \/ Receipt(r, o).state = "estimated" /\ Receipt(r, o).cost = Estimate
<1>1. entry[r].state \in {"unknown", "priced", "unpriced"}
  BY DEF IInv, EntriesFit
<1>2. ClassifyAccounting(entry[r]).state \in {"unknown", "priced", "unpriced"}
  BY <1>1 DEF ClassifyAccounting
<1>3. BaseEntry(r).state = "unknown"
  BY DEF BaseEntry
<1>4. Evidence(r, o).state \in {"unknown", "priced", "unpriced"}
  BY <1>2, <1>3 DEF Evidence
<1>5. saw[r] = "none" \/ saw[r] = "reserved"
  BY DEF IInv, Rows
<1>6. CASE saw[r] = "none"
  BY <1>4, <1>6 DEF Receipt
<1>7. CASE saw[r] = "reserved"
  BY <1>4, <1>7 DEF Receipt
<1> QED
  BY <1>5, <1>6, <1>7

LEMMA LedgerAfterFinalize ==
    ASSUME IInv, NEW Q \in SUBSET Requests, NEW o, Finalize(Q, o), UNCHANGED called,
           \A r \in Q : owner[r] # "nobody"
    PROVE  Ledger'
<1> SUFFICES ASSUME NEW r \in Requests
             PROVE  OneReceipt!(r)' /\ TotalsMatchLedger!(r)' /\ (r \notin Reads => StartedWorkIsCharged!(r)')
  BY DEF Ledger, OneReceipt, TotalsMatchLedger, StartedWorkIsCharged
<1>1. CASE r \notin Q
  <2>1. /\ journal'[r] = journal[r] /\ reserve'[r] = reserve[r] /\ upstream'[r] = upstream[r]
        /\ usage'[r] = usage[r] /\ settled'[r] = settled[r] /\ charged'[r] = charged[r]
        /\ called'[r] = called[r]
    BY <1>1 DEF Finalize
  <2> QED
    BY <2>1 DEF IInv, Ledger, OneReceipt, TotalsMatchLedger, StartedWorkIsCharged
<1>2. CASE r \in Q
  <2>1. /\ journal'[r] = "complete" /\ usage'[r] = Receipt(r, o) /\ reserve[r] # "inflight"
        /\ reserve'[r] = IF saw[r] = "reserved" THEN "settled" ELSE reserve[r]
        /\ settled'[r] = IF saw[r] = "reserved" THEN Receipt(r, o).cost ELSE settled[r]
        /\ charged'[r] = ChargeAfter(r, Receipt(r, o))
        /\ upstream'[r] = upstream[r] /\ called'[r] = called[r]
    BY <1>2 DEF Finalize
  <2>2. /\ owner[r] # "nobody" /\ journal[r] = "pending" /\ reserve[r] # "settled"
        /\ reserve[r] \in {"none", "reserved"} /\ saw[r] \in {"none", "reserved"}
        /\ saw[r] = "reserved" => reserve[r] = "reserved"
    BY <1>2, <2>1 DEF IInv, TypeOK, Rows, Ledger, OneReceipt
  <2>3. Receipt(r, o) # NoUsage
    BY ReceiptType DEF NoUsage, ReceiptStates
  <2>4. OneReceipt!(r)'
    BY <2>1, <2>2, <2>3 DEF OneReceipt
  <2>5. reserve[r] = "reserved" => charged[r] = Estimate
    BY DEF IInv, Ledger, TotalsMatchLedger
  <2>6. charged'[r] = IF saw[r] = "none" /\ reserve[r] # "none" THEN charged[r] ELSE Receipt(r, o).cost
    BY <2>1, <2>2, ChargeExact
  <2>7. TotalsMatchLedger!(r)'
    BY <2>1, <2>2, <2>5, <2>6 DEF TotalsMatchLedger
  <2>8. ASSUME r \notin Reads, called[r] \/ upstream[r] PROVE StartedWorkIsCharged!(r)'
    <3>1. upstream[r]
      BY <2>8 DEF IInv, Rows
    <3>2. saw[r] = "none" => reserve[r] = "none"
      BY <2>2, <3>1 DEF IInv, Rows
    <3> QED
      BY <2>1, <2>2, <2>8, <3>1, <3>2, StartedReceipt DEF StartedWorkIsCharged
  <2>9. r \notin Reads => StartedWorkIsCharged!(r)'
    BY <2>1, <2>8 DEF StartedWorkIsCharged
  <2> QED
    BY <2>4, <2>7, <2>9
<1> QED
  BY <1>1, <1>2

(* Every step preserves the ledger. *)
LEMMA LedgerPreserved == ASSUME IInv, [Next]_vars PROVE Ledger'
<1>1. ASSUME NEW p \in Requests, Paused(p) PROVE Ledger'
  BY <1>1 DEF IInv, TypeOK, Ledger, OneReceipt, TotalsMatchLedger, StartedWorkIsCharged,
     db, txs, handler, logger, Paused, Goto, Ready
<1>2. ASSUME NEW p \in Requests, CheckReady(p) PROVE Ledger'
  BY <1>2 DEF IInv, TypeOK, Ledger, OneReceipt, TotalsMatchLedger, StartedWorkIsCharged,
     db, txs, handler, logger, CheckReady, Goto, Ready
<1>3. ASSUME NEW p \in Requests, Begin(p) PROVE Ledger'
  BY <1>3 DEF IInv, TypeOK, Ledger, OneReceipt, TotalsMatchLedger, StartedWorkIsCharged,
     db, txs, handler, logger, Begin, Goto
<1>4. ASSUME NEW p \in Requests, Conflict(p) PROVE Ledger'
  BY <1>4 DEF IInv, TypeOK, Ledger, OneReceipt, TotalsMatchLedger, StartedWorkIsCharged,
     db, txs, handler, logger, Conflict, Goto
<1>5. ASSUME NEW p \in Requests, BeginFails(p) PROVE Ledger'
  BY <1>5 DEF IInv, TypeOK, Ledger, OneReceipt, TotalsMatchLedger, StartedWorkIsCharged,
     db, txs, handler, logger, BeginFails, Goto, Fault
<1>6. ASSUME NEW p \in Requests, Decline(p) PROVE Ledger'
  BY <1>6 DEF IInv, TypeOK, Ledger, OneReceipt, TotalsMatchLedger, StartedWorkIsCharged,
     db, txs, handler, logger, Decline, Goto
<1>7. ASSUME NEW p \in Requests, Abandon(p) PROVE Ledger'
  BY <1>7 DEF IInv, TypeOK, Ledger, OneReceipt, TotalsMatchLedger, StartedWorkIsCharged,
     db, txs, handler, logger, Abandon, Goto
<1>8. ASSUME NEW p \in Requests, Unbudgeted(p) PROVE Ledger'
  BY <1>8 DEF IInv, TypeOK, Ledger, OneReceipt, TotalsMatchLedger, StartedWorkIsCharged,
     db, txs, handler, logger, Unbudgeted, Goto
<1>9. ASSUME NEW p \in Requests, Reserve(p) PROVE Ledger'
  <2>1. UNCHANGED <<journal, upstream, settled, usage, charged, called>>
    BY <1>9 DEF Reserve
  <2>2. /\ reserve[p] = "none" /\ ~upstream[p] /\ ~called[p]
       /\ reserve' = [reserve EXCEPT ![p] = "inflight"]
    BY <1>9 DEF Reserve, IInv, Rows
  <2>3. OneReceipt'
    BY <2>1, <2>2 DEF IInv, TypeOK, Ledger, OneReceipt
  <2>4. TotalsMatchLedger'
    BY <2>1, <2>2 DEF IInv, TypeOK, Ledger, TotalsMatchLedger
  <2>5. StartedWorkIsCharged'
    BY <2>1, <2>2 DEF IInv, TypeOK, Ledger, StartedWorkIsCharged
  <2> QED
    BY <2>3, <2>4, <2>5 DEF Ledger
<1>10. ASSUME NEW p \in Requests, Admitted(p) PROVE Ledger'
  BY <1>10 DEF IInv, TypeOK, Ledger, OneReceipt, TotalsMatchLedger, StartedWorkIsCharged,
     db, txs, handler, logger, Admitted, Goto
<1>11. ASSUME NEW p \in Requests, AdmitFails(p) PROVE Ledger'
  BY <1>11 DEF IInv, TypeOK, Ledger, OneReceipt, TotalsMatchLedger, StartedWorkIsCharged,
     db, txs, handler, logger, AdmitFails, Goto, Fault
<1>12. ASSUME NEW p \in Requests, MarkStarted(p) PROVE Ledger'
  BY <1>12 DEF IInv, TypeOK, Ledger, OneReceipt, TotalsMatchLedger, StartedWorkIsCharged,
     db, txs, handler, logger, MarkStarted, Goto
<1>13. ASSUME NEW p \in Requests, MarkRefused(p) PROVE Ledger'
  BY <1>13 DEF IInv, TypeOK, Ledger, OneReceipt, TotalsMatchLedger, StartedWorkIsCharged,
     db, txs, handler, logger, MarkRefused, Goto
<1>14. ASSUME NEW p \in Requests, MarkFails(p) PROVE Ledger'
  BY <1>14 DEF IInv, TypeOK, Ledger, OneReceipt, TotalsMatchLedger, StartedWorkIsCharged,
     db, txs, handler, logger, MarkFails, Goto, Fault
<1>15. ASSUME NEW p \in Requests, NoDeployment(p) PROVE Ledger'
  BY <1>15 DEF IInv, TypeOK, Ledger, OneReceipt, TotalsMatchLedger, StartedWorkIsCharged,
     db, txs, handler, logger, NoDeployment, Goto
<1>16. ASSUME NEW p \in Requests, Call(p) PROVE Ledger'
  <2>1. upstream[p]
    BY <1>16 DEF Call, IInv, Rows
  <2> QED
    BY <1>16, <2>1 DEF IInv, TypeOK, Ledger, OneReceipt, TotalsMatchLedger,
       StartedWorkIsCharged, db, txs, handler, logger, Call
<1>17. ASSUME NEW p \in Requests, Answered(p) PROVE Ledger'
  BY <1>17 DEF IInv, TypeOK, Ledger, OneReceipt, TotalsMatchLedger, StartedWorkIsCharged,
     db, txs, handler, logger, Answered, Goto, Outcome
<1>18. ASSUME NEW p \in Requests, OpenFinalize(p) PROVE Ledger'
  BY <1>18 DEF IInv, TypeOK, Ledger, OneReceipt, TotalsMatchLedger, StartedWorkIsCharged,
     db, txs, handler, logger, OpenFinalize, Lock, Visible
<1>19. ASSUME NEW p \in Requests, CommitFinalize(p) PROVE Ledger'
  <2>1. Finalize({p}, "handler") /\ owner[p] # "nobody" /\ UNCHANGED called
    BY <1>19 DEF CommitFinalize
  <2> QED
    BY <2>1, LedgerAfterFinalize
<1>20. ASSUME NEW p \in Requests, AlreadyFinal(p) PROVE Ledger'
  BY <1>20 DEF IInv, TypeOK, Ledger, OneReceipt, TotalsMatchLedger, StartedWorkIsCharged,
     db, txs, handler, logger, AlreadyFinal, Leave
<1>21. ASSUME NEW p \in Requests, RecordFails(p) PROVE Ledger'
  <2>1. CASE UNCHANGED db
    <3>1. UNCHANGED <<db, called>>
      BY <1>21, <2>1 DEF RecordFails
    <3> QED
      BY <3>1 DEF IInv, TypeOK, Ledger, OneReceipt, TotalsMatchLedger,
         StartedWorkIsCharged, db, txs, handler, logger
  <2>2. CASE owner[p] = "handler" /\ Finalize({p}, "handler")
    <3>1. UNCHANGED called
      BY <1>21 DEF RecordFails
    <3> QED
      BY <2>2, <3>1, LedgerAfterFinalize
  <2> QED
    BY <1>21, <2>1, <2>2 DEF RecordFails
<1>22. ASSUME NEW p \in Requests, Resend(p) PROVE Ledger'
  BY <1>22 DEF IInv, TypeOK, Ledger, OneReceipt, TotalsMatchLedger, StartedWorkIsCharged,
     db, txs, handler, logger, Resend, Goto
<1>23. ASSUME NEW p \in Requests, Deadline(p) PROVE Ledger'
  BY <1>23 DEF IInv, TypeOK, Ledger, OneReceipt, TotalsMatchLedger, StartedWorkIsCharged,
     db, txs, handler, logger, Deadline
<1>24. ASSUME NEW p \in Requests, Expire(p) PROVE Ledger'
  BY <1>24 DEF IInv, TypeOK, Ledger, OneReceipt, TotalsMatchLedger, StartedWorkIsCharged,
     db, txs, handler, logger, Expire
<1>25. ASSUME NEW p \in Requests, ReserveCommits(p) PROVE Ledger'
  <2>1. usage[p] = NoUsage /\ charged[p] = 0 /\ journal[p] = "pending"
    BY <1>25, InflightUncharged DEF ReserveCommits, IInv, Rows
  <2>2. ReservationCharge(p) = Estimate
    BY <2>1, AccountingAssumption DEF ReservationCharge, NoUsage
  <2>3. /\ UNCHANGED <<journal, upstream, settled, usage, called>>
       /\ reserve' = [reserve EXCEPT ![p] = "reserved"] /\ charged' = [charged EXCEPT ![p] = Estimate]
    BY <1>25, <2>2 DEF ReserveCommits, handler
  <2>4. OneReceipt'
    BY <2>1, <2>3 DEF IInv, TypeOK, Ledger, OneReceipt
  <2>5. TotalsMatchLedger'
    BY <2>1, <2>3 DEF IInv, TypeOK, Ledger, TotalsMatchLedger
  <2>6. StartedWorkIsCharged'
    BY <2>1, <2>3 DEF IInv, TypeOK, Ledger, StartedWorkIsCharged
  <2> QED
    BY <2>4, <2>5, <2>6 DEF Ledger
<1>26. ASSUME NEW p \in Requests, ReserveRollsBack(p) PROVE Ledger'
  BY <1>26 DEF IInv, TypeOK, Ledger, OneReceipt, TotalsMatchLedger, StartedWorkIsCharged,
     db, txs, handler, logger, ReserveRollsBack
<1>27. ASSUME NEW p \in Replicas, ReconcileClaim(p) PROVE Ledger'
  BY <1>27 DEF IInv, TypeOK, Ledger, OneReceipt, TotalsMatchLedger, StartedWorkIsCharged,
     db, txs, handler, logger, ReconcileClaim, Lock, Visible, Claimable, Step
<1>28. ASSUME NEW p \in Replicas, ReconcileCommit(p) PROVE Ledger'
  <2>1. /\ Finalize(Batch(p), p) /\ UNCHANGED called
       /\ Batch(p) \in SUBSET Requests /\ \A r \in Batch(p) : owner[r] # "nobody"
    BY <1>28, AccountingAssumption DEF ReconcileCommit, handler, Batch
  <2> QED
    BY <2>1, LedgerAfterFinalize
<1>29. ASSUME NEW p \in Replicas, LoadEpoch(p) PROVE Ledger'
  BY <1>29 DEF IInv, TypeOK, Ledger, OneReceipt, TotalsMatchLedger, StartedWorkIsCharged,
     db, txs, handler, logger, LoadEpoch, Step, Ready
<1>30. ASSUME NEW p \in Replicas, Checkpoint(p) PROVE Ledger'
  BY <1>30 DEF IInv, TypeOK, Ledger, OneReceipt, TotalsMatchLedger, StartedWorkIsCharged,
     db, txs, handler, logger, Checkpoint, Step
<1>31. ASSUME NEW p \in Replicas, Acknowledge(p) PROVE Ledger'
  BY <1>31 DEF IInv, TypeOK, Ledger, OneReceipt, TotalsMatchLedger, StartedWorkIsCharged,
     db, txs, handler, logger, Acknowledge, EndTick, Step
<1>32. ASSUME NEW p \in Replicas, ReconcileFails(p) PROVE Ledger'
  <2>1. /\ UNCHANGED called
       /\ Batch(p) \in SUBSET Requests /\ \A r \in Batch(p) : owner[r] # "nobody"
    BY <1>32, AccountingAssumption DEF ReconcileFails, handler, Batch
  <2>2. CASE UNCHANGED db
    BY <2>1, <2>2 DEF IInv, TypeOK, Ledger, OneReceipt, TotalsMatchLedger,
       StartedWorkIsCharged, db, txs, handler, logger
  <2>3. CASE Finalize(Batch(p), p)
    BY <2>1, <2>3, LedgerAfterFinalize
  <2> QED
    BY <1>32, <2>2, <2>3 DEF ReconcileFails
<1>33. ASSUME NEW p \in Replicas, Crash(p) PROVE Ledger'
  BY <1>33 DEF IInv, TypeOK, Ledger, OneReceipt, TotalsMatchLedger, StartedWorkIsCharged,
     db, txs, handler, logger, Crash, Unlock, Batch, Leave, EndTick, Step
<1>34. CASE UNCHANGED vars
  BY <1>34 DEF IInv, TypeOK, Ledger, OneReceipt, TotalsMatchLedger, StartedWorkIsCharged,
     db, txs, handler, logger, vars
<1> QED
  BY <1>1, <1>2, <1>3, <1>4, <1>5, <1>6, <1>7, <1>8, <1>9, <1>10, <1>11,
     <1>12, <1>13, <1>14, <1>15, <1>16, <1>17, <1>18, <1>19, <1>20, <1>21,
     <1>22, <1>23, <1>24, <1>25, <1>26, <1>27, <1>28, <1>29, <1>30, <1>31,
     <1>32, <1>33, <1>34 DEF Next, Handle, Environment, Recover

(***************************************************************************)
(* The types of the variables that Epochs is about.                        *)
(***************************************************************************)
HealthTypes ==
    /\ journal \in [Requests -> {"none", "pending", "complete"}]
    /\ failEpoch \in [Requests -> Nat] /\ Home \in [Requests -> Replicas]
    /\ failures \in [Replicas -> Nat] /\ healthy \in [Replicas -> Nat]
    /\ observed \in [Replicas -> Nat] /\ epoch \in [Replicas -> Nat]
    /\ cutoff \in [Replicas -> (SUBSET Requests) \cup {NoCutoff}]
    /\ worker \in [Replicas -> {"idle", "claimed", "load", "query", "ack"}]
    /\ pending \in [Replicas -> BOOLEAN]

LEMMA HealthFacts == IInv => HealthTypes /\ Epochs
  BY AccountingAssumption DEF IInv, TypeOK, HealthTypes

(* Every step preserves the health epochs. *)
LEMMA EpochsPreserved == ASSUME IInv, [Next]_vars PROVE Epochs'
<1>0. HealthTypes /\ Epochs
  BY HealthFacts
<1>1. ASSUME NEW p \in Requests, Paused(p) PROVE Epochs'
  BY <1>1, <1>0 DEF HealthTypes, Epochs, db, logger, Paused, Goto, Ready
<1>2. ASSUME NEW p \in Requests, CheckReady(p) PROVE Epochs'
  BY <1>2, <1>0 DEF HealthTypes, Epochs, db, logger, CheckReady, Goto, Ready
<1>3. ASSUME NEW p \in Requests, Begin(p) PROVE Epochs'
  BY <1>3, <1>0 DEF HealthTypes, Epochs, db, logger, Begin, Goto
<1>4. ASSUME NEW p \in Requests, Conflict(p) PROVE Epochs'
  BY <1>4, <1>0 DEF HealthTypes, Epochs, db, logger, Conflict, Goto
<1>5. ASSUME NEW p \in Requests, BeginFails(p) PROVE Epochs'
  BY <1>5, <1>0 DEF HealthTypes, Epochs, db, logger, BeginFails, Goto, Fault
<1>6. ASSUME NEW p \in Requests, Decline(p) PROVE Epochs'
  BY <1>6, <1>0 DEF HealthTypes, Epochs, db, logger, Decline, Goto
<1>7. ASSUME NEW p \in Requests, Abandon(p) PROVE Epochs'
  BY <1>7, <1>0 DEF HealthTypes, Epochs, db, logger, Abandon, Goto
<1>8. ASSUME NEW p \in Requests, Unbudgeted(p) PROVE Epochs'
  BY <1>8, <1>0 DEF HealthTypes, Epochs, db, logger, Unbudgeted, Goto
<1>9. ASSUME NEW p \in Requests, Reserve(p) PROVE Epochs'
  BY <1>9, <1>0 DEF HealthTypes, Epochs, db, logger, Reserve, Goto
<1>10. ASSUME NEW p \in Requests, Admitted(p) PROVE Epochs'
  BY <1>10, <1>0 DEF HealthTypes, Epochs, db, logger, Admitted, Goto
<1>11. ASSUME NEW p \in Requests, AdmitFails(p) PROVE Epochs'
  BY <1>11, <1>0 DEF HealthTypes, Epochs, db, logger, AdmitFails, Goto, Fault
<1>12. ASSUME NEW p \in Requests, MarkStarted(p) PROVE Epochs'
  BY <1>12, <1>0 DEF HealthTypes, Epochs, db, logger, MarkStarted, Goto
<1>13. ASSUME NEW p \in Requests, MarkRefused(p) PROVE Epochs'
  BY <1>13, <1>0 DEF HealthTypes, Epochs, db, logger, MarkRefused, Goto
<1>14. ASSUME NEW p \in Requests, MarkFails(p) PROVE Epochs'
  BY <1>14, <1>0 DEF HealthTypes, Epochs, db, logger, MarkFails, Goto, Fault
<1>15. ASSUME NEW p \in Requests, NoDeployment(p) PROVE Epochs'
  BY <1>15, <1>0 DEF HealthTypes, Epochs, db, logger, NoDeployment, Goto
<1>16. ASSUME NEW p \in Requests, Call(p) PROVE Epochs'
  BY <1>16, <1>0 DEF HealthTypes, Epochs, db, logger, Call
<1>17. ASSUME NEW p \in Requests, Answered(p) PROVE Epochs'
  BY <1>17, <1>0 DEF HealthTypes, Epochs, db, logger, Answered, Goto, Outcome
<1>18. ASSUME NEW p \in Requests, OpenFinalize(p) PROVE Epochs'
  BY <1>18, <1>0 DEF HealthTypes, Epochs, db, logger, OpenFinalize, Lock, Visible
<1>19. ASSUME NEW p \in Requests, CommitFinalize(p) PROVE Epochs'
  <2>1. \A r \in Requests : journal'[r] = journal[r] \/ journal'[r] = "complete"
    BY <1>19, <1>0 DEF CommitFinalize, Finalize, db, HealthTypes
  <2>2. UNCHANGED <<logger, failEpoch>>
    BY <1>19 DEF CommitFinalize
  <2> QED
    BY <2>1, <2>2, <1>0 DEF HealthTypes, Epochs, logger
<1>20. ASSUME NEW p \in Requests, AlreadyFinal(p) PROVE Epochs'
  BY <1>20, <1>0 DEF HealthTypes, Epochs, db, logger, AlreadyFinal, Leave
<1>21. ASSUME NEW p \in Requests, RecordFails(p) PROVE Epochs'
  <2>1. \A r \in Requests : journal'[r] = journal[r] \/ journal'[r] = "complete"
    BY <1>21, <1>0 DEF RecordFails, Finalize, db, HealthTypes
  <2>2. UNCHANGED <<healthy, observed, cutoff, worker, epoch, pending>>
    BY <1>21 DEF RecordFails
  <2>3. /\ failures' = [failures EXCEPT ![Home[p]] = failures[Home[p]] + 1]
       /\ failEpoch' = [failEpoch EXCEPT ![p] = failures[Home[p]] + 1]
       /\ journal[p] # "none"
    BY <1>21 DEF RecordFails, IInv, Rows
  <2>4. ASSUME NEW n \in Replicas PROVE Epochs!1!(n)'
    BY <2>2, <2>3, <1>0 DEF HealthTypes, Epochs
  <2>5. ASSUME NEW r \in Requests PROVE Epochs!2!(r)'
    <3>1. Home[r] \in Replicas /\ Home[p] \in Replicas
      BY AccountingAssumption
    <3>2. CASE r = p
      <4>1. /\ failEpoch'[r] = failures[Home[r]] + 1 /\ failures'[Home[r]] = failures[Home[r]] + 1
            /\ failures[Home[r]] \in Nat
        BY <1>0, <2>3, <3>1, <3>2 DEF HealthTypes
      <4>2. /\ healthy[Home[r]] <= failures[Home[r]] /\ observed[Home[r]] <= failures[Home[r]]
            /\ worker[Home[r]] = "ack" => epoch[Home[r]] = observed[Home[r]]
        BY <3>1 DEF IInv, Epochs
      <4>3. healthy[Home[r]] \in Nat /\ observed[Home[r]] \in Nat /\ journal'[r] # "none"
        BY <1>0, <2>1, <2>3, <3>1, <3>2 DEF HealthTypes
      <4>4. /\ failEpoch'[r] <= failures'[Home[r]] /\ healthy[Home[r]] < failEpoch'[r]
            /\ ~(failEpoch'[r] <= observed[Home[r]])
        BY <4>1, <4>2, <4>3
      <4>5. worker[Home[r]] = "ack" => ~(failEpoch'[r] <= epoch[Home[r]])
        BY <4>2, <4>4
      <4> QED
        BY <2>2, <4>3, <4>4, <4>5
    <3>3. CASE r # p
      BY <1>0, <2>1, <2>2, <2>3, <3>1, <3>3 DEF HealthTypes, Epochs
    <3> QED
      BY <3>2, <3>3
  <2> QED
    BY <2>4, <2>5 DEF Epochs
<1>22. ASSUME NEW p \in Requests, Resend(p) PROVE Epochs'
  BY <1>22, <1>0 DEF HealthTypes, Epochs, db, logger, Resend, Goto
<1>23. ASSUME NEW p \in Requests, Deadline(p) PROVE Epochs'
  BY <1>23, <1>0 DEF HealthTypes, Epochs, db, logger, Deadline
<1>24. ASSUME NEW p \in Requests, Expire(p) PROVE Epochs'
  BY <1>24, <1>0 DEF HealthTypes, Epochs, db, logger, Expire
<1>25. ASSUME NEW p \in Requests, ReserveCommits(p) PROVE Epochs'
  BY <1>25, <1>0 DEF HealthTypes, Epochs, db, logger, ReserveCommits, ReservationCharge
<1>26. ASSUME NEW p \in Requests, ReserveRollsBack(p) PROVE Epochs'
  BY <1>26, <1>0 DEF HealthTypes, Epochs, db, logger, ReserveRollsBack
<1>27. ASSUME NEW p \in Replicas, ReconcileClaim(p) PROVE Epochs'
  BY <1>27, <1>0 DEF HealthTypes, Epochs, db, logger, ReconcileClaim, Lock, Visible,
     Claimable, Step
<1>28. ASSUME NEW p \in Replicas, ReconcileCommit(p) PROVE Epochs'
  <2>1. \A r \in Requests : journal'[r] = journal[r] \/ journal'[r] = "complete"
    BY <1>28, <1>0 DEF ReconcileCommit, Finalize, db, HealthTypes
  <2>2. UNCHANGED <<failures, healthy, observed, cutoff, epoch, pending, failEpoch>> /\ Step(p, "load")
    BY <1>28 DEF ReconcileCommit
  <2> QED
    BY <2>1, <2>2, <1>0 DEF HealthTypes, Epochs, Step
<1>29. ASSUME NEW p \in Replicas, LoadEpoch(p) PROVE Epochs'
  BY <1>29, <1>0 DEF HealthTypes, Epochs, db, logger, LoadEpoch, Step, Ready
<1>30. ASSUME NEW p \in Replicas, Checkpoint(p) PROVE Epochs'
  <2> DEFINE C == IF cutoff[p] = NoCutoff THEN {r \in Requests : journal[r] # "none"} ELSE cutoff[p]
  <2>1. /\ UNCHANGED <<journal, failures, healthy, observed, epoch, failEpoch>>
       /\ worker[p] = "query" /\ worker' = [worker EXCEPT ![p] = "ack"]
    BY <1>30 DEF Checkpoint, Step, db
  <2>2. /\ cutoff' = [cutoff EXCEPT ![p] = C]
       /\ pending' = [pending EXCEPT ![p] = \E r \in cutoff'[p] : journal[r] = "pending"]
    BY <1>30 DEF Checkpoint
  <2>3. C # NoCutoff
    BY AccountingAssumption DEF NoCutoff
  <2>4. \A r \in Requests : /\ failEpoch[r] > 0 /\ journal[r] = "pending" /\ Home[r] = p
                            /\ failEpoch[r] <= observed[p]
                            => r \in C
    BY DEF IInv, Epochs
  <2> HIDE DEF C
  <2>5. cutoff'[p] = C /\ \A n \in Replicas \ {p} : cutoff'[n] = cutoff[n] /\ pending'[n] = pending[n]
    BY <1>0, <2>2 DEF HealthTypes
  <2>6. \A r \in C : journal[r] = "pending" => pending'[p]
    BY <1>0, <2>2, <2>5 DEF HealthTypes
  <2>7. ASSUME NEW n \in Replicas PROVE Epochs!1!(n)'
    BY <1>0, <2>1, <2>3, <2>5 DEF HealthTypes, Epochs
  <2>8. ASSUME NEW r \in Requests PROVE Epochs!2!(r)'
    <3>1. CASE Home[r] # p
      BY <2>1, <2>5, <3>1, <1>0 DEF HealthTypes, Epochs
    <3>2. CASE Home[r] = p
      <4>1. epoch[p] = observed[p]
        BY <2>1 DEF IInv, Epochs
      <4> QED
        BY <2>1, <2>4, <2>5, <2>6, <3>2, <4>1 DEF IInv, Epochs
    <3> QED
      BY <3>1, <3>2
  <2> QED
    BY <2>7, <2>8 DEF Epochs
<1>31. ASSUME NEW p \in Replicas, Acknowledge(p) PROVE Epochs'
  BY <1>31, <1>0 DEF HealthTypes, Epochs, db, logger, Acknowledge, EndTick, Step
<1>32. ASSUME NEW p \in Replicas, ReconcileFails(p) PROVE Epochs'
  <2>1. \A r \in Requests : journal'[r] = journal[r] \/ journal'[r] = "complete"
    BY <1>32, <1>0 DEF ReconcileFails, Finalize, db, HealthTypes
  <2>2. UNCHANGED <<healthy, observed, cutoff, failEpoch>> /\ EndTick(p)
    BY <1>32 DEF ReconcileFails
  <2>3. failures' = [failures EXCEPT ![p] = failures[p] + 1]
    BY <1>32 DEF ReconcileFails
  <2> QED
    BY <2>1, <2>2, <2>3, <1>0 DEF HealthTypes, Epochs, EndTick, Step
<1>33. ASSUME NEW p \in Replicas, Crash(p) PROVE Epochs'
  BY <1>33, <1>0 DEF HealthTypes, Epochs, db, logger, Crash, Unlock, Batch, Leave,
     EndTick, Step
<1>34. CASE UNCHANGED vars
  BY <1>34, <1>0 DEF HealthTypes, Epochs, db, logger, vars
<1> QED
  BY <1>1, <1>2, <1>3, <1>4, <1>5, <1>6, <1>7, <1>8, <1>9, <1>10, <1>11,
     <1>12, <1>13, <1>14, <1>15, <1>16, <1>17, <1>18, <1>19, <1>20, <1>21,
     <1>22, <1>23, <1>24, <1>25, <1>26, <1>27, <1>28, <1>29, <1>30, <1>31,
     <1>32, <1>33, <1>34 DEF Next, Handle, Environment, Recover

(***************************************************************************)
(* IInv is inductive.                                                      *)
(***************************************************************************)
LEMMA InitHolds == Init => IInv
<1> SUFFICES ASSUME Init PROVE IInv
  OBVIOUS
<1> USE AccountingAssumption DEF Init
<1>1. TypeOK
  <2>1. \A r \in Requests : BaseEntry(r) \in Entries
    BY DEF BaseEntry, Entries, EntryStates
  <2> QED
    BY <2>1 DEF TypeOK, Amounts, Active
<1>2. Rows
  BY DEF Rows
<1>3. EntriesFit
  BY DEF EntriesFit, BaseEntry
<1>4. Ledger
  BY DEF Ledger, OneReceipt, TotalsMatchLedger, StartedWorkIsCharged, NoUsage
<1>5. Epochs
  BY DEF Epochs
<1> QED
  BY <1>1, <1>2, <1>3, <1>4, <1>5 DEF IInv

LEMMA NextHolds == IInv /\ [Next]_vars => IInv'
  BY TypePreserved, RowsPreserved, EntriesPreserved, LedgerPreserved, EpochsPreserved DEF
     IInv

(***************************************************************************)
(* The type invariant and the row, ledger and epoch invariants hold in     *)
(* every reachable state of Accounting.                                    *)
(***************************************************************************)
THEOREM AccountingSafety == Spec => []IInv
  BY InitHolds, NextHolds, PTL DEF Spec

(***************************************************************************)
(* Every variable of the accounting core keeps its type.                   *)
(***************************************************************************)
THEOREM AccountingTypeOK == Spec => []TypeOK
<1>1. IInv => TypeOK
  BY DEF IInv
<1> QED
  BY <1>1, AccountingSafety, PTL

(***************************************************************************)
(* finalizeJournal leaves exactly one receipt per completed intent, equal  *)
(* to the settled reservation, whoever finalizes and however often.        *)
(***************************************************************************)
THEOREM ReceiptIsUnique == Spec => []OneReceipt
<1>1. IInv => OneReceipt
  BY DEF IInv, Ledger
<1> QED
  BY <1>1, AccountingSafety, PTL

(***************************************************************************)
(* The triggers keep the daily totals equal to the ledger.                 *)
(***************************************************************************)
THEOREM TotalsAreExact == Spec => []TotalsMatchLedger
<1>1. IInv => TotalsMatchLedger
  BY DEF IInv, Ledger
<1> QED
  BY <1>1, AccountingSafety, PTL

(***************************************************************************)
(* Work that may have reached a provider is never written off.             *)
(***************************************************************************)
THEOREM StartedWorkPays == Spec => []StartedWorkIsCharged
<1>1. IInv => StartedWorkIsCharged
  BY DEF IInv, Ledger
<1> QED
  BY <1>1, AccountingSafety, PTL

(***************************************************************************)
(* A replica that failed to record a completion stays paused until that    *)
(* intent is complete (usage.Logger's failure and health epochs).          *)
(***************************************************************************)
THEOREM PausesHold == Spec => []PausedUntilRecorded
<1>1. IInv => PausedUntilRecorded
  <2> SUFFICES ASSUME IInv, NEW r \in Requests, failEpoch[r] > 0, journal[r] = "pending"
               PROVE  ~Ready(Home[r])
    BY DEF PausedUntilRecorded
  <2>1. failures[Home[r]] \in Nat /\ healthy[Home[r]] \in Nat /\ failEpoch[r] \in Nat
    BY AccountingAssumption DEF IInv, TypeOK
  <2>2. failEpoch[r] <= failures[Home[r]] /\ healthy[Home[r]] < failEpoch[r]
    BY DEF IInv, Epochs
  <2> QED
    BY <2>1, <2>2 DEF Ready
<1> QED
  BY <1>1, AccountingSafety, PTL

(***************************************************************************)
(* Provider IO begins only behind a durable marker on a pending intent     *)
(* (markAccountingStarted).                                                *)
(***************************************************************************)
THEOREM CallsFollowJournal == Spec => CallsAreJournaled
<1> DEFINE A == \A r \in Requests : called'[r] /\ ~called[r] => upstream[r] /\ journal[r] = "pending"
<1>1. IInv /\ [Next]_vars => [A]_vars
  <2> SUFFICES ASSUME IInv, Next PROVE A
    OBVIOUS
  <2>1. ASSUME NEW p \in Requests, Call(p) PROVE A
    BY <2>1 DEF Call, IInv, TypeOK, Rows
  <2>2. CASE UNCHANGED called
    BY <2>2
  <2>3. ASSUME NEW p \in Requests, Handle(p) \/ Environment(p) PROVE Call(p) \/ UNCHANGED called
    BY <2>3 DEF Handle, Environment, Paused, CheckReady, Begin, Conflict, BeginFails,
       Decline, Abandon, Unbudgeted, Reserve, Admitted, AdmitFails, MarkStarted,
       MarkRefused, MarkFails, NoDeployment, Answered, OpenFinalize, CommitFinalize,
       AlreadyFinal, RecordFails, Resend, Deadline, Expire, ReserveCommits,
       ReserveRollsBack, handler
  <2>4. ASSUME NEW p \in Replicas, Recover(p) \/ Crash(p) PROVE UNCHANGED called
    BY <2>4 DEF Recover, ReconcileClaim, ReconcileCommit, LoadEpoch, Checkpoint,
       Acknowledge, ReconcileFails, Crash, handler
  <2> QED
    BY <2>1, <2>2, <2>3, <2>4 DEF Next
<1> QED
  BY <1>1, AccountingSafety, PTL DEF Spec, CallsAreJournaled

(***************************************************************************)
(* Late or repeated completions change no receipt and refund nothing       *)
(* (finalizeJournal's check of the journal state under its row lock).      *)
(***************************************************************************)
THEOREM ReceiptsStay == Spec => ReceiptsAreFinal
<1> DEFINE A == \A r \in Requests :
                    /\ journal[r] = "complete" => usage'[r] = usage[r] /\ journal'[r] = "complete"
                    /\ reserve[r] = "settled" => reserve'[r] = "settled" /\ settled'[r] = settled[r]
<1>0. ASSUME IInv, NEW Q \in SUBSET Requests, NEW o, Finalize(Q, o), \A r \in Q : owner[r] # "nobody"
      PROVE  A
  <2>1. \A r \in Q : journal[r] = "pending" /\ reserve[r] # "settled"
    BY <1>0 DEF IInv, Rows, Ledger, OneReceipt
  <2> QED
    BY <1>0, <2>1 DEF Finalize, IInv, TypeOK
<1>1. IInv /\ [Next]_vars => [A]_vars
  <2> SUFFICES ASSUME IInv, Next PROVE A
    OBVIOUS
  <2>1. ASSUME NEW p \in Requests, Paused(p) PROVE A
    BY <2>1 DEF Paused, db, IInv, TypeOK, Rows
  <2>2. ASSUME NEW p \in Requests, CheckReady(p) PROVE A
    BY <2>2 DEF CheckReady, db, IInv, TypeOK, Rows
  <2>3. ASSUME NEW p \in Requests, Begin(p) PROVE A
    BY <2>3 DEF Begin, db, IInv, TypeOK, Rows
  <2>4. ASSUME NEW p \in Requests, Conflict(p) PROVE A
    BY <2>4 DEF Conflict, db, IInv, TypeOK, Rows
  <2>5. ASSUME NEW p \in Requests, BeginFails(p) PROVE A
    BY <2>5 DEF BeginFails, db, IInv, TypeOK, Rows
  <2>6. ASSUME NEW p \in Requests, Decline(p) PROVE A
    BY <2>6 DEF Decline, db, IInv, TypeOK, Rows
  <2>7. ASSUME NEW p \in Requests, Abandon(p) PROVE A
    BY <2>7 DEF Abandon, db, IInv, TypeOK, Rows
  <2>8. ASSUME NEW p \in Requests, Unbudgeted(p) PROVE A
    BY <2>8 DEF Unbudgeted, db, IInv, TypeOK, Rows
  <2>9. ASSUME NEW p \in Requests, Reserve(p) PROVE A
    BY <2>9 DEF Reserve, db, IInv, TypeOK, Rows
  <2>10. ASSUME NEW p \in Requests, Admitted(p) PROVE A
    BY <2>10 DEF Admitted, db, IInv, TypeOK, Rows
  <2>11. ASSUME NEW p \in Requests, AdmitFails(p) PROVE A
    BY <2>11 DEF AdmitFails, db, IInv, TypeOK, Rows
  <2>12. ASSUME NEW p \in Requests, MarkStarted(p) PROVE A
    BY <2>12 DEF MarkStarted, db, IInv, TypeOK, Rows
  <2>13. ASSUME NEW p \in Requests, MarkRefused(p) PROVE A
    BY <2>13 DEF MarkRefused, db, IInv, TypeOK, Rows
  <2>14. ASSUME NEW p \in Requests, MarkFails(p) PROVE A
    BY <2>14 DEF MarkFails, db, IInv, TypeOK, Rows
  <2>15. ASSUME NEW p \in Requests, NoDeployment(p) PROVE A
    BY <2>15 DEF NoDeployment, db, IInv, TypeOK, Rows
  <2>16. ASSUME NEW p \in Requests, Call(p) PROVE A
    BY <2>16 DEF Call, db, IInv, TypeOK, Rows
  <2>17. ASSUME NEW p \in Requests, Answered(p) PROVE A
    BY <2>17 DEF Answered, db, IInv, TypeOK, Rows
  <2>18. ASSUME NEW p \in Requests, OpenFinalize(p) PROVE A
    BY <2>18 DEF OpenFinalize, db, IInv, TypeOK, Rows
  <2>19. ASSUME NEW p \in Requests, CommitFinalize(p) PROVE A
    BY <2>19, <1>0 DEF CommitFinalize
  <2>20. ASSUME NEW p \in Requests, AlreadyFinal(p) PROVE A
    BY <2>20 DEF AlreadyFinal, db, IInv, TypeOK, Rows
  <2>21. ASSUME NEW p \in Requests, RecordFails(p) PROVE A
    <3>1. CASE UNCHANGED db
      BY <3>1 DEF db, IInv, TypeOK
    <3>2. CASE owner[p] = "handler" /\ Finalize({p}, "handler")
      <4>1. {p} \in SUBSET Requests /\ \A r \in {p} : owner[r] # "nobody"
        BY <3>2
      <4> QED
        BY <3>2, <4>1, <1>0
    <3> QED
      BY <2>21, <3>1, <3>2 DEF RecordFails
  <2>22. ASSUME NEW p \in Requests, Resend(p) PROVE A
    BY <2>22 DEF Resend, db, IInv, TypeOK, Rows
  <2>23. ASSUME NEW p \in Requests, Deadline(p) PROVE A
    BY <2>23 DEF Deadline, db, IInv, TypeOK, Rows
  <2>24. ASSUME NEW p \in Requests, Expire(p) PROVE A
    BY <2>24 DEF Expire, db, IInv, TypeOK, Rows
  <2>25. ASSUME NEW p \in Requests, ReserveCommits(p) PROVE A
    BY <2>25 DEF ReserveCommits, db, IInv, TypeOK, Rows
  <2>26. ASSUME NEW p \in Requests, ReserveRollsBack(p) PROVE A
    BY <2>26 DEF ReserveRollsBack, db, IInv, TypeOK, Rows
  <2>27. ASSUME NEW p \in Replicas, ReconcileClaim(p) PROVE A
    BY <2>27 DEF ReconcileClaim, db, IInv, TypeOK, Rows
  <2>28. ASSUME NEW p \in Replicas, ReconcileCommit(p) PROVE A
    BY <2>28, <1>0, AccountingAssumption DEF ReconcileCommit, Batch
  <2>29. ASSUME NEW p \in Replicas, LoadEpoch(p) PROVE A
    BY <2>29 DEF LoadEpoch, db, IInv, TypeOK, Rows
  <2>30. ASSUME NEW p \in Replicas, Checkpoint(p) PROVE A
    BY <2>30 DEF Checkpoint, db, IInv, TypeOK, Rows
  <2>31. ASSUME NEW p \in Replicas, Acknowledge(p) PROVE A
    BY <2>31 DEF Acknowledge, db, IInv, TypeOK, Rows
  <2>32. ASSUME NEW p \in Replicas, ReconcileFails(p) PROVE A
    <3>1. CASE UNCHANGED db
      BY <3>1 DEF db, IInv, TypeOK
    <3>2. CASE Finalize(Batch(p), p)
      BY <3>2, <1>0, AccountingAssumption DEF Batch
    <3> QED
      BY <2>32, <3>1, <3>2 DEF ReconcileFails
  <2>33. ASSUME NEW p \in Replicas, Crash(p) PROVE A
    BY <2>33 DEF Crash, db, IInv, TypeOK, Rows
  <2> QED
    BY <2>1, <2>2, <2>3, <2>4, <2>5, <2>6, <2>7, <2>8, <2>9, <2>10, <2>11,
       <2>12, <2>13, <2>14, <2>15, <2>16, <2>17, <2>18, <2>19, <2>20, <2>21,
       <2>22, <2>23, <2>24, <2>25, <2>26, <2>27, <2>28, <2>29, <2>30, <2>31,
       <2>32, <2>33 DEF Next, Handle, Environment, Recover
<1> QED
  BY <1>1, AccountingSafety, PTL DEF Spec, ReceiptsAreFinal
=============================================================================
