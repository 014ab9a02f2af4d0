-------------------------- MODULE AccountingRows ----------------------------
(***************************************************************************)
(* Every step of Accounting preserves the combinations of journal,         *)
(* reservation, transaction and handler states.                            *)
(***************************************************************************)
EXTENDS AccountingTypes

(***************************************************************************)
(* The types of the variables that Rows is about.                          *)
(***************************************************************************)
RowTypes ==
    /\ journal \in [Requests -> {"none", "pending", "complete"}]
    /\ upstream \in [Requests -> BOOLEAN]
    /\ reserve \in [Requests -> {"none", "inflight", "reserved", "settled"}]
    /\ clock \in [Requests -> {"live", "over", "expired"}]
    /\ owner \in [Requests -> {"nobody", "handler"} \cup Replicas]
    /\ saw \in [Requests -> {"none", "reserved", "settled"}]
    /\ pc \in [Requests -> {"new", "checked", "gone", "begun", "admitting", "routing", "calling", "record", "exit"}]
    /\ called \in [Requests -> BOOLEAN]

LEMMA RowFacts == IInv => RowTypes /\ Rows
  BY DEF IInv, TypeOK, Active, RowTypes

(***************************************************************************)
(* The end of a finalizing transaction, committed or rolled back.          *)
(***************************************************************************)
LEMMA RowsAfterTransaction ==
    ASSUME IInv, NEW Q \in SUBSET Requests, NEW o,
           Finalize(Q, o) \/ UNCHANGED db, Unlock(Q), UNCHANGED <<clock, called>>,
           \A r \in Q : owner[r] # "nobody",
           \A r \in Requests :
                \/ pc'[r] = pc[r]
                \/ pc'[r] = "gone" /\ (r \in Q \/ owner[r] # "handler")
                \/ pc'[r] = "exit" /\ pc[r] \in {"record", "exit"}
    PROVE  Rows'
<1> SUFFICES ASSUME NEW r \in Requests PROVE Rows!(r)'
  BY DEF Rows
<1>0. RowTypes /\ Rows
  BY RowFacts
<1> USE <1>0 DEF RowTypes, Rows, Unlock
<1>1. CASE r \notin Q
  <2>1. /\ journal'[r] = journal[r] /\ reserve'[r] = reserve[r] /\ upstream'[r] = upstream[r]
        /\ owner'[r] = owner[r] /\ saw'[r] = saw[r] /\ clock'[r] = clock[r] /\ called'[r] = called[r]
    BY <1>1 DEF Finalize, db
  <2>2. CASE pc'[r] = pc[r]
    BY <2>1, <2>2
  <2>3. CASE pc'[r] # pc[r]
    BY <1>1, <2>1, <2>3
  <2> QED
    BY <2>2, <2>3
<1>2. CASE r \in Q /\ UNCHANGED db
  <2>1. /\ journal'[r] = journal[r] /\ reserve'[r] = reserve[r] /\ upstream'[r] = upstream[r]
        /\ owner'[r] = "nobody" /\ saw'[r] = "none" /\ clock'[r] = clock[r]
        /\ called'[r] = called[r] /\ journal[r] = "pending"
    BY <1>2 DEF db
  <2>2. CASE pc'[r] = pc[r]
    BY <2>1, <2>2, AccountingAssumption
  <2>3. CASE pc'[r] \in {"gone", "exit"}
    BY <2>1, <2>3, AccountingAssumption
  <2> QED
    BY <2>2, <2>3
<1>3. CASE r \in Q /\ Finalize(Q, o)
  <2>1. /\ journal'[r] = "complete" /\ upstream'[r] = upstream[r] /\ reserve[r] # "inflight"
        /\ reserve'[r] = IF saw[r] = "reserved" THEN "settled" ELSE reserve[r]
        /\ owner'[r] = "nobody" /\ saw'[r] = "none" /\ journal[r] = "pending"
        /\ owner[r] = "handler" \/ owner[r] \in Replicas
    BY <1>3 DEF Finalize
  <2> QED
    BY <1>3, <2>1, AccountingAssumption
<1> QED
  BY <1>1, <1>2, <1>3

(* Every step preserves the row combinations. *)
LEMMA RowsPreserved == ASSUME IInv, [Next]_vars PROVE Rows'
<1>0. RowTypes /\ Rows
  BY RowFacts
<1>1. ASSUME NEW p \in Requests, Paused(p) PROVE Rows'
  BY <1>1, <1>0 DEF RowTypes, Rows, db, txs, handler, Paused, Goto, Ready
<1>2. ASSUME NEW p \in Requests, CheckReady(p) PROVE Rows'
  BY <1>2, <1>0 DEF RowTypes, Rows, db, txs, handler, CheckReady, Goto, Ready
<1>3. ASSUME NEW p \in Requests, Begin(p) PROVE Rows'
  BY <1>3, <1>0 DEF RowTypes, Rows, db, txs, handler, Begin, Goto
<1>4. ASSUME NEW p \in Requests, Conflict(p) PROVE Rows'
  BY <1>4, <1>0 DEF RowTypes, Rows, db, txs, handler, Conflict, Goto
<1>5. ASSUME NEW p \in Requests, BeginFails(p) PROVE Rows'
  BY <1>5, <1>0 DEF RowTypes, Rows, db, txs, handler, BeginFails, Goto, Fault
<1>6. ASSUME NEW p \in Requests, Decline(p) PROVE Rows'
  <2>1. Goto(p, "record") /\ pc[p] = "begun" /\ UNCHANGED <<db, clock, txs, called>>
    BY <1>6 DEF Decline
  <2> QED
    BY <1>0, <2>1 DEF RowTypes, Rows, db, txs, handler, Goto
<1>7. ASSUME NEW p \in Requests, Abandon(p) PROVE Rows'
  BY <1>7, <1>0 DEF RowTypes, Rows, db, txs, handler, Abandon, Goto
<1>8. ASSUME NEW p \in Requests, Unbudgeted(p) PROVE Rows'
  BY <1>8, <1>0 DEF RowTypes, Rows, db, txs, handler, Unbudgeted, Goto
<1>9. ASSUME NEW p \in Requests, Reserve(p) PROVE Rows'
  BY <1>9, <1>0 DEF RowTypes, Rows, db, txs, handler, Reserve, Goto
<1>10. ASSUME NEW p \in Requests, Admitted(p) PROVE Rows'
  BY <1>10, <1>0 DEF RowTypes, Rows, db, txs, handler, Admitted, Goto
<1>11. ASSUME NEW p \in Requests, AdmitFails(p) PROVE Rows'
  BY <1>11, <1>0 DEF RowTypes, Rows, db, txs, handler, AdmitFails, Goto, Fault
<1>12. ASSUME NEW p \in Requests, MarkStarted(p) PROVE Rows'
  BY <1>12, <1>0 DEF RowTypes, Rows, db, txs, handler, MarkStarted, Goto
<1>13. ASSUME NEW p \in Requests, MarkRefused(p) PROVE Rows'
  BY <1>13, <1>0 DEF RowTypes, Rows, db, txs, handler, MarkRefused, Goto
<1>14. ASSUME NEW p \in Requests, MarkFails(p) PROVE Rows'
  BY <1>14, <1>0 DEF RowTypes, Rows, db, txs, handler, MarkFails, Goto, Fault
<1>15. ASSUME NEW p \in Requests, NoDeployment(p) PROVE Rows'
  BY <1>15, <1>0 DEF RowTypes, Rows, db, txs, handler, NoDeployment, Goto
<1>16. ASSUME NEW p \in Requests, Call(p) PROVE Rows'
  BY <1>16, <1>0 DEF RowTypes, Rows, db, txs, handler, Call
<1>17. ASSUME NEW p \in Requests, Answered(p) PROVE Rows'
  <2>1. Goto(p, "record") /\ pc[p] = "calling" /\ UNCHANGED <<db, clock, txs, called>>
    BY <1>17 DEF Answered
  <2> QED
    BY <1>0, <2>1 DEF RowTypes, Rows, db, txs, handler, Goto
<1>18. ASSUME NEW p \in Requests, OpenFinalize(p) PROVE Rows'
  <2> SUFFICES ASSUME NEW r \in Requests PROVE Rows!(r)'
    BY DEF Rows
  <2>1. CASE r = p
    BY <1>18, <2>1, <1>0, AccountingAssumption DEF RowTypes, Rows, db, txs, handler,
       OpenFinalize, Lock, Visible, IInv, Ledger, OneReceipt
  <2>2. CASE r # p
    BY <1>18, <1>0, <2>2 DEF RowTypes, Rows, db, txs, handler, OpenFinalize, Lock
  <2> QED
    BY <2>1, <2>2
<1>19. ASSUME NEW p \in Requests, CommitFinalize(p) PROVE Rows'
  BY <1>19, RowsAfterTransaction DEF CommitFinalize, Leave
<1>20. ASSUME NEW p \in Requests, AlreadyFinal(p) PROVE Rows'
  BY <1>20, <1>0 DEF RowTypes, Rows, db, txs, handler, AlreadyFinal, Leave
<1>21. ASSUME NEW p \in Requests, RecordFails(p) PROVE Rows'
  <2>1. \A r \in Requests : \/ pc'[r] = pc[r]
                            \/ pc'[r] = "gone" /\ r = p
                            \/ pc'[r] = "exit" /\ pc[r] \in {"record", "exit"}
    <3>1. CASE Leave({p})
      BY <1>0, <3>1 DEF RowTypes, Leave
    <3>2. CASE Goto(p, "exit")
      BY <1>21, <1>0, <3>2 DEF RowTypes, RecordFails, Goto
    <3> QED
      BY <1>21, <3>1, <3>2 DEF RecordFails
  <2>2. UNCHANGED <<clock, called>>
    BY <1>21 DEF RecordFails
  <2>3. CASE owner[p] = "handler"
    BY <1>21, <2>1, <2>2, <2>3, RowsAfterTransaction DEF RecordFails
  <2>4. CASE owner[p] # "handler"
    <3>1. UNCHANGED <<db, txs>>
      BY <1>21, <2>4 DEF RecordFails
    <3>2. pc[p] \in {"record", "exit"}
      BY <1>21 DEF RecordFails
    <3> SUFFICES ASSUME NEW r \in Requests PROVE Rows!(r)'
      BY DEF Rows
    <3> QED
      BY <1>0, <2>1, <2>2, <2>4, <3>1, <3>2 DEF RowTypes, Rows, db, txs, handler
  <2> QED
    BY <2>3, <2>4
<1>22. ASSUME NEW p \in Requests, Resend(p) PROVE Rows'
  BY <1>22, <1>0 DEF RowTypes, Rows, db, txs, handler, Resend, Goto
<1>23. ASSUME NEW p \in Requests, Deadline(p) PROVE Rows'
  BY <1>23, <1>0 DEF RowTypes, Rows, db, txs, handler, Deadline
<1>24. ASSUME NEW p \in Requests, Expire(p) PROVE Rows'
  BY <1>24, <1>0 DEF RowTypes, Rows, db, txs, handler, Expire
<1>25. ASSUME NEW p \in Requests, ReserveCommits(p) PROVE Rows'
  BY <1>25, <1>0 DEF RowTypes, Rows, db, txs, handler, ReserveCommits, ReservationCharge
<1>26. ASSUME NEW p \in Requests, ReserveRollsBack(p) PROVE Rows'
  BY <1>26, <1>0 DEF RowTypes, Rows, db, txs, handler, ReserveRollsBack
<1>27. ASSUME NEW p \in Replicas, ReconcileClaim(p) PROVE Rows'
  <2>1. PICK Q \in SUBSET Claimable : Lock(Q, p)
    BY <1>27 DEF ReconcileClaim
  <2>2. UNCHANGED <<db, clock, handler>>
    BY <1>27 DEF ReconcileClaim
  <2> SUFFICES ASSUME NEW r \in Requests PROVE Rows!(r)'
    BY DEF Rows
  <2>3. CASE r \in Q
    BY <1>0, <2>1, <2>2, <2>3, AccountingAssumption DEF RowTypes, Rows, db, txs, handler,
       Lock, Visible, Claimable, IInv, Ledger, OneReceipt
  <2>4. CASE r \notin Q
    BY <1>0, <2>1, <2>2, <2>4 DEF RowTypes, Rows, db, txs, handler, Lock
  <2> QED
    BY <2>3, <2>4
<1>28. ASSUME NEW p \in Replicas, ReconcileCommit(p) PROVE Rows'
  BY <1>28, RowsAfterTransaction, AccountingAssumption DEF ReconcileCommit, Batch, handler
<1>29. ASSUME NEW p \in Replicas, LoadEpoch(p) PROVE Rows'
  BY <1>29, <1>0 DEF RowTypes, Rows, db, txs, handler, LoadEpoch, Step, Ready
<1>30. ASSUME NEW p \in Replicas, Checkpoint(p) PROVE Rows'
  BY <1>30, <1>0 DEF RowTypes, Rows, db, txs, handler, Checkpoint, Step
<1>31. ASSUME NEW p \in Replicas, Acknowledge(p) PROVE Rows'
  BY <1>31, <1>0 DEF RowTypes, Rows, db, txs, handler, Acknowledge, EndTick, Step
<1>32. ASSUME NEW p \in Replicas, ReconcileFails(p) PROVE Rows'
  BY <1>32, RowsAfterTransaction, AccountingAssumption DEF ReconcileFails, Batch, handler
<1>33. ASSUME NEW p \in Replicas, Crash(p) PROVE Rows'
  <2> DEFINE mine == {r \in Requests : Home[r] = p}
  <2>1. /\ UNCHANGED <<db, clock, called>> /\ Leave(mine)
       /\ Unlock(Batch(p) \cup {r \in mine : owner[r] = "handler"})
    BY <1>33 DEF Crash
  <2> QED
    BY <1>0, <2>1, AccountingAssumption DEF RowTypes, Rows, db, Leave, Unlock, Batch
<1>34. CASE UNCHANGED vars
  BY <1>34, <1>0 DEF RowTypes, Rows, db, txs, handler, vars
<1> QED
  BY <1>1, <1>2, <1>3, <1>4, <1>5, <1>6, <1>7, <1>8, <1>9, <1>10, <1>11,
     <1>12, <1>13, <1>14, <1>15, <1>16, <1>17, <1>18, <1>19, <1>20, <1>21,
     <1>22, <1>23, <1>24, <1>25, <1>26, <1>27, <1>28, <1>29, <1>30, <1>31,
     <1>32, <1>33, <1>34 DEF Next, Handle, Environment, Recover

(* Every step preserves EntriesFit. *)
LEMMA EntriesPreserved == ASSUME IInv, [Next]_vars PROVE EntriesFit'
<1>1. ASSUME NEW p \in Requests, Paused(p) PROVE EntriesFit'
  BY <1>1 DEF IInv, TypeOK, EntriesFit, Active, db, txs, handler, logger, Paused, Goto,
     Ready
<1>2. ASSUME NEW p \in Requests, CheckReady(p) PROVE EntriesFit'
  BY <1>2 DEF IInv, TypeOK, EntriesFit, Active, db, txs, handler, logger, CheckReady,
     Goto, Ready
<1>3. ASSUME NEW p \in Requests, Begin(p) PROVE EntriesFit'
  BY <1>3 DEF IInv, TypeOK, EntriesFit, Active, db, txs, handler, logger, Begin, Goto
<1>4. ASSUME NEW p \in Requests, Conflict(p) PROVE EntriesFit'
  BY <1>4 DEF IInv, TypeOK, EntriesFit, Active, db, txs, handler, logger, Conflict, Goto
<1>5. ASSUME NEW p \in Requests, BeginFails(p) PROVE EntriesFit'
  BY <1>5 DEF IInv, TypeOK, EntriesFit, Active, db, txs, handler, logger, BeginFails,
     Goto, Fault
<1>6. ASSUME NEW p \in Requests, Decline(p) PROVE EntriesFit'
  <2>1. ~upstream[p] /\ UNCHANGED upstream
    BY <1>6 DEF Decline, db, IInv, Rows
  <2>2. PICK e : entry' = [entry EXCEPT ![p] = e]
    BY <1>6 DEF Decline
  <2>3. pc' = [pc EXCEPT ![p] = "record"]
    BY <1>6 DEF Decline, Goto
  <2> QED
    BY <2>1, <2>2, <2>3 DEF IInv, TypeOK, EntriesFit
<1>7. ASSUME NEW p \in Requests, Abandon(p) PROVE EntriesFit'
  BY <1>7 DEF IInv, TypeOK, EntriesFit, Active, db, txs, handler, logger, Abandon, Goto
<1>8. ASSUME NEW p \in Requests, Unbudgeted(p) PROVE EntriesFit'
  BY <1>8 DEF IInv, TypeOK, EntriesFit, Active, db, txs, handler, logger, Unbudgeted, Goto
<1>9. ASSUME NEW p \in Requests, Reserve(p) PROVE EntriesFit'
  BY <1>9 DEF IInv, TypeOK, EntriesFit, Active, db, txs, handler, logger, Reserve, Goto
<1>10. ASSUME NEW p \in Requests, Admitted(p) PROVE EntriesFit'
  BY <1>10 DEF IInv, TypeOK, EntriesFit, Active, db, txs, handler, logger, Admitted, Goto
<1>11. ASSUME NEW p \in Requests, AdmitFails(p) PROVE EntriesFit'
  BY <1>11 DEF IInv, TypeOK, EntriesFit, Active, db, txs, handler, logger, AdmitFails,
     Goto, Fault
<1>12. ASSUME NEW p \in Requests, MarkStarted(p) PROVE EntriesFit'
  BY <1>12 DEF IInv, TypeOK, EntriesFit, Active, db, txs, handler, logger, MarkStarted,
     Goto, BaseEntry
<1>13. ASSUME NEW p \in Requests, MarkRefused(p) PROVE EntriesFit'
  BY <1>13 DEF IInv, TypeOK, EntriesFit, Active, db, txs, handler, logger, MarkRefused, Goto
<1>14. ASSUME NEW p \in Requests, MarkFails(p) PROVE EntriesFit'
  BY <1>14 DEF IInv, TypeOK, EntriesFit, Active, db, txs, handler, logger, MarkFails,
     Goto, Fault, BaseEntry
<1>15. ASSUME NEW p \in Requests, NoDeployment(p) PROVE EntriesFit'
  BY <1>15 DEF IInv, TypeOK, EntriesFit, Active, db, txs, handler, logger, NoDeployment,
     Goto
<1>16. ASSUME NEW p \in Requests, Call(p) PROVE EntriesFit'
  BY <1>16 DEF IInv, TypeOK, EntriesFit, Active, db, txs, handler, logger, Call
<1>17. ASSUME NEW p \in Requests, Answered(p) PROVE EntriesFit'
  BY <1>17 DEF IInv, TypeOK, EntriesFit, Active, db, txs, handler, logger, Answered, Goto,
     Outcome
<1>18. ASSUME NEW p \in Requests, OpenFinalize(p) PROVE EntriesFit'
  BY <1>18 DEF IInv, TypeOK, EntriesFit, Active, db, txs, handler, logger, OpenFinalize,
     Lock, Visible
<1>19. ASSUME NEW p \in Requests, CommitFinalize(p) PROVE EntriesFit'
  <2>1. UNCHANGED upstream /\ Leave({p})
    BY <1>19 DEF CommitFinalize, Finalize
  <2> QED
    BY <2>1 DEF IInv, TypeOK, EntriesFit, Active, db, txs, handler, logger, Leave, BaseEntry
<1>20. ASSUME NEW p \in Requests, AlreadyFinal(p) PROVE EntriesFit'
  <2>1. UNCHANGED upstream /\ Leave({p})
    BY <1>20 DEF AlreadyFinal, db
  <2> QED
    BY <2>1 DEF IInv, TypeOK, EntriesFit, Active, db, txs, handler, logger, Leave, BaseEntry
<1>21. ASSUME NEW p \in Requests, RecordFails(p) PROVE EntriesFit'
  <2>1. UNCHANGED upstream
    BY <1>21 DEF RecordFails, Finalize, db
  <2>2. CASE Leave({p})
    BY <2>1, <2>2 DEF IInv, TypeOK, EntriesFit, Active, db, txs, handler, logger, Leave,
       BaseEntry
  <2>3. CASE Goto(p, "exit") /\ UNCHANGED entry
    BY <2>1, <2>3, <1>21 DEF IInv, TypeOK, EntriesFit, Active, db, txs, handler, logger,
       Goto, RecordFails
  <2> QED
    BY <1>21, <2>2, <2>3 DEF RecordFails
<1>22. ASSUME NEW p \in Requests, Resend(p) PROVE EntriesFit'
  BY <1>22 DEF IInv, TypeOK, EntriesFit, Active, db, txs, handler, logger, Resend, Goto
<1>23. ASSUME NEW p \in Requests, Deadline(p) PROVE EntriesFit'
  BY <1>23 DEF IInv, TypeOK, EntriesFit, Active, db, txs, handler, logger, Deadline
<1>24. ASSUME NEW p \in Requests, Expire(p) PROVE EntriesFit'
  BY <1>24 DEF IInv, TypeOK, EntriesFit, Active, db, txs, handler, logger, Expire
<1>25. ASSUME NEW p \in Requests, ReserveCommits(p) PROVE EntriesFit'
  BY <1>25 DEF IInv, TypeOK, EntriesFit, Active, db, txs, handler, logger, ReserveCommits,
     ReservationCharge
<1>26. ASSUME NEW p \in Requests, ReserveRollsBack(p) PROVE EntriesFit'
  BY <1>26 DEF IInv, TypeOK, EntriesFit, Active, db, txs, handler, logger, ReserveRollsBack
<1>27. ASSUME NEW p \in Replicas, ReconcileClaim(p) PROVE EntriesFit'
  BY <1>27 DEF IInv, TypeOK, EntriesFit, Active, db, txs, handler, logger, ReconcileClaim,
     Lock, Visible, Claimable, Step
<1>28. ASSUME NEW p \in Replicas, ReconcileCommit(p) PROVE EntriesFit'
  <2>1. UNCHANGED <<upstream, pc, entry>>
    BY <1>28 DEF ReconcileCommit, Finalize, handler
  <2> QED
    BY <2>1 DEF IInv, TypeOK, EntriesFit, Active, db, txs, handler, logger
<1>29. ASSUME NEW p \in Replicas, LoadEpoch(p) PROVE EntriesFit'
  BY <1>29 DEF IInv, TypeOK, EntriesFit, Active, db, txs, handler, logger, LoadEpoch,
     Step, Ready
<1>30. ASSUME NEW p \in Replicas, Checkpoint(p) PROVE EntriesFit'
  BY <1>30 DEF IInv, TypeOK, EntriesFit, Active, db, txs, handler, logger, Checkpoint, Step
<1>31. ASSUME NEW p \in Replicas, Acknowledge(p) PROVE EntriesFit'
  BY <1>31 DEF IInv, TypeOK, EntriesFit, Active, db, txs, handler, logger, Acknowledge,
     EndTick, Step
<1>32. ASSUME NEW p \in Replicas, ReconcileFails(p) PROVE EntriesFit'
  <2>1. UNCHANGED <<upstream, pc, entry>>
    BY <1>32 DEF ReconcileFails, Finalize, handler, db
  <2> QED
    BY <2>1 DEF IInv, TypeOK, EntriesFit, Active, db, txs, handler, logger
<1>33. ASSUME NEW p \in Replicas, Crash(p) PROVE EntriesFit'
  <2> DEFINE mine == {r \in Requests : Home[r] = p}
  <2>1. UNCHANGED upstream /\ Leave(mine)
    BY <1>33 DEF Crash, db
  <2> HIDE DEF mine
  <2> QED
    BY <2>1 DEF IInv, TypeOK, EntriesFit, Active, db, txs, handler, logger, Leave, BaseEntry
<1>34. CASE UNCHANGED vars
  BY <1>34 DEF IInv, TypeOK, EntriesFit, Active, db, txs, handler, logger, vars
<1> QED
  BY <1>1, <1>2, <1>3, <1>4, <1>5, <1>6, <1>7, <1>8, <1>9, <1>10, <1>11,
     <1>12, <1>13, <1>14, <1>15, <1>16, <1>17, <1>18, <1>19, <1>20, <1>21,
     <1>22, <1>23, <1>24, <1>25, <1>26, <1>27, <1>28, <1>29, <1>30, <1>31,
     <1>32, <1>33, <1>34 DEF Next, Handle, Environment, Recover
=============================================================================
