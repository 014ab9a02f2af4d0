----------------------------- MODULE Accounting -----------------------------
(***************************************************************************)
(* Durable request accounting: the inference_journal intent, the budget    *)
(* reservation, the usage row and the daily totals in Postgres; the        *)
(* handler that writes them (internal/api/accounting.go, v1.go); and the   *)
(* recovery worker and health epochs of usage.Logger.                      *)
(*                                                                         *)
(* A finalization is two steps, because it reads the reservation before    *)
(* it writes: opening the transaction (journal row locked, reservation     *)
(* read) and its commit.  Every database call may report an error whether  *)
(* or not it took effect.  A replica may die at any step.                  *)
(***************************************************************************)
EXTENDS Naturals, FiniteSets

CONSTANTS
    Requests, Replicas,
    Home,         \* Home[r]: the replica that serves request r
    Reads,        \* requests for stored Responses: not billable
    Costs,        \* costs a provider's reported usage may price to
    Estimate,     \* the reservation's estimated cost
    BatchLimit,   \* LIMIT 64 of ReconcileAccounting
    MaxFaults,    \* bound: database errors the replicas may observe
    MaxCrashes    \* bound: replica crashes

ASSUME AccountingAssumption ==
    /\ IsFiniteSet(Requests) /\ IsFiniteSet(Replicas)
    /\ Home \in [Requests -> Replicas]
    /\ Reads \subseteq Requests
    /\ Costs \subseteq Nat /\ Estimate \in Nat
    /\ BatchLimit \in Nat \ {0} /\ MaxFaults \in Nat /\ MaxCrashes \in Nat
    /\ "handler" \notin Replicas /\ "nobody" \notin Replicas /\ "none" \notin Requests

VARIABLES
    journal,    \* inference_journal.state, "none" without a row
    upstream,   \* inference_journal.upstream_started
    clock,      \* the request's deadline: "live", "over", or recover_after passed
    reserve,    \* budget_reservations.status; "inflight" is inserted, uncommitted
    settled,    \* settled_cost
    usage,      \* the usage_log row with this accounting_id
    charged,    \* what the request adds to its scopes' budget_daily_totals
    owner,      \* who holds the journal row FOR UPDATE
    saw,        \* the reservation status that transaction has read
    pc,         \* where the request's handler is
    entry,      \* the entry that the next persistUsage call would record
    called,     \* provider IO has begun (a fact of the outside world)
    failures, healthy, observed, cutoff,   \* usage.Logger of each replica
    worker, epoch, pending,                \* the recovery worker's step and locals
    failEpoch,  \* l.failures after the last failed Record of this request
    faults, crashes

db == <<journal, upstream, reserve, settled, usage, charged>>
txs == <<owner, saw>>
handler == <<pc, entry, called>>
logger == <<failures, healthy, observed, cutoff, worker, epoch, pending>>
vars == <<db, clock, txs, handler, logger, failEpoch, faults, crashes>>

NoUsage == [cost |-> 0, state |-> "none"]
NoCutoff == {"none"}

EntryStates == {"", "unknown", "priced", "unpriced", "not_billable"}
Entries == [cost : Costs \cup {0}, state : EntryStates]
Amounts == Costs \cup {0, Estimate}
Active == {"begun", "admitting", "routing", "calling", "record", "exit"}

TypeOK ==
    /\ journal \in [Requests -> {"none", "pending", "complete"}]
    /\ upstream \in [Requests -> BOOLEAN]
    /\ clock \in [Requests -> {"live", "over", "expired"}]
    /\ reserve \in [Requests -> {"none", "inflight", "reserved", "settled"}]
    /\ settled \in [Requests -> Amounts]
    /\ usage \in [Requests -> {NoUsage} \cup
            [cost : Amounts, state : {"unknown", "priced", "unpriced", "not_billable", "estimated"}]]
    /\ charged \in [Requests -> Amounts]
    /\ owner \in [Requests -> {"nobody", "handler"} \cup Replicas]
    /\ saw \in [Requests -> {"none", "reserved", "settled"}]
    /\ pc \in [Requests -> {"new", "checked", "gone"} \cup Active]
    /\ entry \in [Requests -> Entries]
    /\ called \in [Requests -> BOOLEAN]
    /\ failures \in [Replicas -> Nat] /\ healthy \in [Replicas -> Nat]
    /\ observed \in [Replicas -> Nat] /\ epoch \in [Replicas -> Nat]
    /\ cutoff \in [Replicas -> (SUBSET Requests) \cup {NoCutoff}]
    /\ worker \in [Replicas -> {"idle", "claimed", "load", "query", "ack"}]
    /\ pending \in [Replicas -> BOOLEAN]
    /\ failEpoch \in [Requests -> Nat]
    /\ faults \in Nat /\ crashes \in Nat

\* beginAccounting's exit entry: "unknown" unless the request is a stored read.
BaseEntry(r) == [cost |-> 0, state |-> IF r \in Reads THEN "not_billable" ELSE "unknown"]

Init ==
    /\ journal = [r \in Requests |-> "none"]
    /\ upstream = [r \in Requests |-> FALSE]
    /\ clock = [r \in Requests |-> "live"]
    /\ reserve = [r \in Requests |-> "none"]
    /\ settled = [r \in Requests |-> 0]
    /\ usage = [r \in Requests |-> NoUsage]
    /\ charged = [r \in Requests |-> 0]
    /\ owner = [r \in Requests |-> "nobody"]
    /\ saw = [r \in Requests |-> "none"]
    /\ pc = [r \in Requests |-> "new"]
    /\ entry = [r \in Requests |-> BaseEntry(r)]
    /\ called = [r \in Requests |-> FALSE]
    /\ failures = [n \in Replicas |-> 0] /\ healthy = [n \in Replicas |-> 0]
    /\ observed = [n \in Replicas |-> 0] /\ epoch = [n \in Replicas |-> 0]
    /\ cutoff = [n \in Replicas |-> NoCutoff]
    /\ worker = [n \in Replicas |-> "idle"]
    /\ pending = [n \in Replicas |-> FALSE]
    /\ failEpoch = [r \in Requests |-> 0]
    /\ faults = 0 /\ crashes = 0

Goto(r, l) == pc' = [pc EXCEPT ![r] = l]

\* The handler is over for the requests in R, and its accountingRun with it.
Leave(R) ==
    /\ pc' = [r \in Requests |-> IF r \in R THEN "gone" ELSE pc[r]]
    /\ entry' = [r \in Requests |-> IF r \in R THEN BaseEntry(r) ELSE entry[r]]
Fault == faults < MaxFaults /\ faults' = faults + 1
Ready(n) == failures[n] = healthy[n]
-----------------------------------------------------------------------------
(* Time: the request context ends, and 30s of grace later the intent may be *)
(* recovered.  recover_after is fixed when the intent is written.           *)

Deadline(r) ==
    /\ journal[r] = "pending" /\ clock[r] = "live"
    /\ clock' = [clock EXCEPT ![r] = "over"]
    /\ UNCHANGED <<db, txs, handler, logger, failEpoch, faults, crashes>>

Expire(r) ==
    /\ journal[r] = "pending" /\ clock[r] = "over"
    /\ clock' = [clock EXCEPT ![r] = "expired"]
    /\ UNCHANGED <<db, txs, handler, logger, failEpoch, faults, crashes>>
-----------------------------------------------------------------------------
(* The handler, up to the provider call.                                    *)

\* A client sends a request again with the request id of an earlier one.
Resend(r) ==
    /\ pc[r] = "gone"
    /\ Goto(r, "new")
    /\ UNCHANGED <<db, clock, txs, entry, called, logger, failEpoch, faults, crashes>>

\* 503 while usage recovery is pending on this replica.
Paused(r) ==
    /\ pc[r] = "new" /\ ~Ready(Home[r])
    /\ Goto(r, "gone")
    /\ UNCHANGED <<db, clock, txs, entry, called, logger, failEpoch, faults, crashes>>

\* The health check and the insert of the intent are separate steps.
CheckReady(r) ==
    /\ pc[r] = "new" /\ Ready(Home[r])
    /\ Goto(r, "checked")
    /\ UNCHANGED <<db, clock, txs, entry, called, logger, failEpoch, faults, crashes>>

Begin(r) ==
    /\ pc[r] = "checked" /\ reserve[r] = "none" /\ journal[r] = "none"
    /\ journal' = [journal EXCEPT ![r] = "pending"]
    /\ Goto(r, "begun")
    /\ UNCHANGED <<upstream, reserve, settled, usage, charged, clock, txs, entry,
                   called, logger, failEpoch, faults, crashes>>

\* ErrAccountingConflict: the request id has been used (409).
Conflict(r) ==
    /\ pc[r] = "checked" /\ (journal[r] # "none" \/ reserve[r] # "none")
    /\ Goto(r, "gone")
    /\ UNCHANGED <<db, clock, txs, entry, called, logger, failEpoch, faults, crashes>>

\* The insert reports an error: nothing is served and no exit closure runs,
\* but the intent may be in the journal.
BeginFails(r) ==
    /\ pc[r] = "checked" /\ reserve[r] = "none" /\ journal[r] = "none" /\ Fault
    /\ journal' \in {journal, [journal EXCEPT ![r] = "pending"]}
    /\ Goto(r, "gone")
    /\ UNCHANGED <<upstream, reserve, settled, usage, charged, clock, txs, entry,
                   called, logger, failEpoch, crashes>>

\* A denial (concurrency, rate, pricing, budget) or a cache hit is recorded
\* before any attempt; recordDenial leaves the state to classifyAccounting.
Decline(r) ==
    /\ pc[r] = "begun"
    /\ \E s \in {"", "not_billable"} : entry' = [entry EXCEPT ![r] = [cost |-> 0, state |-> s]]
    /\ Goto(r, "record")
    /\ UNCHANGED <<db, clock, txs, called, logger, failEpoch, faults, crashes>>

\* Early returns that record nothing (bad body, guardrail, lookup failure) and
\* panics leave the outcome to the exit closure.
Abandon(r) ==
    /\ pc[r] \in {"begun", "routing", "calling"}
    /\ Goto(r, "exit")
    /\ UNCHANGED <<db, clock, txs, entry, called, logger, failEpoch, faults, crashes>>

Unbudgeted(r) ==
    /\ pc[r] = "begun"
    /\ Goto(r, "routing")
    /\ UNCHANGED <<db, clock, txs, entry, called, logger, failEpoch, faults, crashes>>

\* Admit has passed its checks and inserted the reservation.
Reserve(r) ==
    /\ pc[r] = "begun" /\ clock[r] = "live" /\ r \notin Reads
    /\ reserve' = [reserve EXCEPT ![r] = "inflight"]
    /\ Goto(r, "admitting")
    /\ UNCHANGED <<journal, upstream, settled, usage, charged, clock, txs, entry,
                   called, logger, failEpoch, faults, crashes>>

\* budget_reservation_daily_trigger on INSERT: charge the estimate, take back
\* what an earlier usage row of the request had charged.
ReservationCharge(r) == (charged[r] + Estimate) - usage[r].cost

ReserveCommits(r) ==
    /\ reserve[r] = "inflight"
    /\ reserve' = [reserve EXCEPT ![r] = "reserved"]
    /\ charged' = [charged EXCEPT ![r] = ReservationCharge(r)]
    /\ UNCHANGED <<journal, upstream, settled, usage, clock, txs, handler, logger,
                   failEpoch, faults, crashes>>

Admitted(r) ==
    /\ pc[r] = "admitting" /\ reserve[r] = "reserved"
    /\ Goto(r, "routing")
    /\ UNCHANGED <<db, clock, txs, entry, called, logger, failEpoch, faults, crashes>>

\* The 2s admission timeout or a database error: 503 without a recorded
\* outcome.  A COMMIT already sent still takes effect, before or later.
AdmitFails(r) ==
    /\ pc[r] = "admitting" /\ Fault
    /\ Goto(r, "exit")
    /\ UNCHANGED <<db, clock, txs, entry, called, logger, failEpoch, crashes>>

\* The transaction of a handler that no longer waits for it rolls back.
ReserveRollsBack(r) ==
    /\ reserve[r] = "inflight" /\ pc[r] # "admitting"
    /\ reserve' = [reserve EXCEPT ![r] = "none"]
    /\ UNCHANGED <<journal, upstream, settled, usage, charged, clock, txs, handler,
                   logger, failEpoch, faults, crashes>>
-----------------------------------------------------------------------------
(* The attempts.  tryAcquireUpstream commits the started marker before it   *)
(* returns a permit; later attempts of the request find run.started set.    *)

\* Mutant of MarkStarted: the marker is written after the call, not before it.
MarkStartedLater(r) ==
    /\ pc[r] = "routing"
    /\ journal[r] = "pending" /\ owner[r] = "nobody" /\ clock[r] # "expired"
    /\ Goto(r, "calling")
    /\ UNCHANGED <<db, clock, txs, entry, called, logger, failEpoch, faults, crashes>>

MarkStarted(r) ==
    /\ pc[r] = "routing"
    /\ journal[r] = "pending" /\ owner[r] = "nobody" /\ clock[r] # "expired"
    /\ upstream' = [upstream EXCEPT ![r] = TRUE]
    /\ Goto(r, "calling")
    /\ UNCHANGED <<journal, reserve, settled, usage, charged, clock, txs, entry,
                   called, logger, failEpoch, faults, crashes>>

\* No row matched, or the UPDATE reported an error: the attempt is refused.
MarkRefused(r) ==
    /\ pc[r] = "routing" /\ (journal[r] # "pending" \/ clock[r] = "expired")
    /\ Goto(r, "record")
    /\ UNCHANGED <<db, clock, txs, entry, called, logger, failEpoch, faults, crashes>>

MarkFails(r) ==
    /\ pc[r] = "routing" /\ Fault
    /\ \/ UNCHANGED upstream
       \/ /\ journal[r] = "pending" /\ owner[r] = "nobody" /\ clock[r] # "expired"
          /\ upstream' = [upstream EXCEPT ![r] = TRUE]
    /\ Goto(r, "record")
    /\ UNCHANGED <<journal, reserve, settled, usage, charged, clock, txs, entry,
                   called, logger, failEpoch, crashes>>

\* No deployment is left (or all are saturated): writeRoutingError.
NoDeployment(r) ==
    /\ pc[r] \in {"routing", "calling"}
    /\ Goto(r, "record")
    /\ UNCHANGED <<db, clock, txs, entry, called, logger, failEpoch, faults, crashes>>

\* Provider IO under the request context.
Call(r) ==
    /\ pc[r] = "calling" /\ clock[r] = "live"
    /\ called' = [called EXCEPT ![r] = TRUE]
    /\ UNCHANGED <<db, clock, txs, pc, entry, logger, failEpoch, faults, crashes>>

\* recordUsage: a price for the reported usage, or the reason there is none.
Outcome(r) ==
    {BaseEntry(r)} \cup (IF r \in Reads THEN {} ELSE
        {[cost |-> 0, state |-> "unpriced"]} \cup {[cost |-> c, state |-> "priced"] : c \in Costs})

Answered(r) ==
    /\ pc[r] = "calling" /\ called[r]
    /\ \E e \in Outcome(r) : entry' = [entry EXCEPT ![r] = e]
    /\ Goto(r, "record")
    /\ UNCHANGED <<db, clock, txs, called, logger, failEpoch, faults, crashes>>
-----------------------------------------------------------------------------
(* Finalization.                                                            *)

\* classifyAccounting for the entries recordDenial leaves unclassified.
ClassifyAccounting(e) ==
    [cost |-> e.cost, state |-> IF e.state = "" THEN "not_billable" ELSE e.state]

\* The entry finalizeJournal starts from: the handler's, or on recovery the
\* journaled base entry.  Work that never started is free.
Evidence(r, o) ==
    LET e == IF o = "handler" THEN ClassifyAccounting(entry[r]) ELSE BaseEntry(r)
    IN  IF upstream[r] THEN e ELSE [cost |-> 0, state |-> "not_billable"]

\* Mutant of Receipt: an open reservation is settled with whatever was reported.
ReceiptRefunding(r, o) == Evidence(r, o)

\* ... and what it records, given the reservation the transaction has read.
Receipt(r, o) ==
    LET e == Evidence(r, o) IN
    CASE saw[r] = "none" -> e
      [] saw[r] = "settled" ->
            [cost |-> settled[r],
             state |-> IF e.cost # settled[r] \/ e.state = "unknown" THEN "estimated" ELSE e.state]
      [] saw[r] = "reserved" ->
            IF upstream[r] /\ e.state \in {"unknown", "unpriced"}
            THEN [cost |-> Estimate, state |-> "estimated"] ELSE e

\* Mutant of ChargeAfter: settlement adds the cost and keeps the estimate.
ChargeAfterTwice(r, receipt) == charged[r] + receipt.cost

\* budget_usage_daily_trigger and the settlement branch of
\* budget_reservation_daily_trigger.
ChargeAfter(r, receipt) ==
    CASE saw[r] = "reserved" -> (charged[r] + receipt.cost) - Estimate
      [] reserve[r] = "none" -> charged[r] + receipt.cost
      [] OTHER -> charged[r]

\* Mutant of Finalize: the reservation is settled with the reported cost.
FinalizeReported(R, o) ==
    /\ \A r \in R : reserve[r] # "inflight"
    /\ journal' = [r \in Requests |-> IF r \in R THEN "complete" ELSE journal[r]]
    /\ usage' = [r \in Requests |-> IF r \in R THEN Receipt(r, o) ELSE usage[r]]
    /\ reserve' = [r \in Requests |->
            IF r \in R /\ saw[r] = "reserved" THEN "settled" ELSE reserve[r]]
    /\ settled' = [r \in Requests |->
            IF r \in R /\ saw[r] = "reserved" THEN Evidence(r, o).cost ELSE settled[r]]
    /\ UNCHANGED <<charged, upstream>>

\* Commit the finalizations of the rows in R, all held by o.  The usage insert
\* waits for an uncommitted reservation of the same request (its trigger takes
\* the advisory lock that the reservation's trigger holds).
Finalize(R, o) ==
    /\ \A r \in R : reserve[r] # "inflight"
    /\ journal' = [r \in Requests |-> IF r \in R THEN "complete" ELSE journal[r]]
    /\ usage' = [r \in Requests |-> IF r \in R THEN Receipt(r, o) ELSE usage[r]]
    /\ reserve' = [r \in Requests |->
            IF r \in R /\ saw[r] = "reserved" THEN "settled" ELSE reserve[r]]
    /\ settled' = [r \in Requests |->
            IF r \in R /\ saw[r] = "reserved" THEN Receipt(r, o).cost ELSE settled[r]]
    /\ charged' = [r \in Requests |->
            IF r \in R THEN ChargeAfter(r, Receipt(r, o)) ELSE charged[r]]
    /\ UNCHANGED upstream

\* The reservation status visible to a transaction.
Visible(r) == IF reserve[r] = "inflight" THEN "none" ELSE reserve[r]

Lock(R, o) ==
    /\ owner' = [r \in Requests |-> IF r \in R THEN o ELSE owner[r]]
    /\ saw' = [r \in Requests |-> IF r \in R THEN Visible(r) ELSE saw[r]]

Unlock(R) ==
    /\ owner' = [r \in Requests |-> IF r \in R THEN "nobody" ELSE owner[r]]
    /\ saw' = [r \in Requests |-> IF r \in R THEN "none" ELSE saw[r]]

\* Mutant of OpenFinalize: a completed journal is finalized again.
OpenFinalizeAgain(r) ==
    /\ pc[r] \in {"record", "exit"} /\ owner[r] = "nobody"
    /\ Lock({r}, "handler")
    /\ UNCHANGED <<db, clock, handler, logger, failEpoch, faults, crashes>>

OpenFinalize(r) ==
    /\ pc[r] \in {"record", "exit"} /\ owner[r] = "nobody" /\ journal[r] = "pending"
    /\ Lock({r}, "handler")
    /\ UNCHANGED <<db, clock, handler, logger, failEpoch, faults, crashes>>

\* Record returns the new receipt.
CommitFinalize(r) ==
    /\ pc[r] \in {"record", "exit"} /\ owner[r] = "handler"
    /\ Finalize({r}, "handler") /\ Unlock({r})
    /\ Leave({r})
    /\ UNCHANGED <<clock, called, logger, failEpoch, faults, crashes>>

\* Record finds a completed journal and returns the original receipt.
AlreadyFinal(r) ==
    /\ pc[r] \in {"record", "exit"} /\ owner[r] = "nobody" /\ journal[r] = "complete"
    /\ Leave({r})
    /\ UNCHANGED <<db, clock, txs, called, logger, failEpoch, faults, crashes>>

\* Record reports an error; its transaction may have committed.  The exit
\* closure retries the recorded entry once, then the request is over.
RecordFails(r) ==
    /\ pc[r] \in {"record", "exit"} /\ Fault
    /\ \/ owner[r] # "handler" /\ UNCHANGED <<db, txs>>
       \/ owner[r] = "handler" /\ UNCHANGED db /\ Unlock({r})
       \/ owner[r] = "handler" /\ Finalize({r}, "handler") /\ Unlock({r})
    /\ failures' = [failures EXCEPT ![Home[r]] = @ + 1]
    /\ failEpoch' = [failEpoch EXCEPT ![r] = failures[Home[r]] + 1]
    /\ IF pc[r] = "record" THEN Goto(r, "exit") /\ UNCHANGED entry ELSE Leave({r})
    /\ UNCHANGED <<clock, called, healthy, observed, cutoff, worker, epoch,
                   pending, crashes>>
-----------------------------------------------------------------------------
(* The recovery worker: one per replica, every 5s.                          *)

Step(n, l) == worker' = [worker EXCEPT ![n] = l]

\* The tick is over; reconcile's locals are gone.
EndTick(n) ==
    /\ Step(n, "idle")
    /\ epoch' = [epoch EXCEPT ![n] = 0]
    /\ pending' = [pending EXCEPT ![n] = FALSE]

\* Mutant of Claimable: only intents with a started marker are recovered.
ClaimableStarted ==
    {r \in Requests : journal[r] = "pending" /\ clock[r] = "expired" /\ owner[r] = "nobody" /\ upstream[r]}

Claimable == {r \in Requests : journal[r] = "pending" /\ clock[r] = "expired" /\ owner[r] = "nobody"}
Batch(n) == {r \in Requests : owner[r] = n}

\* FOR UPDATE SKIP LOCKED, the oldest BatchLimit of them.
ReconcileClaim(n) ==
    /\ worker[n] = "idle"
    /\ \E R \in SUBSET Claimable :
        /\ Cardinality(R) <= BatchLimit
        /\ R # Claimable => Cardinality(R) = BatchLimit
        /\ Lock(R, n)
    /\ Step(n, "claimed")
    /\ UNCHANGED <<db, clock, handler, failures, healthy, observed, cutoff, epoch, pending,
                   failEpoch, faults, crashes>>

\* Mutant of ReconcileCommit: an empty batch ends the tick before the health check.
ReconcileCommitEarly(n) ==
    /\ worker[n] = "claimed"
    /\ Finalize(Batch(n), n) /\ Unlock(Batch(n))
    /\ Step(n, IF Batch(n) = {} THEN "idle" ELSE "load")
    /\ UNCHANGED <<clock, handler, failures, healthy, observed, cutoff, epoch, pending,
                   failEpoch, faults, crashes>>

ReconcileCommit(n) ==
    /\ worker[n] = "claimed"
    /\ Finalize(Batch(n), n) /\ Unlock(Batch(n))
    /\ Step(n, "load")
    /\ UNCHANGED <<clock, handler, failures, healthy, observed, cutoff, epoch, pending,
                   failEpoch, faults, crashes>>

\* Health: acknowledge the failures counted so far once every intent written
\* before a fixed checkpoint is complete.
LoadEpoch(n) ==
    /\ worker[n] = "load"
    /\ IF Ready(n)
       THEN Step(n, "idle") /\ UNCHANGED <<epoch, observed, cutoff>>
       ELSE /\ Step(n, "query")
            /\ epoch' = [epoch EXCEPT ![n] = failures[n]]
            /\ observed' = [observed EXCEPT ![n] = failures[n]]
            /\ cutoff' = [cutoff EXCEPT ![n] = IF failures[n] = observed[n] THEN @ ELSE NoCutoff]
    /\ UNCHANGED <<db, clock, txs, handler, failures, healthy, pending, failEpoch, faults, crashes>>

\* AccountingCheckpoint; a cutoff is the set of intents created up to it.
Checkpoint(n) ==
    /\ worker[n] = "query"
    /\ cutoff' = [cutoff EXCEPT ![n] =
            IF @ = NoCutoff THEN {r \in Requests : journal[r] # "none"} ELSE @]
    /\ pending' = [pending EXCEPT ![n] = \E r \in cutoff'[n] : journal[r] = "pending"]
    /\ Step(n, "ack")
    /\ UNCHANGED <<db, clock, txs, handler, failures, healthy, observed, epoch, failEpoch,
                   faults, crashes>>

\* Mutant of Acknowledge: it covers failures counted after the checkpoint.
AcknowledgeAll(n) ==
    /\ worker[n] = "ack"
    /\ healthy' = [healthy EXCEPT ![n] = IF pending[n] THEN @ ELSE failures[n]]
    /\ EndTick(n)
    /\ UNCHANGED <<db, clock, txs, handler, failures, observed, cutoff, failEpoch,
                   faults, crashes>>

Acknowledge(n) ==
    /\ worker[n] = "ack"
    /\ healthy' = [healthy EXCEPT ![n] = IF pending[n] THEN @ ELSE epoch[n]]
    /\ EndTick(n)
    /\ UNCHANGED <<db, clock, txs, handler, failures, observed, cutoff, failEpoch, faults, crashes>>

\* A failed batch rolls back whole, or has committed and lost its reply.
ReconcileFails(n) ==
    /\ worker[n] \in {"claimed", "query"} /\ Fault
    /\ UNCHANGED db \/ Finalize(Batch(n), n)
    /\ Unlock(Batch(n))
    /\ failures' = [failures EXCEPT ![n] = @ + 1]
    /\ EndTick(n)
    /\ UNCHANGED <<clock, handler, healthy, observed, cutoff, failEpoch, crashes>>

\* The process dies and is started again: requests, transactions and the
\* in-memory health state are lost.
Crash(n) ==
    LET mine == {r \in Requests : Home[r] = n} IN
    /\ crashes < MaxCrashes /\ crashes' = crashes + 1
    /\ Leave(mine)
    /\ Unlock(Batch(n) \cup {r \in mine : owner[r] = "handler"})
    /\ failures' = [failures EXCEPT ![n] = 0] /\ healthy' = [healthy EXCEPT ![n] = 0]
    /\ observed' = [observed EXCEPT ![n] = 0] /\ cutoff' = [cutoff EXCEPT ![n] = NoCutoff]
    /\ failEpoch' = [r \in Requests |-> IF r \in mine THEN 0 ELSE failEpoch[r]]
    /\ EndTick(n)
    /\ UNCHANGED <<db, clock, called, faults>>
-----------------------------------------------------------------------------
Handle(r) ==
    \/ Paused(r) \/ CheckReady(r) \/ Begin(r) \/ Conflict(r) \/ BeginFails(r)
    \/ Decline(r) \/ Abandon(r) \/ Unbudgeted(r)
    \/ Reserve(r) \/ Admitted(r) \/ AdmitFails(r)
    \/ MarkStarted(r) \/ MarkRefused(r) \/ MarkFails(r) \/ NoDeployment(r) \/ Call(r) \/ Answered(r)
    \/ OpenFinalize(r) \/ CommitFinalize(r) \/ AlreadyFinal(r) \/ RecordFails(r)

Environment(r) ==
    \/ Resend(r) \/ Deadline(r) \/ Expire(r) \/ ReserveCommits(r) \/ ReserveRollsBack(r)

Recover(n) ==
    \/ ReconcileClaim(n) \/ ReconcileCommit(n) \/ LoadEpoch(n) \/ Checkpoint(n)
    \/ Acknowledge(n) \/ ReconcileFails(n)

Next ==
    \/ \E r \in Requests : Handle(r) \/ Environment(r)
    \/ \E n \in Replicas : Recover(n) \/ Crash(n)

Spec == Init /\ [][Next]_vars

(***************************************************************************)
(* Time passes, Postgres finishes every transaction it has, and the worker *)
(* of each replica keeps ticking.  Handlers need no fairness: an intent    *)
(* must not depend on the request that wrote it.                           *)
(***************************************************************************)
FairSpec ==
    /\ Spec
    /\ \A r \in Requests :
        /\ WF_vars(Deadline(r)) /\ WF_vars(Expire(r))
        /\ WF_vars(ReserveCommits(r) \/ ReserveRollsBack(r))
        /\ WF_vars(OpenFinalize(r) \/ CommitFinalize(r) \/ RecordFails(r))
    /\ \A n \in Replicas : WF_vars(Recover(n))
-----------------------------------------------------------------------------
(***************************************************************************)
(* A journal is complete exactly when its usage row exists, and the usage  *)
(* row agrees with the settled reservation, whoever finalized and however  *)
(* often it was tried (finalizeJournal).                                   *)
(***************************************************************************)
OneReceipt ==
    \A r \in Requests :
        /\ journal[r] = "complete" <=> usage[r] # NoUsage
        /\ reserve[r] = "settled" => journal[r] = "complete" /\ usage[r].cost = settled[r]

(***************************************************************************)
(* The daily totals equal the source ledger: a reservation's estimate or   *)
(* settled cost, else the cost of the usage row (migration 0041).          *)
(***************************************************************************)
TotalsMatchLedger ==
    \A r \in Requests :
        charged[r] = CASE reserve[r] = "reserved" -> Estimate
                       [] reserve[r] = "settled" -> settled[r]
                       [] OTHER -> usage[r].cost

(***************************************************************************)
(* Work that may have reached a provider is never written off: a completed *)
(* request that was started is not "not_billable", and if it held a        *)
(* reservation it pays a reported price or the whole estimate.             *)
(***************************************************************************)
StartedWorkIsCharged ==
    \A r \in Requests \ Reads :
        (called[r] \/ upstream[r]) /\ journal[r] = "complete" =>
            /\ upstream[r] /\ usage[r].state # "not_billable"
            /\ reserve[r] # "none" =>
                \/ usage[r].state = "priced"
                \/ usage[r].state = "estimated" /\ usage[r].cost = Estimate

(***************************************************************************)
(* No intent, no provider call; and no call once the intent is final       *)
(* (markAccountingStarted before every attempt).                           *)
(***************************************************************************)
CallsAreJournaled ==
    [][\A r \in Requests : called'[r] /\ ~called[r] => upstream[r] /\ journal[r] = "pending"]_vars

(***************************************************************************)
(* Late or repeated completions cannot change a receipt or refund it.      *)
(***************************************************************************)
ReceiptsAreFinal ==
    [][\A r \in Requests :
        /\ journal[r] = "complete" => usage'[r] = usage[r] /\ journal'[r] = "complete"
        /\ reserve[r] = "settled" => reserve'[r] = "settled" /\ settled'[r] = settled[r]]_vars

(***************************************************************************)
(* A replica that failed to record a completion stays paused (Ready, and   *)
(* with it /readyz and beginAccounting) until that intent is complete.     *)
(***************************************************************************)
PausedUntilRecorded ==
    \A r \in Requests :
        failEpoch[r] > 0 /\ journal[r] = "pending" => ~Ready(Home[r])

(***************************************************************************)
(* Every intent is completed in the end, and a paused replica resumes      *)
(* (ReconcileAccounting, RunRecovery).                                     *)
(***************************************************************************)
RecoveryCompletes ==
    /\ \A r \in Requests : journal[r] = "pending" ~> journal[r] = "complete"
    /\ \A n \in Replicas : ~Ready(n) ~> Ready(n)

(***************************************************************************)
(* "Completion locks the intent and reservation and commits the usage row, *)
(* reservation settlement and completed journal state in one Postgres      *)
(* transaction" (docs/durable-accounting.md): no reservation stays open    *)
(* beside a completed intent.                                              *)
(***************************************************************************)
CompletionSettles ==
    \A r \in Requests : journal[r] = "complete" => reserve[r] # "reserved"
=============================================================================
