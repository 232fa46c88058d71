--------------------------- MODULE SettlementPipeline ---------------------------
(***************************************************************************)
(* api/src/settlement/pipeline.ts: trades that were matched wait in a      *)
(* queue, are taken in batches, and every batch is sent to the chain and   *)
(* waited for, with retries of either.  Batches do not wait for one        *)
(* another.  The chain executes the transactions of the operator in the    *)
(* order they were sent; an answer of the node, or the receipt, can be     *)
(* lost, and the transaction be executed all the same.                     *)
(***************************************************************************)
EXTENDS Integers, Sequences, FiniteSets, SequencesExt

CONSTANTS
    Trades,         \* records of the orders (maker, taker), their traders and the volume
    MaxBatchSize,
    SubmitTries,    \* 4: a call and the retries of it
    ReceiptTries,   \* 3
    MaxRequeue,     \* 3
    MaxSent,        \* bound: how many transactions are sent
    MaxRestarts     \* bound

VARIABLES
    pending,        \* pendingTrades: each with the times it was put back
    flights,        \* the runs of flushBatch that are waiting
    queued,         \* history: the trades that were ever queued
    ended,          \* history: how each trade left: confirmed, reverted, dropped or lost
    mempool,        \* transactions sent and not executed
    sent,
    settled,        \* the trades the contract has executed
    restarts
pipelineVars == <<pending, flights, queued, ended, mempool, sent, settled, restarts>>
chainVars == <<mempool, sent, settled>>

TradesOf(items) == {items[i].trade : i \in DOMAIN items}
OrdersOf(t) == {t.maker, t.taker}

PipelineInit ==
    /\ pending = <<>> /\ flights = {} /\ queued = {} /\ ended = <<>>
    /\ mempool = <<>> /\ sent = 0 /\ settled = {} /\ restarts = 0

Flight(items) == [items |-> items, phase |-> "submit", tries |-> 0, hash |-> 0,
                  receipt |-> "none"]

\* Faulty form of Taken: the queue keeps what a batch has taken.
TakenAndKept(items) ==
    /\ pending' = items
    /\ flights' = flights \union {Flight(items)}

\* flushBatch up to its first wait: it takes all there is.
Taken(items) ==
    /\ pending' = <<>>
    /\ flights' = flights \union {Flight(items)}

\* queueTrade, which flushes when the queue is long enough.
QueueTrade(t) ==
    LET items == Append(pending, [trade |-> t, requeues |-> 0])
    IN  /\ t \notin queued
        /\ queued' = queued \union {t}
        /\ IF Len(items) >= MaxBatchSize THEN Taken(items)
           ELSE pending' = items /\ UNCHANGED flights
        /\ UNCHANGED <<ended, chainVars, restarts>>

\* The interval timer.
FlushTimer ==
    /\ pending # <<>>
    /\ Taken(pending)
    /\ UNCHANGED <<queued, ended, chainVars, restarts>>

\* What the contract accepts: no trader with itself, no order twice, nor one that traded
\* before (SelfTrade, usedNonces).
Settles(trades) ==
    /\ \A t \in trades : t.makerTrader # t.takerTrader
    /\ \A t \in trades : \A o \in OrdersOf(t) : \A u \in settled : o \notin OrdersOf(u)
    /\ \A t, u \in trades : t = u \/ OrdersOf(t) \intersect OrdersOf(u) = {}

Ended(trades, how) ==
    [t \in DOMAIN ended \union trades |-> IF t \in trades THEN how ELSE ended[t]]

Becomes(f, g) == flights' = (flights \ {f}) \union {g}
Leaves(f) == flights' = flights \ {f}

\* Faulty form of PutBack: the count of an item stays.
PutBackUncounted(items) == SelectSeq(items, LAMBDA x : x.requeues < MaxRequeue)

\* The items of a failed batch that go back to the queue, of the first i in again[i].
PutBack(items) ==
    LET again[i \in 0..Len(items)] ==
            IF i = 0 THEN <<>>
            ELSE IF items[i].requeues < MaxRequeue
                 THEN Append(again[i - 1], [items[i] EXCEPT !.requeues = @ + 1])
                 ELSE again[i - 1]
    IN  again[Len(items)]

\* The catch of flushBatch.
GivesUp(f) ==
    LET again == PutBack(f.items)
        dropped == TradesOf(f.items) \ TradesOf(again)
    IN  /\ Leaves(f)
        /\ pending' = pending \o again
        /\ ended' = Ended(dropped, "dropped")

Throws(f, tries) ==
    IF f.tries + 1 < tries
    THEN Becomes(f, [f EXCEPT !.tries = @ + 1]) /\ UNCHANGED <<pending, ended>>
    ELSE GivesUp(f)

Sends(f) ==
    /\ sent < MaxSent
    /\ Settles(TradesOf(f.items))
    /\ sent' = sent + 1
    /\ mempool' = Append(mempool, [trades |-> TradesOf(f.items), hash |-> sent + 1])
    /\ UNCHANGED settled

\* submitBatch: sent, and answered with its hash.
SubmitSent(f) ==
    /\ f.phase = "submit"
    /\ Sends(f)
    /\ Becomes(f, [f EXCEPT !.phase = "receipt", !.tries = 0,
                             !.hash = sent + 1])
    /\ UNCHANGED <<pending, queued, ended, restarts>>

\* Sent, but the answer is lost: the next try sends another.
SubmitAnswerLost(f) ==
    /\ f.phase = "submit"
    /\ Sends(f)
    /\ Throws(f, SubmitTries)
    /\ UNCHANGED <<queued, restarts>>

\* Not sent: no node answers, or the estimate of its gas says that it would revert.
SubmitRefused(f) ==
    /\ f.phase = "submit"
    /\ Throws(f, SubmitTries)
    /\ UNCHANGED <<queued, chainVars, restarts>>

\* The chain executes the next transaction, or reverts it, also for want of margin.
Mine(success) ==
    /\ mempool # <<>>
    /\ LET tx == Head(mempool)
           waiting == {f \in flights : f.hash = tx.hash}
       IN  /\ success => Settles(tx.trades)
           /\ mempool' = Tail(mempool)
           /\ settled' = IF success THEN settled \union tx.trades ELSE settled
           /\ flights' = (flights \ waiting) \union
                  {[f EXCEPT !.receipt = IF success THEN "success" ELSE "reverted"] : f \in waiting}
    /\ UNCHANGED <<pending, queued, ended, sent, restarts>>

\* Faulty form of ReceiptConfirms: that there is a receipt is enough.
ReceiptArrives(f) == f.phase = "receipt" /\ f.receipt # "none"

\* The receipt says that the batch was executed.
ReceiptConfirms(f) == f.phase = "receipt" /\ f.receipt = "success"

\* What the traders of the batch are then awarded is for the module that composes.
Confirmed(f) ==
    /\ ReceiptConfirms(f)
    /\ Leaves(f)
    /\ ended' = Ended(TradesOf(f.items), "confirmed")
    /\ UNCHANGED <<pending, queued, chainVars, restarts>>

\* A batch that reverted is not tried again.
Reverted(f) ==
    /\ f.phase = "receipt" /\ f.receipt = "reverted"
    /\ Leaves(f)
    /\ ended' = Ended(TradesOf(f.items), "reverted")
    /\ UNCHANGED <<pending, queued, chainVars, restarts>>

\* No receipt in time.  After the last wait the trades are submitted again, though
\* their transaction may still be executed.
ReceiptLate(f) ==
    /\ f.phase = "receipt"
    /\ Throws(f, ReceiptTries)
    /\ UNCHANGED <<queued, chainVars, restarts>>

\* The process stops or dies, and starts again with nothing of what it held.
InFlight == UNION {TradesOf(f.items) : f \in flights}
Restart ==
    /\ restarts < MaxRestarts
    /\ restarts' = restarts + 1
    /\ ended' = Ended(TradesOf(pending) \union InFlight, "lost")
    /\ pending' = <<>> /\ flights' = {}
    /\ UNCHANGED <<queued, chainVars>>

Flies(f) == SubmitSent(f) \/ SubmitAnswerLost(f) \/ SubmitRefused(f) \/ Reverted(f) \/ ReceiptLate(f)

\* Every trade that was queued is in exactly one place: once in the queue, in one batch that
\* is being settled, or gone, whatever failures and retries there were (queueTrade, flushBatch).
TradesAccounted ==
    /\ queued = TradesOf(pending) \union InFlight \union DOMAIN ended
    /\ \A i, j \in DOMAIN pending : pending[i].trade = pending[j].trade => i = j
    /\ \A f, g \in flights : f = g \/ TradesOf(f.items) \intersect TradesOf(g.items) = {}
    /\ TradesOf(pending) \intersect InFlight = {}
    /\ DOMAIN ended \intersect (TradesOf(pending) \union InFlight) = {}
================================================================================
