--------------------------- MODULE LiquidationKeeper ---------------------------
(***************************************************************************)
(* keeper/src: the registry of open positions that tracker.ts rebuilds     *)
(* from the events of the engine, first from the log and then from four    *)
(* subscriptions, one for each kind of event; and the loop of scanner.ts   *)
(* that asks the engine which of them can be liquidated, and does it.      *)
(* A trader has one position, given by its size; half of its margin, which *)
(* is what the keeper expects to earn, grows with the size.                *)
(***************************************************************************)
EXTENDS Integers, Sequences, FiniteSets, SequencesExt, FiniteSetsExt

CONSTANTS
    Traders,
    MaxSize,
    Chunk,          \* how many events of the log a request spans
    MaxBatchSize,
    MinReward,      \* minRewardThreshold, as a size
    MaxEvents,      \* bound on the log
    MaxFailures     \* bound on the failures of the network

ASSUME KeeperAssumption == /\ MaxSize \in Nat /\ MinReward \in Nat /\ MaxFailures \in Nat
                           /\ Chunk \in Nat \ {0} /\ MaxBatchSize \in Nat \ {0}

VARIABLES
    position,       \* the sizes the engine has
    sick,           \* the traders whose position isLiquidatable
    log,            \* the events of the engine
    tracked,        \* positions of the tracker: the size last heard of
    booting,        \* sync, watch, or running
    cursor,         \* how far each subscription has delivered
    scan,           \* what the loop is doing
    verifying,      \* calls of verifyPosition that are not finished
    sentTxs,        \* transactions that are not mined, in the order of their nonces
    failures
keeperVars == <<position, sick, log, tracked, booting, cursor, scan, verifying, sentTxs, failures>>
chainVars == <<position, sick, log>>

Kinds == {"opened", "modified", "closed", "liquidated"}
KindOrder == <<"opened", "modified", "closed", "liquidated">>

Idle == [at |-> "idle", list |-> <<>>, batch |-> FALSE]

KeeperInit ==
    /\ position = [t \in Traders |-> 0] /\ sick = {} /\ log = <<>>
    /\ tracked = <<>> /\ booting = "sync" /\ cursor = [k \in Kinds |-> 0]
    /\ scan = Idle /\ verifying = {} /\ sentTxs = <<>> /\ failures = 0

-----------------------------------------------------------------------------
(* The chain *)

Logged(kind, trader, size) ==
    /\ Len(log) < MaxEvents
    /\ log' = Append(log, [kind |-> kind, trader |-> trader, size |-> size])

\* A trade of a trader, as the engine reports it.
Trades(t, size) ==
    /\ position[t] # size
    /\ position' = [position EXCEPT ![t] = size]
    /\ sick' = sick \ {t}
    /\ Logged(IF position[t] = 0 THEN "opened" ELSE IF size = 0 THEN "closed" ELSE "modified", t, size)
    /\ UNCHANGED <<tracked, booting, cursor, scan, verifying, sentTxs, failures>>

\* The price turns against positions, or for them again.
PriceMoves(group) ==
    /\ group \subseteq {t \in Traders : position[t] > 0}
    /\ group # sick
    /\ Len(log) < MaxEvents
    /\ sick' = group
    /\ log' = Append(log, [kind |-> "price", trader |-> CHOOSE t \in Traders : TRUE, size |-> 0])
    /\ UNCHANGED <<position, tracked, booting, cursor, scan, verifying, sentTxs, failures>>

\* The engine liquidates some positions whole, others in part: these need not be healthy then.
Liquidates(traders, left, well) ==
    /\ \A t \in traders : left[t] < position[t]
    /\ position' = [t \in Traders |-> IF t \in traders THEN left[t] ELSE position[t]]
    /\ sick' = sick \ {t \in traders : t \in well \/ left[t] = 0}
    /\ log' = log \o SetToSeq({[kind |-> "liquidated", trader |-> t, size |-> left[t]] :
                                t \in traders})

\* Somebody else's keeper was faster.
OtherLiquidates(t, left) ==
    /\ t \in sick
    /\ Len(log) < MaxEvents
    /\ Liquidates({t}, [u \in {t} |-> left], {})
    /\ UNCHANGED <<tracked, booting, cursor, scan, verifying, sentTxs, failures>>

-----------------------------------------------------------------------------
(* The tracker *)

Tracking(book, t, size) == [u \in DOMAIN book \union {t} |-> IF u = t THEN size ELSE book[u]]
Forgetting(book, t) == [u \in DOMAIN book \ {t} |-> book[u]]

\* handleOpened, handleModified, handleClosed, handleLiquidated: the last two forget, even
\* what was liquidated in part.
Handled(book, e) ==
    IF e.kind \in {"closed", "liquidated"} THEN Forgetting(book, e.trader)
    ELSE IF e.size = 0 THEN Forgetting(book, e.trader) ELSE Tracking(book, e.trader, e.size)

OfKind(events, kind) == SelectSeq(events, LAMBDA e : e.kind = kind)

\* The requests of syncFromEvents: chunk after chunk, and in each one kind after the other.
Requests ==
    LET chunks == (Len(log) + Chunk - 1) \div Chunk
        Part(i) == SubSeq(log, (i - 1) * Chunk + 1, Min({i * Chunk, Len(log)}))
    IN  [r \in 1..4 * chunks |-> OfKind(Part((r + 3) \div 4), KindOrder[((r - 1) % 4) + 1])]

\* The registry after some of them.
Synced(answered) ==
    FoldLeft(LAMBDA b, events : FoldLeft(Handled, b, events), <<>>, SubSeq(Requests, 1, answered))

\* syncFromEvents: one that fails keeps what it has, and nothing repeats it.
Sync ==
    /\ booting = "sync"
    /\ booting' = "watch"
    /\ \/ tracked' = Synced(Len(Requests)) /\ UNCHANGED failures
       \/ /\ failures < MaxFailures
          /\ failures' = failures + 1
          /\ \E answered \in 0..Len(Requests) - 1 : tracked' = Synced(answered)
    /\ UNCHANGED <<chainVars, cursor, scan, verifying, sentTxs>>

\* watchEvents: from the block that is the last by then.
WatchEvents ==
    /\ booting = "watch"
    /\ booting' = "running"
    /\ cursor' = [k \in Kinds |-> Len(log)]
    /\ UNCHANGED <<chainVars, tracked, scan, verifying, sentTxs, failures>>

\* One subscription delivers what came since it last did.
Deliver(kind) ==
    LET events == OfKind(SubSeq(log, cursor[kind] + 1, Len(log)), kind)
    IN  /\ booting = "running"
        /\ events # <<>>
        /\ tracked' = FoldLeft(Handled, tracked, events)
        /\ cursor' = [cursor EXCEPT ![kind] = Len(log)]
        /\ UNCHANGED <<chainVars, booting, scan, verifying, sentTxs, failures>>

\* verifyPosition, which nobody waits for: the node reads the position ...
Read(v) ==
    /\ v.size = -1
    /\ verifying' = (verifying \ {v}) \union {[v EXCEPT !.size = position[v.trader]]}
    /\ UNCHANGED <<chainVars, tracked, booting, cursor, scan, sentTxs, failures>>

\* ... and its answer replaces what is known, whatever events came in between.
Noted(v) ==
    /\ v.size # -1
    /\ verifying' = verifying \ {v}
    /\ tracked' = IF v.size = 0 THEN Forgetting(tracked, v.trader)
                  ELSE Tracking(tracked, v.trader, v.size)
    /\ UNCHANGED <<chainVars, booting, cursor, scan, sentTxs, failures>>

\* A call that fails is a rejection nobody handles: the process ends, and is started again.
VerifyFails(v) ==
    /\ failures < MaxFailures
    /\ failures' = failures + 1
    /\ tracked' = <<>> /\ booting' = "sync" /\ scan' = Idle /\ verifying' = {}
    /\ cursor' = [k \in Kinds |-> 0]
    /\ UNCHANGED <<chainVars, sentTxs>>

-----------------------------------------------------------------------------
(* The scanner *)

\* scan, the filter and the cap of the loop: those worth it, the largest first.
Candidates ==
    LET found == {t \in DOMAIN tracked : t \in sick /\ tracked[t] >= MinReward}
        order == SetToSortSeq(found, LAMBDA s, t : tracked[s] > tracked[t])
    IN  SubSeq(order, 1, Min({MaxBatchSize, Len(order)}))

Goes(at, list, batch) == scan' = [at |-> at, list |-> list, batch |-> batch]

\* A turn of the loop: one candidate is liquidated alone, several in a batch.
Scan ==
    /\ booting = "running"
    /\ scan.at = "idle"
    /\ Candidates # <<>>
    /\ Goes("try", Candidates, Len(Candidates) > 1)
    /\ UNCHANGED <<chainVars, tracked, booting, cursor, verifying, sentTxs, failures>>

\* The traders the transaction under way is for.
Targets == IF scan.batch THEN Range(scan.list) ELSE {Head(scan.list)}

\* The loop goes on with the next one to be liquidated alone, if there is one.
GoesOn == IF ~scan.batch /\ Len(scan.list) > 1 THEN Goes("try", Tail(scan.list), FALSE)
          ELSE scan' = Idle

\* After a failed batch its members are tried one by one; a failed single is left to a later scan.
GoesOnAfterFailure == IF scan.batch THEN Goes("try", scan.list, FALSE) ELSE GoesOn

\* Simulated and sent: a batch passes in any case, a single liquidation only if it would work.
Submit ==
    /\ scan.at = "try"
    /\ scan.batch \/ Head(scan.list) \in sick
    /\ Goes("wait", scan.list, scan.batch)
    /\ sentTxs' = Append(sentTxs, Targets)
    /\ UNCHANGED <<chainVars, tracked, booting, cursor, verifying, failures>>

SubmitFails ==
    /\ scan.at = "try"
    /\ \/ ~scan.batch /\ Head(scan.list) \notin sick /\ UNCHANGED failures
       \/ failures < MaxFailures /\ failures' = failures + 1
    /\ GoesOnAfterFailure
    /\ UNCHANGED <<chainVars, tracked, booting, cursor, verifying, sentTxs>>

\* Faulty form of TimesOut: the wait for a receipt has no limit.
NeverTimesOut == FALSE

\* waitForTransactionReceipt with a timeout: of a transaction that is lost, or takes too long.
TimesOut == sentTxs = <<>> \/ failures < MaxFailures

WaitFails ==
    /\ scan.at = "wait"
    /\ TimesOut
    /\ failures' = IF sentTxs = <<>> THEN failures ELSE failures + 1
    /\ GoesOnAfterFailure
    /\ UNCHANGED <<chainVars, tracked, booting, cursor, verifying, sentTxs>>

\* The chain executes a transaction, for those it names that are liquidatable then; or it reverts
\* for some of them, for all when the Liquidator is paused since.  If the loop waits for it (it is
\* the last one sent) it has the positions verified, and goes on, reverted or not.
Execute ==
    /\ sentTxs # <<>>
    /\ LET hit == Head(sentTxs) \intersect sick
       IN  \E done \in SUBSET hit :
              /\ failures' = IF done = hit THEN failures ELSE failures + 1
              /\ failures' <= MaxFailures
              /\ \E left \in [done -> 0..MaxSize], well \in SUBSET done : Liquidates(done, left, well)
    /\ sentTxs' = Tail(sentTxs)
    /\ IF scan.at = "wait" /\ Len(sentTxs) = 1
       THEN /\ verifying' = verifying \union {[trader |-> t, size |-> -1] : t \in Head(sentTxs)}
            /\ GoesOn
       ELSE UNCHANGED <<scan, verifying>>
    /\ UNCHANGED <<tracked, booting, cursor>>

\* A transaction is lost: its fee was too low, or a node forgot it.
Drop ==
    /\ sentTxs # <<>>
    /\ failures < MaxFailures
    /\ failures' = failures + 1
    /\ sentTxs' = Tail(sentTxs)
    /\ UNCHANGED <<chainVars, tracked, booting, cursor, scan, verifying>>

LoopStep == Scan \/ Submit \/ SubmitFails \/ WaitFails
Answers == \E v \in verifying : Read(v) \/ Noted(v)

KeeperNext ==
    \/ \E t \in Traders, size \in 0..MaxSize : Trades(t, size) \/ OtherLiquidates(t, size)
    \/ \E group \in SUBSET Traders : PriceMoves(group)
    \/ Sync \/ WatchEvents
    \/ \E kind \in Kinds : Deliver(kind)
    \/ LoopStep \/ Execute \/ Drop
    \/ Answers
    \/ \E v \in verifying : VerifyFails(v)

-----------------------------------------------------------------------------
\* A position the tracker knows, that can be liquidated and is worth the reward.
Due(t) == booting = "running" /\ t \in DOMAIN tracked /\ tracked[t] >= MinReward /\ t \in sick

\* scanner.ts: a position that is due does not stay so for ever: whatever transactions are
\* lost, late or refused and whoever else liquidates, the loop gets to it, unless the tracker
\* is told first that the position is gone.
LiquidatedInTheEnd == \A t \in Traders : Due(t) ~> ~Due(t)
================================================================================
