------------------------ MODULE TimelockRouterProofs ------------------------
(***************************************************************************)
(* The two contracts that decide what may change in the others, and how      *)
(* fast: the timelock keeps its promises whatever its accounts, targets,     *)
(* delays and bounds are, and the OracleRouter whatever its markets are and  *)
(* the prices, limits and counts that the keeper and the owner give it.      *)
(***************************************************************************)
EXTENDS SurTimelock, OracleKeeper, SumTheorems

(***************************************************************************)
(* The inductive invariant.  A transaction enters the queue with an eta in    *)
(* the future and is executed no earlier than its eta, so what has been       *)
(* executed lies in the past and can never be queued again; and an eta        *)
(* remembers, within the range of the delays, when it was announced.         *)
(***************************************************************************)
ExecutedIsPast == \A tx \in executed : tx.eta <= now

EtasHonest ==
    \A tx \in queuedTxs :
        /\ tx.eta >= announced[tx] + MinDelay
        /\ tx.eta <= announced[tx] + MaxDelay

Inv == TypeOK /\ ExecutedIsPast /\ EtasHonest /\ NeverTwice

\* A freshly deployed timelock satisfies the invariant.
LEMMA InitInv == Init => Inv
<1> SUFFICES ASSUME Init PROVE Inv
    OBVIOUS
<1>1. queuedTxs = {} /\ executed = {} /\ announced = [t \in queuedTxs |-> now] /\ now \in Nat
    BY TimelockAssumption DEF Init
<1>2. announced \in [queuedTxs -> Nat]
    BY <1>1
<1>3. TypeOK
    BY <1>1, <1>2, TimelockAssumption DEF Init, TypeOK
<1> QED
    BY <1>1, <1>3 DEF Inv, ExecutedIsPast, EtasHonest, NeverTwice

\* What leaves the queue takes nothing from what is known of the rest.
LEMMA DequeuedInv ==
    ASSUME TypeOK, EtasHonest, NEW tx \in queuedTxs, Dequeued(tx)
    PROVE  /\ queuedTxs' \subseteq Txs
           /\ announced' \in [queuedTxs' -> Nat]
           /\ EtasHonest'
<1>1. queuedTxs' = queuedTxs \ {tx}
    BY DEF Dequeued
<1>2. announced' = [t \in queuedTxs \ {tx} |-> announced[t]]
    BY DEF Dequeued
<1>3. announced' \in [queuedTxs' -> Nat]
    BY <1>1, <1>2 DEF TypeOK
<1>4. \A t \in queuedTxs' : t \in queuedTxs /\ announced'[t] = announced[t]
    BY <1>1, <1>2
<1>5. EtasHonest'
    BY <1>4 DEF EtasHonest
<1> QED
    BY <1>1, <1>3, <1>5 DEF TypeOK

\* Queueing: the new eta lies in the future, at a distance the delay allows.
LEMMA QueueInv ==
    ASSUME Inv, NEW sender \in Accounts, NEW call \in Calls, QueueTransaction(sender, call)
    PROVE  Inv'
<1> DEFINE tx == [call |-> call, eta |-> now + delay]
<1>1. /\ queuedTxs' = queuedTxs \union {tx}
      /\ announced' = [t \in queuedTxs \union {tx} |-> IF t = tx THEN now ELSE announced[t]]
      /\ tx \notin queuedTxs
      /\ UNCHANGED <<now, owner, guardian, delay, pausableTargets, setupComplete,
                     pausedTargets, executed>>
    BY DEF QueueTransaction, Eta, selfVars
<1>2. now \in Nat /\ delay \in Nat /\ delay >= MinDelay /\ delay <= MaxDelay /\ MinDelay > 0
      /\ MinDelay \in Nat /\ MaxDelay \in Nat
    BY TimelockAssumption DEF Inv, TypeOK
<1>3. tx \in Txs /\ tx.eta = now + delay
    BY <1>2 DEF Txs
<1> HIDE DEF tx
<1>4. announced' \in [queuedTxs' -> Nat]
    BY <1>1, <1>2 DEF Inv, TypeOK
<1>5. TypeOK'
    BY <1>1, <1>3, <1>4 DEF Inv, TypeOK
<1>6. ExecutedIsPast'
    BY <1>1 DEF Inv, ExecutedIsPast
<1>7. EtasHonest'
    <2> SUFFICES ASSUME NEW t \in queuedTxs'
                 PROVE  t.eta >= announced'[t] + MinDelay /\ t.eta <= announced'[t] + MaxDelay
        BY DEF EtasHonest
    <2>1. CASE t = tx
        BY <2>1, <1>1, <1>2, <1>3
    <2>2. CASE t # tx
        <3>1. t \in queuedTxs /\ announced'[t] = announced[t]
            BY <2>2, <1>1
        <3> QED
            BY <3>1 DEF Inv, EtasHonest
    <2> QED
        BY <2>1, <2>2
<1>8. tx \notin executed
    <2>1. tx.eta > now
        BY <1>2, <1>3
    <2>2. \A t \in executed : t.eta <= now
        BY DEF Inv, ExecutedIsPast
    <2> QED
        BY <2>1, <2>2, <1>2, <1>3
<1>9. NeverTwice'
    BY <1>1, <1>8 DEF Inv, NeverTwice
<1> QED
    BY <1>5, <1>6, <1>7, <1>9 DEF Inv

\* Cancelling.
LEMMA CancelInv ==
    ASSUME Inv, NEW sender \in Accounts, NEW tx \in queuedTxs, CancelTransaction(sender, tx)
    PROVE  Inv'
<1>1. /\ Dequeued(tx)
      /\ UNCHANGED <<now, owner, guardian, delay, pausableTargets, setupComplete,
                     pausedTargets, executed>>
    BY DEF CancelTransaction, selfVars
<1>2. queuedTxs' \subseteq Txs /\ announced' \in [queuedTxs' -> Nat] /\ EtasHonest'
    BY <1>1, DequeuedInv DEF Inv
<1>3. TypeOK'
    BY <1>1, <1>2 DEF Inv, TypeOK
<1>4. ExecutedIsPast' /\ NeverTwice'
    BY <1>1 DEF Inv, ExecutedIsPast, NeverTwice, Dequeued
<1> QED
    BY <1>2, <1>3, <1>4 DEF Inv

\* What a call that the timelock makes can do to the timelock and its targets.
LEMMA CalledTypes ==
    ASSUME TypeOK, NEW call \in Calls, Called(call)
    PROVE  /\ owner' \in Accounts
           /\ guardian' \in Accounts
           /\ delay' \in Nat /\ delay' >= MinDelay /\ delay' <= MaxDelay
           /\ pausableTargets' \subseteq Targets
           /\ pausedTargets' \subseteq Targets
<1>1. CASE call.fn = "setDelay" /\ SetDelay(call.arg)
    <2>1. call.arg \in Nat
        BY <1>1, TimelockAssumption DEF Calls
    <2> QED
        BY <1>1, <2>1 DEF TypeOK, SetDelay, DelayAllowed
<1>2. CASE call.fn = "transferOwnership" /\ TransferOwnership(call.arg)
    BY <1>2 DEF TypeOK, TransferOwnership, Calls
<1>3. CASE call.fn = "setGuardian" /\ SetGuardian(call.arg)
    BY <1>3 DEF TypeOK, SetGuardian, Calls
<1>4. CASE call.fn = "registerTarget" /\ SetPausableTarget(call.arg, TRUE)
    BY <1>4 DEF TypeOK, SetPausableTarget, Calls
<1>5. CASE call.fn = "removeTarget" /\ SetPausableTarget(call.arg, FALSE)
    BY <1>5 DEF TypeOK, SetPausableTarget, Calls
<1>6. CASE call.fn = "pause" /\ PauseTarget(call.arg)
    BY <1>6 DEF TypeOK, PauseTarget, Calls, selfVars
<1>7. CASE call.fn = "unpause" /\ UnpauseTarget(call.arg)
    BY <1>7 DEF TypeOK, UnpauseTarget, Calls, selfVars
<1> QED
    BY <1>1, <1>2, <1>3, <1>4, <1>5, <1>6, <1>7 DEF Called

\* Executing: the transaction goes from the queue to the past.
LEMMA ExecuteInv ==
    ASSUME Inv, NEW sender \in Accounts, NEW tx \in queuedTxs, ExecuteTransaction(sender, tx)
    PROVE  Inv'
<1>1. /\ Called(tx.call)
      /\ Dequeued(tx)
      /\ now >= tx.eta
      /\ executed' = executed \union {tx}
      /\ UNCHANGED <<now, setupComplete>>
    BY DEF ExecuteTransaction, Executable
<1>2. tx \in Txs /\ tx.call \in Calls /\ tx.eta \in Nat /\ now \in Nat
    BY DEF Inv, TypeOK, Txs
<1>3. queuedTxs' \subseteq Txs /\ announced' \in [queuedTxs' -> Nat] /\ EtasHonest'
    BY <1>1, DequeuedInv DEF Inv
<1>4. TypeOK'
    <2>1. /\ owner' \in Accounts
          /\ guardian' \in Accounts
          /\ delay' \in Nat /\ delay' >= MinDelay /\ delay' <= MaxDelay
          /\ pausableTargets' \subseteq Targets
          /\ pausedTargets' \subseteq Targets
        BY <1>1, <1>2, CalledTypes DEF Inv
    <2> QED
        BY <1>1, <1>2, <1>3, <2>1 DEF Inv, TypeOK
<1>5. ExecutedIsPast'
    BY <1>1, <1>2 DEF Inv, ExecutedIsPast
<1>6. NeverTwice'
    BY <1>1 DEF Inv, NeverTwice, Dequeued
<1> QED
    BY <1>3, <1>4, <1>5, <1>6 DEF Inv

\* Steps that leave the queue and the histories alone, and do not turn back time.
LEMMA QuietInv ==
    ASSUME Inv, UNCHANGED <<queuedTxs, announced, executed>>, TypeOK',
           now' \in Nat, now' >= now
    PROVE  Inv'
<1>1. \A tx \in executed : tx.eta \in Nat
    BY DEF Inv, TypeOK, Txs
<1> QED
    BY <1>1 DEF Inv, TypeOK, ExecutedIsPast, EtasHonest, NeverTwice

\* Every step keeps the invariant: one case per operation.
LEMMA NextInv == Inv /\ [Next]_vars => Inv'
<1> SUFFICES ASSUME Inv, [Next]_vars PROVE Inv'
    OBVIOUS
<1>1. ASSUME NEW sender \in Accounts, OwnerStep(sender) PROVE Inv'
    <2>1. ASSUME NEW call \in Calls, QueueTransaction(sender, call) PROVE Inv'
        BY <2>1, QueueInv
    <2>2. ASSUME NEW tx \in queuedTxs, CancelTransaction(sender, tx) PROVE Inv'
        BY <2>2, CancelInv
    <2>3. ASSUME NEW tx \in queuedTxs, ExecuteTransaction(sender, tx) PROVE Inv'
        BY <2>3, ExecuteInv
    <2>4. ASSUME NEW targets \in SUBSET Targets, BatchSetPausableTargets(sender, targets)
          PROVE  Inv'
        <3>1. TypeOK' /\ now' = now /\ now \in Nat
            BY <2>4 DEF Inv, TypeOK, BatchSetPausableTargets, histories
        <3>2. UNCHANGED <<queuedTxs, announced, executed>>
            BY <2>4 DEF BatchSetPausableTargets, histories
        <3> QED
            BY <3>1, <3>2, QuietInv
    <2>5. CASE CompleteSetup(sender)
        <3>1. TypeOK' /\ now' = now /\ now \in Nat
            BY <2>5 DEF Inv, TypeOK, CompleteSetup, histories, selfVars
        <3>2. UNCHANGED <<queuedTxs, announced, executed>>
            BY <2>5 DEF CompleteSetup, histories
        <3> QED
            BY <3>1, <3>2, QuietInv
    <2> QED
        BY <1>1, <2>1, <2>2, <2>3, <2>4, <2>5 DEF OwnerStep
<1>2. ASSUME NEW sender \in Accounts, NEW target \in Targets, EmergencyPause(sender, target)
      PROVE  Inv'
    <2>1. TypeOK' /\ now' = now /\ now \in Nat
        BY <1>2 DEF Inv, TypeOK, EmergencyPause, histories, selfVars
    <2>2. UNCHANGED <<queuedTxs, announced, executed>>
        BY <1>2 DEF EmergencyPause, histories
    <2> QED
        BY <2>1, <2>2, QuietInv
<1>3. CASE Tick
    <2>1. TypeOK' /\ now' \in Nat /\ now' >= now
        BY <1>3 DEF Inv, TypeOK, Tick, histories, selfVars
    <2>2. UNCHANGED <<queuedTxs, announced, executed>>
        BY <1>3 DEF Tick, histories
    <2> QED
        BY <2>1, <2>2, QuietInv
<1>4. CASE UNCHANGED vars
    <2>1. TypeOK' /\ now' = now /\ now \in Nat
        BY <1>4 DEF Inv, TypeOK, vars, histories, selfVars
    <2>2. UNCHANGED <<queuedTxs, announced, executed>>
        BY <1>4 DEF vars, histories
    <2> QED
        BY <2>1, <2>2, QuietInv
<1> QED
    BY <1>1, <1>2, <1>3, <1>4 DEF Next

\* The inductive invariant holds in every reachable state.
THEOREM Invariance == Spec => []Inv
<1>1. Init => Inv
    BY InitInv
<1>2. Inv /\ [Next]_vars => Inv'
    BY NextInv
<1> QED
    BY <1>1, <1>2, PTL DEF Spec

\* The delay stays within its range, and the rest of the state keeps its type.
THEOREM TypeCorrect == Spec => []TypeOK
<1>1. Inv => TypeOK
    BY DEF Inv
<1> QED
    BY <1>1, Invariance, PTL

\* No transaction is ever executed twice.
THEOREM ExecutedOnce == Spec => []NeverTwice
<1>1. Inv => NeverTwice
    BY DEF Inv
<1> QED
    BY <1>1, Invariance, PTL

-----------------------------------------------------------------------------
\* What steps other than an execution leave alone.
LEMMA OnlyExecutionGoverns ==
    ASSUME Inv, [Next]_vars,
           ~ \E sender \in Accounts : \E tx \in queuedTxs : ExecuteTransaction(sender, tx)
    PROVE  /\ UNCHANGED <<owner, guardian, delay, executed>>
           /\ pausedTargets \subseteq pausedTargets'
           /\ setupComplete => pausableTargets' = pausableTargets
           /\ pausedTargets' # pausedTargets
                  => \E t \in pausableTargets : pausedTargets' = pausedTargets \union {t}
<1>1. ASSUME NEW sender \in Accounts, NEW call \in Calls, QueueTransaction(sender, call)
      PROVE  UNCHANGED <<owner, guardian, delay, executed, pausedTargets, pausableTargets>>
    BY <1>1 DEF QueueTransaction, selfVars
<1>2. ASSUME NEW sender \in Accounts, NEW tx \in queuedTxs, CancelTransaction(sender, tx)
      PROVE  UNCHANGED <<owner, guardian, delay, executed, pausedTargets, pausableTargets>>
    BY <1>2 DEF CancelTransaction, selfVars
<1>3. ASSUME NEW sender \in Accounts, NEW targets \in SUBSET Targets,
             BatchSetPausableTargets(sender, targets)
      PROVE  UNCHANGED <<owner, guardian, delay, executed, pausedTargets>> /\ ~setupComplete
    BY <1>3 DEF BatchSetPausableTargets, SetupOpen, histories
<1>4. ASSUME NEW sender \in Accounts, CompleteSetup(sender)
      PROVE  UNCHANGED <<owner, guardian, delay, executed, pausedTargets, pausableTargets>>
    BY <1>4 DEF CompleteSetup, selfVars, histories
<1>5. ASSUME NEW sender \in Accounts, NEW target \in Targets, EmergencyPause(sender, target)
      PROVE  /\ UNCHANGED <<owner, guardian, delay, executed, pausableTargets>>
             /\ target \in pausableTargets
             /\ pausedTargets' = pausedTargets \union {target}
    BY <1>5 DEF EmergencyPause, MayPause, selfVars, histories
<1>6. CASE Tick \/ UNCHANGED vars
    BY <1>6 DEF Tick, vars, selfVars, histories
<1> QED
    BY <1>1, <1>2, <1>3, <1>4, <1>5, <1>6 DEF Next, OwnerStep

\* What is executed was announced at least MinDelay before, and not too long before.
LEMMA ExecutionsAnnounced ==
    ASSUME Inv, NEW sender \in Accounts, NEW tx \in queuedTxs, ExecuteTransaction(sender, tx)
    PROVE  DulyAnnounced(tx) /\ tx \in executed' /\ executed' # executed
<1>1. now >= tx.eta /\ now <= tx.eta + GracePeriod /\ executed' = executed \union {tx}
    BY DEF ExecuteTransaction, Executable
<1>2. tx.eta >= announced[tx] + MinDelay /\ tx.eta <= announced[tx] + MaxDelay
    BY DEF Inv, EtasHonest
<1>3. tx.eta \in Nat /\ now \in Nat /\ announced[tx] \in Nat
    BY DEF Inv, TypeOK, Txs
<1>4. MinDelay \in Nat /\ MaxDelay \in Nat /\ GracePeriod \in Nat
    BY TimelockAssumption
<1>5. tx \notin executed
    BY DEF Inv, NeverTwice
<1>6. DulyAnnounced(tx)
    BY <1>1, <1>2, <1>3, <1>4 DEF DulyAnnounced
<1> QED
    BY <1>1, <1>5, <1>6

\* Whoever owns it, the timelock changes nothing it governs but by a transaction announced
\* at least MinDelay before.
THEOREM Announced == Spec => ChangesAreAnnounced
<1>1. Inv /\ [Next]_vars =>
          [ (\/ owner' # owner \/ guardian' # guardian \/ delay' # delay
             \/ ~(pausedTargets \subseteq pausedTargets')
             \/ setupComplete /\ pausableTargets' # pausableTargets)
                => \E tx \in queuedTxs : DulyAnnounced(tx) /\ tx \in executed' ]_vars
    BY OnlyExecutionGoverns, ExecutionsAnnounced
<1> QED
    BY <1>1, Invariance, PTL DEF Spec, ChangesAreAnnounced

\* The guardian can pause registered targets, and do nothing else to them.
THEOREM GuardianLimited == Spec => GuardianOnlyPauses
<1>1. Inv /\ [Next]_vars =>
          [ (executed' = executed /\ pausedTargets' # pausedTargets)
                => \E t \in pausableTargets : pausedTargets' = pausedTargets \union {t} ]_vars
    BY OnlyExecutionGoverns, ExecutionsAnnounced
<1> QED
    BY <1>1, Invariance, PTL DEF Spec, GuardianOnlyPauses

-----------------------------------------------------------------------------
(* The prices of the router *)

\* What the sources, the updates under way and the router hold.
OracleTyped ==
    /\ hermes \in [FedMarkets -> Nat]
    /\ chainlink \in [FedMarkets -> Nat]
    /\ router \in [lastPrice : [FedMarkets -> Nat], breaker : BOOLEAN, good : Nat]
    /\ pushes \in Seq([FedMarkets -> Nat])

Routers == [lastPrice : [FedMarkets -> Nat], breaker : BOOLEAN, good : Nat]

\* A price is no distance from itself.
LEMMA NoDeviation ==
    ASSUME NEW a \in Nat, a # 0
    PROVE  Deviation(a, a) = 0
<1>1. (a - a) * BasisPoints = 0
    BY OracleAssumption
<1>2. (a + a) \div 2 = a
    OBVIOUS
<1>3. 0 \div a = 0
    OBVIOUS
<1> QED
    BY <1>1, <1>2, <1>3 DEF Deviation

\* The price a may follow the price b: b is none, or they are as near as is allowed.
Near(a, b) == b # 0 => Deviation(a, b) <= MaxPriceChangeBps

LEMMA NearItself ==
    ASSUME NEW a \in Nat
    PROVE  Near(a, a)
BY NoDeviation, OracleAssumption DEF Near

\* One price pushed: it is near the last one, and the other markets keep theirs.
LEMMA PushedSound ==
    ASSUME NEW r \in Routers, NEW m \in FedMarkets, NEW price \in Nat
    PROVE  /\ Pushed(r, m, price) \in Routers
           /\ Near(Pushed(r, m, price).lastPrice[m], r.lastPrice[m])
           /\ \A k \in FedMarkets \ {m} : Pushed(r, m, price).lastPrice[k] = r.lastPrice[k]
<1>1. r.lastPrice \in [FedMarkets -> Nat] /\ r.breaker \in BOOLEAN /\ r.good \in Nat
    BY DEF Routers
<1>2. CASE Jumps(r.lastPrice[m], price)
    <2>1. Pushed(r, m, price) = [r EXCEPT !.breaker = TRUE, !.good = 0]
        BY <1>2 DEF Pushed
    <2>2. Pushed(r, m, price).lastPrice = r.lastPrice /\ Pushed(r, m, price) \in Routers
        <3>1. [r EXCEPT !.breaker = TRUE, !.good = 0].lastPrice = r.lastPrice
            BY DEF Routers
        <3>2. [r EXCEPT !.breaker = TRUE, !.good = 0] \in Routers
            BY ZenonT(30) DEF Routers
        <3> QED
            BY <2>1, <3>1, <3>2
    <2>3. r.lastPrice[m] \in Nat
        BY <1>1
    <2> QED
        BY <2>2, <2>3, NearItself
<1>3. CASE ~Jumps(r.lastPrice[m], price)
    <2> DEFINE g == IF r.breaker /\ r.good < RequiredGoodPrices THEN r.good + 1 ELSE r.good
    <2>1. Pushed(r, m, price) = [r EXCEPT !.lastPrice[m] = price, !.good = g]
        BY <1>3 DEF Pushed
    <2>2. g \in Nat
        BY <1>1
    <2> HIDE DEF g
    <2>3. /\ Pushed(r, m, price) \in Routers
          /\ Pushed(r, m, price).lastPrice = [r.lastPrice EXCEPT ![m] = price]
        BY <2>1, <2>2, <1>1 DEF Routers
    <2>4. Near(price, r.lastPrice[m])
        <3>1. r.lastPrice[m] \in Nat
            BY <1>1
        <3>2. r.lastPrice[m] # 0
                => ~(Deviation(price, r.lastPrice[m]) > MaxPriceChangeBps)
            BY <3>1, <1>3, OracleAssumption DEF Jumps
        <3>3. r.lastPrice[m] # 0 => Deviation(price, r.lastPrice[m]) \in Int
            <4> DEFINE b == r.lastPrice[m]
                       d == IF price > b THEN price - b ELSE b - price
            <4>1. d * BasisPoints \in Nat
                <5>1. d \in Nat
                    BY <3>1
                <5> HIDE DEF d
                <5> QED
                    BY <5>1, OracleAssumption
            <4>2. b # 0 /\ price # 0 => (price + b) \div 2 \in Nat \ {0}
                <5> SUFFICES ASSUME NEW x \in Nat \ {0}, NEW y \in Nat \ {0}
                             PROVE  (x + y) \div 2 \in Nat \ {0}
                    BY <3>1
                <5> QED
                    OBVIOUS
            <4>3. b # 0 /\ price # 0 => (d * BasisPoints) \div ((price + b) \div 2) \in Int
                <5> DEFINE x == d * BasisPoints
                           y == (price + b) \div 2
                <5>1. x \in Nat /\ (b # 0 /\ price # 0 => y \in Nat \ {0})
                    BY <4>1, <4>2
                <5> HIDE DEF x, y
                <5> QED
                    BY <5>1 DEF x, y
            <4>4. BasisPoints \in Int
                BY OracleAssumption
            <4> QED
                BY <4>3, <4>4 DEF Deviation
        <3> QED
            BY <3>2, <3>3, OracleAssumption DEF Near
    <2> QED
        BY <2>3, <2>4, <1>1
<1> QED
    BY <1>2, <1>3

\* The step of a batch for one market, and the fold of those steps.
BatchStep(r, m, pyth) == IF InBatch(m) THEN Pushed(r, m, Marked(m, pyth)) ELSE r

BatchFrom(h, pyth) ==
    h = [s \in SUBSET (DOMAIN MarketIds) |->
            IF s = {} THEN router
            ELSE BatchStep(h[s \ {Max(s)}], MarketIds[Max(s)], pyth)]

LEMMA BatchStepSound ==
    ASSUME OracleTyped, NEW pyth \in [FedMarkets -> Nat],
           NEW r \in Routers, NEW m \in FedMarkets
    PROVE  /\ BatchStep(r, m, pyth) \in Routers
           /\ Near(BatchStep(r, m, pyth).lastPrice[m], r.lastPrice[m])
           /\ \A k \in FedMarkets \ {m} : BatchStep(r, m, pyth).lastPrice[k] = r.lastPrice[k]
<1>1. Marked(m, pyth) \in Nat
    BY DEF Marked, OracleTyped
<1>2. CASE InBatch(m)
    BY <1>1, <1>2, PushedSound DEF BatchStep
<1>3. CASE ~InBatch(m)
    <2>1. r.lastPrice[m] \in Nat
        BY DEF Routers
    <2> QED
        BY <1>3, <2>1, NearItself DEF BatchStep
<1> QED
    BY <1>2, <1>3

\* A whole batch: every market is pushed at most once, so none moves further than a push does.
LEMMA BatchSound ==
    ASSUME OracleTyped, NEW pyth \in [FedMarkets -> Nat]
    PROVE  /\ Batch(pyth) \in Routers
           /\ \A m \in FedMarkets : Near(Batch(pyth).lastPrice[m], router.lastPrice[m])
<1> DEFINE s == MarketIds
           T == FedMarkets
           W == Routers
           k == CHOOSE h : BatchFrom(h, pyth)
           G == [p \in W \X T |-> BatchStep(p[1], p[2], pyth)]
           n == Len(s)
<1>1. Batch(pyth) = k[DOMAIN s]
    BY DEF Batch, FoldLeft, MapThenFoldSet, BatchFrom, BatchStep
<1>2. n \in Nat /\ DOMAIN s = 1..n /\ s \in [1..n -> T]
    BY OracleAssumption DEF FedMarkets
<1>3. router \in W
    BY DEF OracleTyped, Routers
<1>4. G \in [W \X T -> W]
    BY BatchStepSound
<1>5. \A r \in W : \A m \in T : BatchStep(r, m, pyth) \in W /\ G[<<r, m>>] = BatchStep(r, m, pyth)
    BY BatchStepSound
<1>6. \A i, j \in 1..n : i # j => s[i] # s[j]
    BY <1>2, OracleAssumption DEF IsInjective
<1>7. \A m \in T : \E i \in 1..n : s[i] = m
    BY <1>2 DEF FedMarkets, Range
<1> HIDE DEF s, T, W, k, G, n
<1>8. BatchFrom(k, pyth)
    <2>1. PICK h : FoldOf(h, G, router, s, n, W)
        <3>1. Foldable(G, router, s, n, W)
            BY <1>2, <1>3, <1>4, FoldExists
        <3> QED
            BY <3>1 DEF Foldable
    <2>2. ASSUME NEW r \in SUBSET (1..n), r # {}
          PROVE  G[<<h[r \ {Highest(r)}], s[Highest(r)]>>] = BatchStep(h[r \ {Max(r)}], s[Max(r)], pyth)
        <3>1. Highest(r) = Max(r)
            BY DEF Highest, Max
        <3>2. Highest(r) \in 1..n /\ r \ {Highest(r)} \in SUBSET (1..n)
            BY <1>2, <2>2, HighestIn
        <3>3. h[r \ {Highest(r)}] \in W /\ s[Highest(r)] \in T
            BY <1>2, <2>1, <3>2 DEF FoldOf
        <3> QED
            BY <1>5, <3>1, <3>3
    <2>3. BatchFrom(h, pyth)
        BY <1>2, <2>1, <2>2 DEF BatchFrom, FoldOf, Folds, s
    <2> QED
        BY <2>3 DEF k
<1> DEFINE Done(i) ==
        /\ k[1..i] \in W
        /\ \A j \in 1..i : Near(k[1..i].lastPrice[s[j]], router.lastPrice[s[j]])
        /\ \A j \in (i + 1)..n : k[1..i].lastPrice[s[j]] = router.lastPrice[s[j]]
           S == {i \in Nat : i <= n => Done(i)}
<1>9. 0 \in S
    <2>1. 1..0 = {}
        OBVIOUS
    <2>2. k[1..0] = router
        BY <1>2, <1>8, <2>1 DEF BatchFrom, s
    <2> QED
        BY <1>3, <2>1, <2>2
<1>10. ASSUME NEW i \in Nat, i \in S PROVE i + 1 \in S
    <2>1. SUFFICES ASSUME i + 1 <= n PROVE Done(i + 1)
        OBVIOUS
    <2>2. Done(i) /\ i + 1 \in 1..n
        BY <1>10, <2>1, <1>2
    <2>3. 1..(i + 1) \in SUBSET (1..n) /\ i + 1 \in 1..(i + 1) /\ i + 1 # 0 /\ (i + 1) - 1 = i
        BY <1>2, <2>1
    <2>4. Highest(1..(i + 1)) = i + 1 /\ (1..(i + 1)) \ {i + 1} = 1..i
        BY <2>3, HighestOfRange
    <2>5. Max(1..(i + 1)) = i + 1
        BY <2>4 DEF Highest, Max
    <2>6. k[1..(i + 1)] = BatchStep(k[1..i], s[i + 1], pyth)
        BY <1>2, <1>8, <2>3, <2>4, <2>5 DEF BatchFrom, s
    <2> DEFINE r == k[1..i]
               q == k[1..(i + 1)]
    <2>7. r \in W /\ s[i + 1] \in T
        BY <1>2, <2>2
    <2>8. /\ q \in W
          /\ Near(q.lastPrice[s[i + 1]], r.lastPrice[s[i + 1]])
          /\ \A m \in T \ {s[i + 1]} : q.lastPrice[m] = r.lastPrice[m]
        BY <2>6, <2>7, BatchStepSound DEF W, T
    <2>9. r.lastPrice[s[i + 1]] = router.lastPrice[s[i + 1]]
        BY <2>2
    <2>10. \A j \in 1..n : j # i + 1 => q.lastPrice[s[j]] = r.lastPrice[s[j]]
        BY <1>2, <1>6, <2>2, <2>8
    <2>11. \A j \in 1..i : j \in 1..n /\ j # i + 1 /\ Near(r.lastPrice[s[j]], router.lastPrice[s[j]])
        BY <1>2, <2>1, <2>2
    <2>12. \A j \in (i + 2)..n : j \in 1..n /\ j # i + 1 /\ r.lastPrice[s[j]] = router.lastPrice[s[j]]
        <3>1. \A j \in (i + 2)..n : j \in 1..n /\ j # i + 1 /\ j \in (i + 1)..n
            BY <1>2
        <3> QED
            BY <3>1, <2>2
    <2> HIDE DEF r
    <2>13. \A j \in 1..(i + 1) : Near(q.lastPrice[s[j]], router.lastPrice[s[j]])
        <3>1. ASSUME NEW j \in 1..(i + 1) PROVE j \in 1..i \/ j = i + 1
            OBVIOUS
        <3> HIDE DEF q
        <3> QED
            BY <3>1, <2>8, <2>9, <2>10, <2>11
    <2>14. \A j \in (i + 2)..n : q.lastPrice[s[j]] = router.lastPrice[s[j]]
        <3> HIDE DEF q
        <3> QED
            BY <2>10, <2>12
    <2>15. (i + 1) + 1 = i + 2
        OBVIOUS
    <2> QED
        BY <2>8, <2>13, <2>14, <2>15
<1>11. Done(n)
    <2>1. n \in S
        <3> HIDE DEF S
        <3> QED
            BY <1>2, <1>9, <1>10, NatSets
    <2> HIDE DEF Done
    <2> QED
        BY <2>1, <1>2
<1> QED
    BY <1>1, <1>2, <1>7, <1>11 DEF W, T

\* What the sources, the updates and the router hold is what they are typed to hold.
LEMMA OracleInitTyped == OracleInit => OracleTyped
<1> SUFFICES ASSUME OracleInit PROVE OracleTyped
    OBVIOUS
<1>1. hermes \in [FedMarkets -> Nat]
    BY OracleAssumption DEF OracleInit
<1>2. pushes \in Seq([FedMarkets -> Nat])
    BY DEF OracleInit
<1> QED
    BY <1>1, <1>2 DEF OracleInit, OracleTyped

\* Every step keeps that, and moves no mark further than is allowed.
LEMMA OracleStep ==
    ASSUME OracleTyped, [OracleNext]_oracleVars
    PROVE  /\ OracleTyped'
           /\ \A m \in FedMarkets : Near(router'.lastPrice[m], router.lastPrice[m])
<1>1. \A m \in FedMarkets : router.lastPrice[m] \in Nat
    BY DEF OracleTyped
<1>2. ASSUME router'.lastPrice = router.lastPrice
      PROVE  \A m \in FedMarkets : Near(router'.lastPrice[m], router.lastPrice[m])
    BY <1>1, <1>2, NearItself
<1>3. ASSUME NEW m \in FedMarkets, NEW p \in Prices \union {0},
             HermesMoves(m, p) \/ ChainlinkMoves(m, p)
      PROVE  OracleTyped' /\ router' = router
    <2>1. p \in Nat
        BY OracleAssumption
    <2> QED
        BY <1>3, <2>1 DEF HermesMoves, ChainlinkMoves, OracleTyped
<1>4. ASSUME NEW m \in FedMarkets, NEW on \in BOOLEAN, SetFeed(m, on)
      PROVE  OracleTyped' /\ router' = router
    BY <1>4 DEF SetFeed, OracleTyped
<1>5. ASSUME ResetOracleCircuitBreaker
      PROVE  OracleTyped' /\ router'.lastPrice = router.lastPrice
    BY <1>5 DEF ResetOracleCircuitBreaker, OracleTyped
<1>6. ASSUME PushCycle
      PROVE  OracleTyped' /\ router' = router
    BY <1>6 DEF PushCycle, OracleTyped
<1>7. ASSUME PushExecuted
      PROVE  /\ OracleTyped'
             /\ \A m \in FedMarkets : Near(router'.lastPrice[m], router.lastPrice[m])
    <2> DEFINE pyth == Head(pushes)
    <2>1. pyth \in [FedMarkets -> Nat] /\ Tail(pushes) \in Seq([FedMarkets -> Nat])
        BY <1>7 DEF PushExecuted, OracleTyped
    <2>2. /\ hermes' = hermes /\ chainlink' = chainlink /\ pushes' = Tail(pushes)
          /\ router' = router \/ router' = Batch(pyth)
        BY <1>7 DEF PushExecuted
    <2> HIDE DEF pyth
    <2>3. /\ Batch(pyth) \in Routers
          /\ \A m \in FedMarkets : Near(Batch(pyth).lastPrice[m], router.lastPrice[m])
        BY <2>1, BatchSound
    <2>4. router \in Routers
        BY DEF OracleTyped, Routers
    <2>5. CASE router' = router
        BY <2>1, <2>2, <2>4, <2>5, <1>2 DEF OracleTyped
    <2>6. CASE router' = Batch(pyth)
        BY <2>1, <2>2, <2>3, <2>6 DEF OracleTyped, Routers
    <2> QED
        BY <2>2, <2>5, <2>6
<1>8. ASSUME PushLost \/ PushTimesOut
      PROVE  OracleTyped' /\ router' = router
    <2>1. CASE PushLost
        BY <2>1 DEF PushLost, OracleTyped
    <2>2. CASE PushTimesOut
        BY <2>2 DEF PushTimesOut, OracleTyped
    <2> QED
        BY <1>8, <2>1, <2>2
<1>9. ASSUME UNCHANGED oracleVars
      PROVE  OracleTyped' /\ router' = router
    BY <1>9 DEF oracleVars, OracleTyped
<1> QED
    BY <1>2, <1>3, <1>4, <1>5, <1>6, <1>7, <1>8, <1>9 DEF OracleNext

\* OracleRouter.sol:468-480: whatever the sources report, in whatever order updates arrive that were
\* late, lost or sent twice, and whatever the limit is, the mark of no market moves by more
\* than the limit at once.
THEOREM MarksNeverJump == OracleSpec => MarksMoveInSteps
<1> DEFINE Steps == \A m \in FedMarkets : router.lastPrice[m] # 0 =>
                        Deviation(router'.lastPrice[m], router.lastPrice[m]) <= MaxPriceChangeBps
<1>1. OracleTyped /\ [OracleNext]_oracleVars => OracleTyped'
    BY OracleStep
<1>2. OracleTyped /\ [OracleNext]_oracleVars => [Steps]_oracleVars
    BY OracleStep DEF Near
<1> QED
    BY <1>1, <1>2, OracleInitTyped, PTL DEF OracleSpec, MarksMoveInSteps
=============================================================================
