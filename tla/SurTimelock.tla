----------------------------- MODULE SurTimelock -----------------------------
(***************************************************************************)
(* src/contracts/src/SurTimelock.sol: the owner of every other contract.    *)
(* What its owner wants done is queued, waits for the delay, and can then    *)
(* be executed for a grace period; the guardian can do one thing, pause a    *)
(* registered target, and does it at once.  The timelock administers itself  *)
(* through the same queue.                                                  *)
(*                                                                         *)
(* A transaction is identified, like its hash, by the call it makes and its  *)
(* eta.  Targets are contracts like PerpVault, whose pause() reverts when    *)
(* they are paused already; all that is kept of them is whether they are.    *)
(***************************************************************************)
EXTENDS Integers, FiniteSets

CONSTANTS
    Accounts,       \* who can call the timelock
    Targets,        \* the contracts it owns
    MinDelay, MaxDelay, GracePeriod,    \* 24 hours, 30 days, 7 days in the code
    Delays,         \* what setDelay is asked for
    StartTime, MaxTime,     \* the clock when the timelock is deployed, and its bound
    MaxTransactions         \* bound on the transactions that wait or were executed

ASSUME TimelockAssumption ==
    /\ MinDelay \in Nat \ {0}
    /\ MaxDelay \in Nat
    /\ GracePeriod \in Nat
    /\ Delays \subseteq Nat
    /\ StartTime \in Nat \ {0}
    /\ MaxTime \in Nat
    /\ MaxTransactions \in Nat

VARIABLES
    now,
    owner, guardian,
    delay,
    queuedTxs,          \* the transactions with an entry in the mapping
    pausableTargets,
    setupComplete,
    pausedTargets,      \* external: the targets that are paused
    announced,          \* history: when each queued transaction was queued
    executed            \* history: the transactions executed so far

selfVars == <<owner, guardian, delay, pausableTargets>>
histories == <<announced, executed>>
vars == <<now, selfVars, queuedTxs, setupComplete, pausedTargets, histories>>

\* The calls worth queueing: those to the timelock itself and those that move a pause.
Calls ==
    [fn : {"setDelay"}, arg : Delays]
        \union [fn : {"transferOwnership", "setGuardian"}, arg : Accounts]
        \union [fn : {"registerTarget", "removeTarget", "pause", "unpause"}, arg : Targets]

Txs == [call : Calls, eta : Nat]

Init ==
    /\ now = StartTime
    /\ owner \in Accounts
    /\ guardian \in Accounts
    /\ delay \in Delays
    /\ delay >= MinDelay /\ delay <= MaxDelay
    /\ queuedTxs = {}
    /\ pausableTargets = {}
    /\ setupComplete = FALSE
    /\ pausedTargets = {}
    /\ announced = [t \in queuedTxs |-> now]
    /\ executed = {}

-----------------------------------------------------------------------------
(* The guardian *)

\* Faulty form of MayPause: any contract, not only a registered one.
MayPauseAny(target) == TRUE

MayPause(target) == target \in pausableTargets

EmergencyPause(sender, target) ==
    /\ sender = guardian
    /\ MayPause(target)
    /\ target \notin pausedTargets
    /\ pausedTargets' = pausedTargets \union {target}
    /\ UNCHANGED <<now, selfVars, queuedTxs, setupComplete, histories>>

-----------------------------------------------------------------------------
(* The queue *)

\* Faulty form of Eta: the delay is measured from nowhere.
EtaAtOnce == now

Eta == now + delay

QueueTransaction(sender, call) ==
    LET tx == [call |-> call, eta |-> Eta]
    IN  /\ sender = owner
        /\ tx \notin queuedTxs
        /\ Cardinality(queuedTxs \union executed) < MaxTransactions
        /\ queuedTxs' = queuedTxs \union {tx}
        /\ announced' = [t \in queuedTxs \union {tx} |->
                            IF t = tx THEN now ELSE announced[t]]
        /\ UNCHANGED <<now, selfVars, setupComplete, pausedTargets, executed>>

\* A transaction leaves the queue, executed or cancelled.
Dequeued(tx) ==
    /\ queuedTxs' = queuedTxs \ {tx}
    /\ announced' = [t \in queuedTxs \ {tx} |-> announced[t]]

CancelTransaction(sender, tx) ==
    /\ sender = owner
    /\ tx \in queuedTxs
    /\ Dequeued(tx)
    /\ UNCHANGED <<now, selfVars, setupComplete, pausedTargets, executed>>

DelayAllowed(newDelay) == newDelay >= MinDelay /\ newDelay <= MaxDelay

\* What a call does when the timelock makes it; a call that reverts reverts it all.
SetDelay(newDelay) ==
    /\ DelayAllowed(newDelay)
    /\ delay' = newDelay
    /\ UNCHANGED <<owner, guardian, pausableTargets, pausedTargets>>

TransferOwnership(newOwner) ==
    /\ owner' = newOwner
    /\ UNCHANGED <<guardian, delay, pausableTargets, pausedTargets>>

SetGuardian(newGuardian) ==
    /\ guardian' = newGuardian
    /\ UNCHANGED <<owner, delay, pausableTargets, pausedTargets>>

SetPausableTarget(target, status) ==
    /\ pausableTargets' = IF status THEN pausableTargets \union {target}
                          ELSE pausableTargets \ {target}
    /\ UNCHANGED <<owner, guardian, delay, pausedTargets>>

PauseTarget(target) ==
    /\ target \notin pausedTargets
    /\ pausedTargets' = pausedTargets \union {target}
    /\ UNCHANGED selfVars

UnpauseTarget(target) ==
    /\ target \in pausedTargets
    /\ pausedTargets' = pausedTargets \ {target}
    /\ UNCHANGED selfVars

Called(call) ==
    \/ call.fn = "setDelay" /\ SetDelay(call.arg)
    \/ call.fn = "transferOwnership" /\ TransferOwnership(call.arg)
    \/ call.fn = "setGuardian" /\ SetGuardian(call.arg)
    \/ call.fn = "registerTarget" /\ SetPausableTarget(call.arg, TRUE)
    \/ call.fn = "removeTarget" /\ SetPausableTarget(call.arg, FALSE)
    \/ call.fn = "pause" /\ PauseTarget(call.arg)
    \/ call.fn = "unpause" /\ UnpauseTarget(call.arg)

\* Within the grace period, both ends included.
Executable(tx) == now >= tx.eta /\ now <= tx.eta + GracePeriod

ExecuteTransaction(sender, tx) ==
    /\ sender = owner
    /\ tx \in queuedTxs
    /\ Executable(tx)
    /\ Called(tx.call)
    /\ Dequeued(tx)
    /\ executed' = executed \union {tx}
    /\ UNCHANGED <<now, setupComplete>>

-----------------------------------------------------------------------------
(* Setup *)

\* Faulty form of SetupOpen: the end of setup is forgotten.
SetupAlwaysOpen == TRUE

SetupOpen == ~setupComplete

BatchSetPausableTargets(sender, targets) ==
    /\ sender = owner
    /\ SetupOpen
    /\ pausableTargets' = pausableTargets \union targets
    /\ UNCHANGED <<now, owner, guardian, delay, queuedTxs, setupComplete, pausedTargets,
                   histories>>

CompleteSetup(sender) ==
    /\ sender = owner
    /\ setupComplete' = TRUE
    /\ UNCHANGED <<now, selfVars, queuedTxs, pausedTargets, histories>>

Tick ==
    /\ now < MaxTime
    /\ now' = now + 1
    /\ UNCHANGED <<selfVars, queuedTxs, setupComplete, pausedTargets, histories>>

OwnerStep(sender) ==
    \/ \E call \in Calls : QueueTransaction(sender, call)
    \/ \E tx \in queuedTxs : CancelTransaction(sender, tx)
    \/ \E tx \in queuedTxs : ExecuteTransaction(sender, tx)
    \/ \E targets \in SUBSET Targets : BatchSetPausableTargets(sender, targets)
    \/ CompleteSetup(sender)

Next ==
    \/ \E sender \in Accounts : OwnerStep(sender)
    \/ \E sender \in Accounts, target \in Targets : EmergencyPause(sender, target)
    \/ Tick

Spec == Init /\ [][Next]_vars

-----------------------------------------------------------------------------
(* Properties *)

TypeOK ==
    /\ now \in Nat
    /\ owner \in Accounts
    /\ guardian \in Accounts
    /\ delay \in Nat
    /\ delay >= MinDelay /\ delay <= MaxDelay
    /\ queuedTxs \subseteq Txs
    /\ pausableTargets \subseteq Targets
    /\ setupComplete \in BOOLEAN
    /\ pausedTargets \subseteq Targets
    /\ announced \in [queuedTxs -> Nat]
    /\ executed \subseteq Txs

\* A transaction that was executed is never executable again: the same call with the same
\* eta cannot come back into the queue, however the delay changes between.
NeverTwice == executed \cap queuedTxs = {}

\* The shortest announcement any change in force had, and how long it stays good, given
\* that it is the transaction tx that makes it.
DulyAnnounced(tx) ==
    /\ now >= announced[tx] + MinDelay
    /\ now <= announced[tx] + MaxDelay + GracePeriod

\* Who owns and guards, the delay, and which target leaves its pause change only by a
\* transaction announced MinDelay before and not forgotten since, whatever the delay was
\* in between; once setup is over, so does the list of what the guardian can pause.
ChangesAreAnnounced ==
    [][ (\/ owner' # owner \/ guardian' # guardian \/ delay' # delay
         \/ ~(pausedTargets \subseteq pausedTargets')
         \/ setupComplete /\ pausableTargets' # pausableTargets)
            => \E tx \in queuedTxs : DulyAnnounced(tx) /\ tx \in executed' ]_vars

\* Without a transaction the only thing that ever happens to a target is that it pauses,
\* and only to one that is registered.
GuardianOnlyPauses ==
    [][ (executed' = executed /\ pausedTargets' # pausedTargets)
            => \E t \in pausableTargets : pausedTargets' = pausedTargets \union {t} ]_vars
=============================================================================
