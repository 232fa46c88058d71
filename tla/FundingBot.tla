------------------------------ MODULE FundingBot ------------------------------
(***************************************************************************)
(* The loop of funding-bot/src/index.ts, which applies the funding rate of *)
(* one market after the other when it is due, and applyFundingRate of the  *)
(* engine, which anybody may call and which charges at most three periods  *)
(* at once.                                                                *)
(***************************************************************************)
EXTENDS Integers, Sequences, SequencesExt

CONSTANTS
    FundedMarkets,      \* a sequence: the markets of the bot
    Interval,           \* fundingIntervalSecs
    MaxClock,           \* bound on the time
    MaxTxFailures       \* bound on what goes wrong on the network

ASSUME FundingAssumption == /\ Interval \in Nat \ {0}
                            /\ MaxClock \in Nat /\ MaxTxFailures \in Nat

VARIABLES
    clock,
    listed,     \* the markets that are active
    priced,     \* the markets that have a price
    updated,    \* lastFundingUpdate
    charged,    \* how many periods were charged
    bot,        \* the market of the cycle the bot is at, and whether it waits for a receipt
    calls,      \* calls of applyFundingRate under way, in the order of their nonces
    txFailures
fundingVars == <<clock, listed, priced, updated, charged, bot, calls, txFailures>>

Funded == Range(FundedMarkets)

FundingInit ==
    /\ clock = 0 /\ listed \in SUBSET Funded /\ priced \in SUBSET Funded
    /\ updated = [m \in Funded |-> 0] /\ charged = [m \in Funded |-> 0]
    /\ bot = [at |-> 1, waits |-> FALSE] /\ calls = <<>> /\ txFailures = 0

TimePasses ==
    /\ clock < MaxClock /\ clock' = clock + 1
    /\ UNCHANGED <<listed, priced, updated, charged, bot, calls, txFailures>>

\* The periods a call charges.
Periods(elapsed) == IF elapsed \div Interval > 3 THEN 3 ELSE elapsed \div Interval

\* applyFundingRate: not due, or without prices, it returns and nothing has happened.
ApplyFundingRate(m) ==
    LET periods == Periods(clock - updated[m])
    IN  IF clock - updated[m] < Interval \/ m \notin priced THEN UNCHANGED <<updated, charged>>
        ELSE /\ charged' = [charged EXCEPT ![m] = @ + periods]
             /\ updated' = [updated EXCEPT ![m] = @ + Interval * periods]

\* Somebody else calls it.
Stranger(m) ==
    /\ clock - updated[m] >= Interval /\ m \in priced
    /\ ApplyFundingRate(m)
    /\ UNCHANGED <<clock, listed, priced, bot, calls, txFailures>>

-----------------------------------------------------------------------------
Current == FundedMarkets[bot.at]

\* The next market, or the next cycle.
Onward == [at |-> (bot.at % Len(FundedMarkets)) + 1, waits |-> FALSE]

\* Faulty form of Fails: what is thrown ends the loop.
Halts == [at |-> bot.at, waits |-> TRUE]

\* A failure is caught, and the loop goes on.
Fails == Onward

IsDue(m) == clock - updated[m] >= Interval

\* The bot looks at a market: the funding is due, or it is left for the next cycle.
Looks ==
    /\ ~bot.waits
    /\ IF Current \in listed /\ IsDue(Current)
       THEN /\ calls' = Append(calls, Current)
            /\ bot' = [bot EXCEPT !.waits = TRUE]
       ELSE bot' = Onward /\ UNCHANGED calls
    /\ UNCHANGED <<clock, listed, priced, updated, charged, txFailures>>

\* The node, or the wallet, fails in spite of the retries.
LookFails ==
    /\ ~bot.waits
    /\ txFailures < MaxTxFailures /\ txFailures' = txFailures + 1
    /\ bot' = Fails
    /\ UNCHANGED <<clock, listed, priced, updated, charged, calls>>

CallExecuted ==
    /\ calls # <<>>
    /\ ApplyFundingRate(Head(calls))
    /\ calls' = Tail(calls)
    /\ bot' = IF bot.waits /\ Len(calls) = 1 THEN Onward ELSE bot
    /\ UNCHANGED <<clock, listed, priced, txFailures>>

CallLost ==
    /\ calls # <<>>
    /\ txFailures < MaxTxFailures /\ txFailures' = txFailures + 1
    /\ calls' = Tail(calls)
    /\ UNCHANGED <<clock, listed, priced, updated, charged, bot>>

\* Thirty seconds without a receipt.
CallTimesOut ==
    /\ bot.waits
    /\ calls = <<>> \/ txFailures < MaxTxFailures
    /\ txFailures' = IF calls = <<>> THEN txFailures ELSE txFailures + 1
    /\ bot' = Fails
    /\ UNCHANGED <<clock, listed, priced, updated, charged, calls>>

BotStep == Looks \/ LookFails \/ CallTimesOut

FundingNext ==
    \/ TimePasses
    \/ \E m \in Funded : Stranger(m)
    \/ BotStep \/ CallExecuted \/ CallLost

-----------------------------------------------------------------------------
\* funding-bot/src/index.ts:15-16: when no more time passes, the funding of every market that is
\* active and has a price is brought up to date, after an outage of more than the three periods
\* of a call as well, and after calls that failed, were late or were lost.
FundingCatchesUp ==
    \A m \in Funded : []<>(m \in listed /\ m \in priced => ~IsDue(m))
================================================================================
