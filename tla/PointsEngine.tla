------------------------------ MODULE PointsEngine ------------------------------
(***************************************************************************)
(* api/src/points/engine.ts: points for settled trades.  Every award is a  *)
(* call of its own that waits for the store between its steps, so that     *)
(* awards to the same trader interleave.  Without a database the records   *)
(* are shared objects; with one every call works on the copy it loaded and *)
(* writes the whole row back.  Points are counted in thousandths.          *)
(***************************************************************************)
EXTENDS Integers, FiniteSets, Folds, FiniteSetsExt

CONSTANTS
    Traders,
    Tiers,          \* VOLUME_TIERS: pairs of a volume and ten times its multiplier
    MaxStreakDays,
    Links,          \* the referrals that are asked for: referrer and referee
    MaxDay

ASSUME PointsAssumption ==
    /\ Tiers \subseteq Nat \X Nat /\ IsFiniteSet(Tiers) /\ \E t \in Tiers : t[1] = 0
    /\ MaxStreakDays \in Nat
    /\ Links \subseteq Traders \X Traders

VARIABLES
    durable,        \* whether a database is configured
    store,          \* the records, of the traders that have one
    history,        \* what was awarded to each trader in all, as the history has it
    referrals,      \* the referrer of a referee
    calls,          \* the awards in progress
    today
pointsVars == <<durable, store, history, referrals, calls, today>>

NewRecord == [points |-> 0, volume |-> 0, trades |-> 0, streak |-> 0, last |-> -1]

RecordOf(trader) == IF trader \in DOMAIN store THEN store[trader] ELSE NewRecord

Stored(trader, rec) == [t \in DOMAIN store \union {trader} |-> IF t = trader THEN rec ELSE store[t]]

\* getVolumeTierMultiplier and getStreakMultiplier, times ten each.
Tier(volume) == Max({t[2] : t \in {u \in Tiers : volume >= u[1]}})
StreakMultiplier(streak) == 10 + Min({streak, MaxStreakDays})

Streak(rec) ==
    IF rec.last = today THEN rec.streak
    ELSE IF rec.last = today - 1 THEN Min({rec.streak + 1, MaxStreakDays}) ELSE 1

\* What a trade makes of the record of a trader: the volume counts first.
WithTrade(rec, volume) ==
    LET total == rec.volume + volume
        streak == Streak(rec)
    IN  [points |-> rec.points + volume * Tier(total) * StreakMultiplier(streak) * 10,
         volume |-> total, trades |-> rec.trades + 1, streak |-> streak, last |-> today]

Earned(rec, volume) == WithTrade(rec, volume).points - rec.points

PointsInit ==
    /\ durable \in BOOLEAN
    /\ store = <<>>
    /\ history = [t \in Traders |-> 0]
    /\ referrals = <<>>
    /\ calls = {}
    /\ today = 0

\* calculatePointsForTrade is entered and waits for the record.
Award(trade, trader) ==
    [trade |-> trade, trader |-> trader, of |-> trader, volume |-> trade.volume,
     at |-> "load", rec |-> NewRecord, earned |-> 0]

Proceeds(call, next) == calls' = (calls \ {call}) \union {next}
Ends(call) == calls' = calls \ {call}

\* The amount a call adds to the record it loaded: for a trade, or a tenth for a referral.
Credit(call, rec) ==
    IF call.of = call.trader THEN WithTrade(rec, call.volume)
    ELSE [rec EXCEPT !.points = @ + call.earned]

\* Faulty form of Load: the record in memory is copied, as a row would be.
LoadCopy(call) ==
    /\ call.at = "load"
    /\ LET rec == Credit(call, RecordOf(call.trader))
       IN  /\ store' = Stored(call.trader, RecordOf(call.trader))
           /\ Proceeds(call, [call EXCEPT !.at = "save", !.rec = rec,
                                         !.earned = rec.points - RecordOf(call.trader).points])
    /\ UNCHANGED <<durable, history, referrals, today>>

\* The record arrives, made if there is none, and is changed at once: in memory that is
\* the stored one, with a database a copy.
Load(call) ==
    /\ call.at = "load"
    /\ LET rec == Credit(call, RecordOf(call.trader))
       IN  /\ store' = Stored(call.trader, IF durable THEN RecordOf(call.trader) ELSE rec)
           /\ Proceeds(call, [call EXCEPT !.at = "save", !.rec = IF durable THEN rec ELSE NewRecord,
                                         !.earned = rec.points - RecordOf(call.trader).points])
    /\ UNCHANGED <<durable, history, referrals, today>>

\* saveRecord: the row as this call knows it; a failure is only logged.
SaveRecord(call) ==
    /\ call.at = "save"
    /\ store' \in IF durable THEN {store, Stored(call.trader, call.rec)} ELSE {store}
    /\ Proceeds(call, [call EXCEPT !.at = "history", !.rec = NewRecord])
    /\ UNCHANGED <<durable, history, referrals, today>>

\* saveHistory, which nothing reads back from a database; then creditReferralPoints: a tenth
\* for the referrer of a trader, whose record is loaded next.
SaveHistory(call) ==
    /\ call.at = "history"
    /\ history' = IF durable THEN history ELSE [history EXCEPT ![call.trader] = @ + call.earned]
    /\ IF call.of = call.trader /\ call.of \in DOMAIN referrals
       THEN Proceeds(call, [call EXCEPT !.at = "load", !.trader = referrals[call.of],
                                        !.earned = @ \div 10])
       ELSE Ends(call)
    /\ UNCHANGED <<durable, store, referrals, today>>

\* registerReferral: once for a referee.
RegisterReferral(referrer, referee) ==
    /\ referrer # referee
    /\ referee \notin DOMAIN referrals
    /\ referrals' = [t \in DOMAIN referrals \union {referee} |->
                        IF t = referee THEN referrer ELSE referrals[t]]
    /\ UNCHANGED <<durable, store, history, calls, today>>

NextDay ==
    /\ today < MaxDay
    /\ today' = today + 1
    /\ UNCHANGED <<durable, store, history, referrals, calls>>

CallProceeds == \E c \in calls : Load(c) \/ SaveRecord(c) \/ SaveHistory(c)

PointsStep ==
    \/ CallProceeds
    \/ \E l \in Links : RegisterReferral(l[1], l[2])
    \/ NextDay

\* What is on its way to the history of a trader.
OnTheWay(trader) ==
    LET waiting == {c \in calls : c.trader = trader /\ c.at \in {"save", "history"}}
    IN  MapThenFoldSet(LAMBDA x, y : x + y, 0, LAMBDA c : c.earned, LAMBDA S : CHOOSE c \in S : TRUE, waiting)

\* While the store is in memory, the history explains the points of every trader, however
\* the awards to one trader and to those who referred others to it interleave
\* (calculatePointsForTrade, creditReferralPoints).
PointsExplained ==
    ~durable => \A t \in Traders : RecordOf(t).points = history[t] + OnTheWay(t)
================================================================================
