---------------------------- MODULE CircuitBreaker ----------------------------
(***************************************************************************)
(* The trading bot's circuit breaker: a value cb and what each of its      *)
(* methods makes of it.  Trades and stop-losses are counted when they are  *)
(* recorded, not when they happen.  The streak of losses is left out: only *)
(* getCooldownMultiplier reads it, and nothing calls that.  So is the      *)
(* clean-up after seven days, which is older than every window.            *)
(***************************************************************************)
EXTENDS Integers, Sequences, SequencesExt

CONSTANTS
  Engines,            \* names of the strategies
  DayLength,          \* time units in a day
  MaxConsecSL,        \* stop-losses in the window that pause an engine
  SlWindow, PauseDuration,
  MaxTradesPerDay, MaxTradesPerEngine,
  MaxDailyLoss

ASSUME BreakerAssumption ==
  /\ {DayLength, MaxConsecSL, MaxTradesPerDay, MaxTradesPerEngine} \subseteq Nat \ {0}
  /\ {SlWindow, PauseDuration, MaxDailyLoss} \subseteq Nat

GetDayStart(t) == (t \div DayLength) * DayLength

\* until[e] = 0 stands for an engine that is not in pausedEngines.
NewBreaker(t) ==
  [today |-> [e \in Engines |-> 0], stops |-> [e \in Engines |-> <<>>],
   until |-> [e \in Engines |-> 0], dailyPnl |-> 0, dayStart |-> GetDayStart(t),
   globalPaused |-> FALSE, resumeAt |-> 0]

MaybeResetDay(cb, t) ==
  IF GetDayStart(t) > cb.dayStart
    THEN [cb EXCEPT !.dayStart = GetDayStart(t), !.dailyPnl = 0,
                    !.today = [e \in Engines |-> 0]]
    ELSE cb

TradesToday(cb) == FoldFunction(+, 0, cb.today)

GlobalPause(cb, t) == cb.globalPaused /\ t < cb.resumeAt
EnginePause(cb, e, t) == cb.until[e] # 0 /\ t < cb.until[e]

\* What asking leaves behind: pauses that are over are lifted by the question.
Asked(cb0, e, t) ==
  LET cb == MaybeResetDay(cb0, t) IN
  IF GlobalPause(cb, t) THEN cb
  ELSE LET lifted == [cb EXCEPT !.globalPaused = FALSE] IN
       IF cb.until[e] = 0 \/ EnginePause(cb, e, t) THEN lifted
       ELSE [lifted EXCEPT !.until[e] = 0, !.stops[e] = <<>>]

CanTrade(cb0, e, t) ==
  LET cb == MaybeResetDay(cb0, t) IN
  /\ ~GlobalPause(cb, t)
  /\ ~EnginePause(cb, e, t)
  /\ TradesToday(cb) < MaxTradesPerDay
  /\ cb.today[e] < MaxTradesPerEngine

StopsInWindow(stops, t) == Len(SelectSeq(stops, LAMBDA s : s >= t - SlWindow))

WithStop(cb, e, reason, t) ==
  IF reason \notin {"SL", "LIQUIDATION"} THEN cb
  ELSE LET stops == Append(cb.stops[e], t) IN
       [cb EXCEPT !.stops[e] = stops,
                  !.until[e] = IF StopsInWindow(stops, t) >= MaxConsecSL
                               THEN t + PauseDuration ELSE @]

WithDrawdown(cb) ==
  IF cb.dailyPnl < -MaxDailyLoss
    THEN [cb EXCEPT !.globalPaused = TRUE, !.resumeAt = cb.dayStart + DayLength]
    ELSE cb

RecordTrade(cb0, e, pnl, reason, t) ==
  LET cb == MaybeResetDay(cb0, t) IN
  WithDrawdown(WithStop([cb EXCEPT !.today[e] = @ + 1, !.dailyPnl = @ + pnl], e, reason, t))
================================================================================
