----------------------------- MODULE MCTradingBot -----------------------------
(***************************************************************************)
(* Small instances of the trading bot: prices are two ticks apart, a stop  *)
(* and a take profit one tick away, a day is two units of time.  One stop  *)
(* pauses a strategy, one lost trade in the database disables it, two      *)
(* stops on one side pause the regime, and a strategy holds one position.  *)
(***************************************************************************)
EXTENDS TradingBot

All(x) == [e \in Engines |-> x]
MCStopAt == All(1)
MCTakeAt == [All(1) EXCEPT !["TREND_RIDER"] = 0]
MCLiquidateAt == All(2)
MCLimit == All(1)
MCCooldown == All(1)

Quiet == [ema |-> 1, slope21 |-> 0, slope48 |-> 0, vs21 |-> 0, vs48 |-> 0, rsi |-> 50, mfi |-> 50,
          higherHighs |-> FALSE, lowerLows |-> TRUE, m1h |-> 0, m4h |-> 0, volume |-> "FLAT",
          run |-> 1, atHigh |-> FALSE, atLow |-> FALSE, squeeze |-> FALSE, extreme |-> FALSE]
Strong == [Quiet EXCEPT !.slope21 = 9, !.slope48 = 9, !.vs21 = 20, !.vs48 = 40, !.rsi = 60,
                        !.higherHighs = TRUE, !.lowerLows = FALSE, !.m4h = 200]
Crash  == [Quiet EXCEPT !.ema = -1, !.slope21 = -9, !.vs21 = -160, !.vs48 = -200, !.rsi = 18,
                        !.mfi = 10, !.m1h = -80, !.m4h = -300, !.run = -5]

Plain == [divergence |-> 0, atLevel |-> FALSE, breakout |-> FALSE]
MCReports == {[f |-> Quiet, d |-> Plain], [f |-> Strong, d |-> Plain],
              [f |-> Quiet, d |-> [Plain EXCEPT !.breakout = TRUE]]}
NoSetup == [retest |-> "none", sniper |-> FALSE, reversal |-> 0, grid |-> "none", rider |-> "none"]
\* The swing engine's: an up-trend breaking out, a crash, and a breakout the hours block.
MCSignals == {[f |-> [Strong EXCEPT !.extreme = TRUE], block |-> {}],
              [f |-> Crash, block |-> {"LONG"}],
              [f |-> [Strong EXCEPT !.extreme = TRUE], block |-> {"LONG"}]}
MCSetups == {[NoSetup EXCEPT !.sniper = TRUE, !.rider = "LONG"],
             [NoSetup EXCEPT !.grid = "LONG", !.retest = "SHORT", !.reversal = 70]}

MCMaxFlights == [e \in {"scalp", "swing"} |-> IF e = "scalp" THEN 1 ELSE 2]
\* Hours in which every average and slope points down.
Falling == [vs200 |-> -200, cross |-> -60, slope50 |-> -120, slope200 |-> -40, enough1h |-> TRUE,
            enough4h |-> TRUE, cross4h |-> -90, vs50 |-> -250, slope21 |-> -120, days4 |-> -400]
MCMacros == {MacroTrend(Falling)}

\* Every combination of what the swing engine's score tells apart stays below the
\* confidence that a swing without an event needs: trend alone never trades.
Readings == [ema : {-1, 1}, slope21 : {-9, 0, 9}, vs21 : {-20, 0, 20}, rsi : {18, 40, 50, 60, 82},
             higherHighs : BOOLEAN, lowerLows : BOOLEAN, m1h : {-80, 0, 80}, m4h : {-200, 0, 200}]
ASSUME TrendAloneNeverSwings == \A f \in Readings : Abs(SwingScore(f)) < 65

MCMaxTime == [e \in {"scalp", "swing"} |-> IF e = "scalp" THEN 2 ELSE 5]
MCMaxRestarts == [e \in {"scalp", "swing"} |-> [b \in BOOLEAN |-> IF b /\ e = "scalp" THEN 0 ELSE 1]]
================================================================================
