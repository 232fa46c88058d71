------------------------------ MODULE MarketBrain ------------------------------
(***************************************************************************)
(* What the trading bot makes of the market: pure functions from           *)
(* indicators to a verdict.  An indicator record f has the indicators as   *)
(* integers, percentages in hundredths and slopes in ten-thousandths; how  *)
(* they are computed from candles is left out.  Three brains: the one of   *)
(* the scalping engine, the leaner one of the swing engine, and the macro  *)
(* filter over hours.                                                      *)
(***************************************************************************)
EXTENDS Integers

CONSTANT MinConfidenceSwing   \* confidence that lets a swing trade without an event

\* -1, 0 or 1: x is below -limit, between, or above limit.
Beyond(x, limit) == IF x > limit THEN 1 ELSE IF x < -limit THEN -1 ELSE 0
One(b) == IF b THEN 1 ELSE 0
Abs(n) == IF n < 0 THEN -n ELSE n

(* --- MarketBrain --- *)

WithoutVolume(f) ==
    (IF f.ema > 0 THEN 12 ELSE -12)
  + 7 * Beyond(f.slope21, 5) + 6 * Beyond(f.slope48, 3)
  + 8 * Beyond(f.vs21, 15)   + 7 * Beyond(f.vs48, 30)
  + 5 * Beyond(f.rsi - 50, 5) + 5 * Beyond(f.rsi - 50, 20) + 3 * Beyond(f.mfi - 50, 10)
  + 12 * One(f.higherHighs) - 12 * One(f.lowerLows)
  + 5 * Beyond(f.m1h, 50) + 8 * Beyond(f.m4h, 150)

Score(f) == WithoutVolume(f) + (IF f.volume = "RISING" THEN 5 * Beyond(WithoutVolume(f), 0) ELSE 0)

\* run > 0 counts the green candles at the end, run < 0 the red ones.
Capitulation(f) == f.rsi < 22 /\ f.mfi < 20 /\ f.run <= -4 /\ f.vs48 < -150 /\ f.m4h < -250
Euphoria(f)     == f.rsi > 78 /\ f.mfi > 80 /\ f.run >= 4  /\ f.vs48 > 150  /\ f.m4h > 250
NewExtreme(f)   == f.volume = "RISING" /\ \/ f.atHigh /\ f.m1h > 50
                                          \/ f.atLow /\ f.m1h < -50

\* The later tests override the earlier ones.
SpecialEvent(f) ==
  CASE NewExtreme(f)   -> "BREAKOUT"
    [] ~NewExtreme(f) /\ f.squeeze -> "SQUEEZE"
    [] OTHER -> IF Euphoria(f) THEN "EUPHORIA"
                ELSE IF Capitulation(f) THEN "CAPITULATION" ELSE "NONE"

Trend(score) == IF score > 0 THEN "UPTREND" ELSE "DOWNTREND"
With(score)  == IF score > 0 THEN "LONG" ELSE "SHORT"
Only(side)   == IF side = "LONG" THEN "LONG_ONLY" ELSE "SHORT_ONLY"

\* Regime, allowed sides and bias of a score.
Classify(score) ==
  CASE Abs(score) >= 40 -> [regime |-> Trend(score), allowed |-> Only(With(score)), bias |-> With(score)]
    [] Abs(score) \in 20..39 -> [regime |-> Trend(score), allowed |-> "BOTH", bias |-> With(score)]
    [] Abs(score) \in 10..19 -> [regime |-> "TRANSITION", allowed |-> "BOTH", bias |-> "NEUTRAL"]
    [] OTHER -> [regime |-> "CHOP", allowed |-> "NONE", bias |-> "NEUTRAL"]

Confidence(score) == IF 3 * Abs(score) >= 200 THEN 100 ELSE (3 * Abs(score)) \div 2

Analyze(f) ==
  LET c == Classify(Score(f))
      e == SpecialEvent(f)
      side == CASE e = "CAPITULATION" -> "LONG" [] e = "EUPHORIA" -> "SHORT" [] OTHER -> c.bias
  IN [regime |-> c.regime, event |-> e, confidence |-> Confidence(Score(f)), bias |-> side,
      allowed |-> IF e \in {"CAPITULATION", "EUPHORIA"} THEN Only(side) ELSE c.allowed]

\* How tired a trend is, out of 100.
ExhaustionScore(f, regime) ==
  LET up    == IF regime = "UPTREND" THEN 1 ELSE -1
      total ==  25 * One(up * (f.rsi - 50) > 25) + 15 * One(up * (f.rsi - 50) > 30)
              + 20 * One(f.volume = "FALLING")
              + 15 * One(up * f.run >= 5) + 10 * One(up * f.run >= 7)
              + 15 * One(up * f.vs21 > 150)
  IN IF regime \in {"UPTREND", "DOWNTREND"} THEN total ELSE 0

\* The second version adds a divergence (its strength, 0 for none) and the age
\* of the last breakout of a level (0 for none): d = [divergence, atLevel].
AnalyzeV2(f, d, age) ==
  LET v     == Analyze(f)
      tired == ExhaustionScore(f, v.regime)
      event == CASE age \in 1..5 -> "BREAKOUT"
                 [] age \in 6..29 /\ d.atLevel -> "RETEST"
                 [] OTHER -> IF tired > 60 /\ d.divergence > 40 THEN "EXHAUSTION" ELSE v.event
  IN [v EXCEPT !.event = event,
               !.regime = IF tired > 70 /\ d.divergence > 0 THEN "REVERSAL_ZONE" ELSE @]

\* Before there are enough candles.
DefaultView == [regime |-> "CHOP", event |-> "NONE", confidence |-> 0, bias |-> "NEUTRAL",
                allowed |-> "NONE"]

(* --- the swing engine's own brain --- *)

SwingScore(f) ==
    (IF f.ema > 0 THEN 12 ELSE -12) + 7 * Beyond(f.slope21, 5) + 8 * Beyond(f.vs21, 15)
  + 5 * Beyond(f.rsi - 50, 5) + 5 * Beyond(f.rsi - 50, 20)
  + 12 * One(f.higherHighs) - 12 * One(f.lowerLows)
  + 5 * Beyond(f.m1h, 50) + 8 * Beyond(f.m4h, 150)

\* f.extreme: the RSI was beyond 70 or below 30, on its side, in the last bars.
SwingEvent(f) ==
  CASE f.rsi <= 22 /\ f.mfi <= 20 /\ f.run <= -4 -> "CAPITULATION"
    [] f.rsi >= 78 /\ f.mfi >= 80 /\ f.run >= 4 -> "EUPHORIA"
    [] OTHER -> IF Abs(SwingScore(f)) >= 25 /\ f.extreme THEN "BREAKOUT" ELSE "NONE"

SwingView(f) ==
  LET c == Classify(SwingScore(f))
  IN [regime |-> c.regime, event |-> SwingEvent(f), confidence |-> Abs(SwingScore(f)),
      bias |-> c.bias, allowed |-> c.allowed]

\* The side of a swing a view speaks for, "none" if it speaks for none.
SwingSide(v) ==
  CASE v.event = "CAPITULATION" -> "LONG"
    [] v.event = "EUPHORIA" -> "SHORT"
    [] v.event = "BREAKOUT" -> IF v.bias = "LONG" THEN "LONG" ELSE "SHORT"
    [] OTHER -> IF v.confidence >= MinConfidenceSwing /\ v.bias # "NEUTRAL" THEN v.bias ELSE "none"

Vetoed(v, side) == \/ v.allowed = "LONG_ONLY" /\ side = "SHORT"
                   \/ v.allowed = "SHORT_ONLY" /\ side = "LONG"

\* block: the sides the moving averages of the hours block.
SwingSignal(v, block) ==
  LET side == SwingSide(v) IN
  IF \/ v.event = "NONE" /\ v.confidence < MinConfidenceSwing
     \/ v.regime = "CHOP"
     \/ v.regime = "TRANSITION" /\ v.event = "NONE"
     \/ side = "none" \/ Vetoed(v, side)
     \/ v.event \notin {"CAPITULATION", "EUPHORIA"} /\ side \in block
  THEN "none" ELSE side

(* --- the macro filter --- *)

\* Hours: price and EMA50 against EMA200, and the two slopes (per 100 000).
HourScore(h) ==
    8 * Beyond(h.vs200, 30) + 7 * Beyond(h.vs200, 150) + 12 * Beyond(h.cross, 50)
  + 8 * Beyond(h.slope50, 100) + 5 * Beyond(h.slope200, 30)

\* Four hours, only with enough history.
FourHourScore(h) ==
  IF ~h.enough4h THEN 0
  ELSE 12 * Beyond(h.cross4h, 80) + 10 * Beyond(h.vs50, 200) + 8 * Beyond(h.slope21, 100)
       + 5 * Beyond(h.days4, 300)

MacroTrend(h) ==
  LET score == HourScore(h) + FourHourScore(h) IN
  IF ~h.enough1h THEN "NEUTRAL"
  ELSE CASE Abs(score) >= 50 -> IF score > 0 THEN "STRONG_BULL" ELSE "STRONG_BEAR"
         [] Abs(score) \in 25..49 -> IF score > 0 THEN "BULL" ELSE "BEAR"
         [] OTHER -> "NEUTRAL"

\* "none" is the filter that has not run: it blocks nothing.
MacroAllows(trend, side) == \/ side = "LONG" /\ trend # "STRONG_BEAR"
                            \/ side = "SHORT" /\ trend # "STRONG_BULL"
================================================================================
