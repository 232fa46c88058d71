------------------------------ MODULE ScalpEngine ------------------------------
(***************************************************************************)
(* The scalping engine: up to six strategies that open positions on closed *)
(* one-minute candles, each with its own limits, and one that decides      *)
(* after waiting for derivatives data.  The strategies that the source     *)
(* keeps but never calls are left out.                                     *)
(***************************************************************************)
EXTENDS BotDesk

CONSTANTS
  Limit,              \* [engine -> positions it may hold at a time]
  MaxTotalPositions,
  MinConfidenceSniper, MaxConfidenceGrid, MinConfidenceReversal,
  ToxicTimes,         \* the times the grid does not trade
  RegimePause, StopsWindow, AnalysisInterval, AdaptiveInterval,
  Hour, RidesPerHour, \* trend rides closed within an hour that keep the next one out
  RetestMin, RetestMax, BreakoutForgotten,  \* ages of a breakout, in analyses
  Reports,            \* [f, d]: what indicators and structure can be
  Macros,             \* trends the macro filter can find
  WarmupCandles, MaxCandles, MacroMinCandles,  \* sizes of the five-minute buffer
  Setups              \* which entries the candles confirm

ASSUME ScalpAssumption == Limit \in [Engines -> Nat]

NoStops == <<>>

\* The engine after construction and warmup, over a new executor.
NewScalp ==
  [book |-> NewBook(now), breaker |-> NewBreaker(now), entering |-> {}, flights |-> <<>>,
   cool |-> [e \in Engines |-> 0], lastSwing |-> -Cooldown["SWING"], stops |-> NoStops,
   pauseUntil |-> 0, recorded |-> 0, view |-> DefaultView, lastAnalysis |-> -AnalysisInterval,
   age |-> 0, lastRun |-> -AdaptiveInterval, close5 |-> price, n5 |-> WarmupCandles,
   macro |-> "none", pending |-> <<>>]

IsOnCooldown(d, e) == now < d.cool[e]

\* Newly closed trades reach the breaker with the time of recording.
RecordNewTradesInCB(d) ==
  LET new == SubSeq(d.book.closed, d.recorded + 1, Len(d.book.closed))
  IN [d EXCEPT !.breaker = FoldLeft(LAMBDA cb, t : RecordTrade(cb, t.engine, t.pnl, t.reason, now),
                                    @, new),
               !.recorded = Len(d.book.closed)]

MacroUpdates(d, trend) ==
  IF d.n5 >= MacroMinCandles THEN [d EXCEPT !.macro = trend] ELSE d

\* Two stops on one side within the window pause the engines that follow the regime.
OnStopLossHit(d, side) ==
  LET stops == SelectSeq(Append(d.stops, [side |-> side, at |-> now]),
                         LAMBDA s : now - s.at < 2 * StopsWindow)
      same  == SelectSeq(stops, LAMBDA s : s.side = side /\ now - s.at < StopsWindow)
      alert == Len(same) >= 2 /\ now > d.pauseUntil
  IN [d EXCEPT !.stops = stops,
               !.pauseUntil = IF alert THEN now + RegimePause ELSE @,
               !.lastAnalysis = IF alert THEN -AnalysisInterval ELSE @]

(* --- closing --- *)

\* closePosition and the loop of checkOpenPositions around it: each item is
\* closed before the next is looked at; with the live executor the first one
\* still open leaves an order in flight and the rest waiting.
CloseOne(w, flight, item) ==
  LET p  == item.position
      w1 == IF item.reason = "SL" THEN [w EXCEPT !.desk = OnStopLossHit(@, p.side)] ELSE w
  IN IF flight.pos.id # 0
       THEN [w |-> w, flight |-> [flight EXCEPT !.rest = Append(@, item)]]
     ELSE IF ~IsOpen(w.desk.book, p.id) THEN [w |-> w1, flight |-> flight]
     ELSE IF live THEN [w |-> w1, flight |-> [pos |-> p, price |-> w.price, reason |-> item.reason,
                                              rest |-> <<>>]]
     ELSE [w |-> Booked(w1, p, w.price, item.reason), flight |-> flight]

ClosedInTurn(w, items) ==
  LET r == FoldLeft(LAMBDA acc, item : CloseOne(acc.w, acc.flight, item),
                    [w |-> w, flight |-> NoFlight], items)
  IN IF r.flight.pos.id = 0 THEN r.w
     ELSE [r.w EXCEPT !.desk.flights = Append(@, r.flight)]

(* --- the strategies: each takes a work record and gives one back --- *)

Entered(w, e, side, entry) ==
  [Opened(w, e, side, entry) EXCEPT !.desk.cool[e] = now + Cooldown[e]]

\* Faulty form: the cooldown is taken for enough.
MayEnterUncounted(w, e) == ~IsOnCooldown(w.desk, e) /\ w.opened < MaxOpens

MayEnter(w, e) ==
  /\ ~IsOnCooldown(w.desk, e)
  /\ Len(HeldBy(w.desk.book, e)) < Limit[e]
  /\ w.opened < MaxOpens

EvaluateBreakoutRetest(w, s) ==
  IF /\ w.desk.age \in RetestMin..RetestMax
     /\ MayEnter(w, "BREAKOUT_RETEST") /\ s.retest # "none"
  THEN Entered(w, "BREAKOUT_RETEST", s.retest, w.desk.close5) ELSE w

EvaluateSniper(w, s) ==
  LET v == w.desk.view IN
  IF /\ v.confidence >= MinConfidenceSniper /\ v.regime \in {"UPTREND", "DOWNTREND"}
     /\ MayEnter(w, "SNIPER") /\ s.sniper
  THEN Entered(w, "SNIPER", IF v.regime = "UPTREND" THEN "LONG" ELSE "SHORT", w.desk.close5)
  ELSE w

\* The breaker is asked after the other tests, the macro filter after the breaker.
EvaluateSwing(w) ==
  LET v     == w.desk.view
      side  == SwingSide(v)
      speaks ==
               /\ v.event # "NONE" \/ v.confidence >= MinConfidenceSwing
               /\ Len(HeldBy(w.desk.book, "SWING")) < Limit["SWING"]
               /\ now - w.desk.lastSwing >= Cooldown["SWING"]
               /\ side # "none" /\ ~Vetoed(v, side)
               /\ w.opened < MaxOpens
      asked == [w EXCEPT !.desk.breaker = Asked(@, "SWING", now)]
  IN IF ~speaks THEN w
     ELSE IF CanTrade(w.desk.breaker, "SWING", now) /\ MacroAllows(w.desk.macro, side)
          THEN [Opened(asked, "SWING", side, w.price) EXCEPT !.desk.lastSwing = now]
          ELSE asked

\* Outside a chop the grid closes what it holds, all positions at the same time.
EvaluateGrid(w, s) ==
  LET held == HeldBy(w.desk.book, "GRID") IN
  IF w.desk.view.regime # "CHOP"
    THEN FoldLeft(LAMBDA acc, p : ClosedInTurn(acc, <<[position |-> p, reason |-> "REGIME_CHANGE"]>>),
                  w, held)
  ELSE IF /\ w.desk.view.confidence <= MaxConfidenceGrid
          /\ MayEnter(w, "GRID") /\ s.grid # "none"
       THEN Entered(w, "GRID", s.grid, w.price)
  ELSE w

ReversalSide(v) ==
  IF v.regime = "UPTREND" \/ (v.regime = "REVERSAL_ZONE" /\ v.bias = "LONG")
    THEN "SHORT" ELSE "LONG"

\* s.reversal is the confidence of the confirmations, 0 for too few of them.
EvaluateReversal(w, s) ==
  LET v    == w.desk.view
      side == ReversalSide(v)
  IN IF /\ v.regime \in {"UPTREND", "DOWNTREND", "REVERSAL_ZONE"}
        /\ MayEnter(w, "REVERSAL")
        /\ s.reversal >= MinConfidenceReversal
        /\ Vetoed(v, side) => s.reversal >= 70
     THEN Entered(w, "REVERSAL", side, w.desk.close5) ELSE w

If(w, e, evaluated) == IF w.memory.enabled[e] THEN evaluated ELSE w

(* evaluate: s is what the candles confirm, f and d what an analysis finds. *)
AdaptiveRun(w) ==
  IF now - w.desk.lastRun < AdaptiveInterval THEN w
  ELSE [w EXCEPT !.desk.lastRun = now, !.memory = CheckAutoDisable(@)]

Aged(age, breakout) ==
  IF breakout THEN 1 ELSE IF age = 0 \/ age = BreakoutForgotten THEN 0 ELSE age + 1

Analyzed(w, f, d) ==
  IF now - w.desk.lastAnalysis < AnalysisInterval THEN w
  ELSE LET age == Aged(w.desk.age, d.breakout)
       IN [w EXCEPT !.desk.lastAnalysis = now, !.desk.age = age,
                    !.desk.view = AnalyzeV2(f, d, age)]

InPause(w, s) ==
  LET w1 == If(w, "SNIPER", EvaluateSniper(w, s))
  IN If(w1, "BREAKOUT_RETEST", EvaluateBreakoutRetest(w1, s))

InTurn(w, s) ==
  LET w1 == If(w, "BREAKOUT_RETEST", EvaluateBreakoutRetest(w, s))
      w2 == If(w1, "SNIPER", EvaluateSniper(w1, s))
      w3 == If(w2, "SWING", EvaluateSwing(w2))
      w4 == IF now \in ToxicTimes THEN w3 ELSE If(w3, "GRID", EvaluateGrid(w3, s))
  IN If(w4, "REVERSAL", EvaluateReversal(w4, s))

\* The room for positions is asked once, for all the strategies of a turn.
Evaluate(w0, s, f, d) ==
  LET w == Analyzed(AdaptiveRun(w0), f, d) IN
  IF w0.desk.book.tripped THEN w0
  ELSE IF Len(w.desk.book.open) >= MaxTotalPositions THEN w
  ELSE IF now < w.desk.pauseUntil THEN InPause(w, s) ELSE InTurn(w, s)

(* --- the second evaluation, which awaits the derivatives data --- *)

HasRoom(d) == Len(d.book.open) < MaxTotalPositions

\* What the candles said, and the long candle's close, is kept across the wait.
StartV4(w, s) ==
  IF ~HasRoom(w.desk) THEN w
  ELSE [w EXCEPT !.desk.pending = Append(@, [rider |-> s.rider, price |-> w.desk.close5])]

RodeLately(d) ==
  Len(SelectSeq(d.book.closed, LAMBDA t : t.engine = "TREND_RIDER" /\ t.at > now - Hour))
    >= RidesPerHour

EvaluateTrendRider(w, snapshot) ==
  IF /\ MayEnter(w, "TREND_RIDER") /\ ~RodeLately(w.desk)
     /\ snapshot.rider # "none" /\ MacroAllows(w.desk.macro, snapshot.rider)
  THEN Entered(w, "TREND_RIDER", snapshot.rider, snapshot.price) ELSE w

\* Faulty form: the breaker is not asked again after the wait.
ResumeV4Unasked(w, snapshot) == IF HasRoom(w.desk) THEN EvaluateTrendRider(w, snapshot) ELSE w

ResumeV4(w, snapshot) ==
  LET asked == [w EXCEPT !.desk.breaker = Asked(@, "TREND_RIDER", now)] IN
  IF ~HasRoom(w.desk) THEN w
  ELSE IF CanTrade(w.desk.breaker, "TREND_RIDER", now) THEN EvaluateTrendRider(asked, snapshot)
  ELSE asked

(* --- the handlers --- *)

Work(px) == [desk |-> desk, memory |-> memory, opened |-> opened, price |-> px]
Becomes(w) == /\ desk' = w.desk /\ memory' = w.memory /\ opened' = w.opened
              /\ price' = w.price

HandleKline1m ==
  \E s \in Setups, r \in Reports, trend \in Macros :
    /\ engine = "scalp"
    /\ "1m" \in due /\ due' = due \ {"1m"}
    /\ Len(desk.pending) < MaxPending /\ Len(desk.flights) < MaxFlights[engine]
    /\ LET d1 == MacroUpdates(RecordNewTradesInCB(desk), trend)
       IN Becomes(StartV4(Evaluate([Work(price) EXCEPT !.desk = d1], s, r.f, r.d), s))
    /\ UNCHANGED <<now, engine, live, restarts>>

HandleKline5m ==
  /\ engine = "scalp"
  /\ "5m" \in due /\ due' = due \ {"5m"}
  /\ desk' = [desk EXCEPT !.close5 = price, !.n5 = IF @ = MaxCandles THEN @ ELSE @ + 1]
  /\ UNCHANGED <<now, price, engine, live, memory, opened, restarts>>

EvaluateV4 ==
  /\ engine = "scalp"
  /\ desk.pending # <<>>
  /\ Becomes(ResumeV4([Work(price) EXCEPT !.desk.pending = Tail(@)], Head(desk.pending)))
  /\ UNCHANGED <<now, due, engine, live, restarts>>

HandleTicker ==
  \E px \in Prices :
    /\ engine = "scalp"
    /\ Len(desk.flights) < MaxFlights[engine]
    /\ Becomes(ClosedInTurn([Work(px) EXCEPT !.desk.book = UpdatePositions(@, px)],
                            ToClose(desk.book, px, now)))
    /\ UNCHANGED <<now, due, engine, live, restarts>>

\* The answer to an entry order; a failure is logged and the position stays.
EntryReported(order) ==
  /\ engine = "scalp"
  /\ desk' = [desk EXCEPT !.entering = @ \ {order}]
  /\ UNCHANGED <<now, price, due, engine, live, memory, opened, restarts>>

EntryAnswered == \E order \in desk.entering : EntryReported(order)

\* The answer to a closing order: booked whatever it says, and whether or not
\* the position is still on the book.
CloseReported(i) ==
  LET flight == desk.flights[i] IN
  /\ engine = "scalp"
  /\ Becomes(ClosedInTurn(Booked([Work(price) EXCEPT !.desk.flights = RemoveAt(@, i)],
                                 flight.pos, flight.price, flight.reason),
                          flight.rest))
  /\ UNCHANGED <<now, due, engine, live, restarts>>

CloseAnswered == \E i \in DOMAIN desk.flights : CloseReported(i)

\* A crash, or a stop, which closes nothing; the process is started again.  What
\* the exchange holds is forgotten: an entry of live mode stays there untracked.
Restart ==
  /\ engine = "scalp"
  /\ restarts < MaxRestarts[engine][live]
  /\ restarts' = restarts + 1
  /\ desk' = NewScalp
  /\ memory' = InitDefaults(memory)
  /\ UNCHANGED <<now, price, due, engine, live, opened>>

ScalpInit == InitBot /\ engine = "scalp" /\ desk = NewScalp

ScalpNext == \/ HandleKline1m \/ HandleKline5m \/ HandleTicker \/ EvaluateV4
             \/ EntryAnswered \/ CloseAnswered \/ Restart

(* --- properties --- *)

\* Entries are decided at several places, one of them after a wait and on what
\* was seen before it; still no strategy exceeds its own number of positions.
EngineLimits == engine = "scalp" => \A e \in Engines : Len(HeldBy(desk.book, e)) <= Limit[e]

NewlyOpened == {e \in Engines : \E i \in DOMAIN desk'.book.open :
                  desk'.book.open[i].id > opened /\ desk'.book.open[i].engine = e}

\* A strategy that lost too often stays off, across restarts too: nothing in
\* the bot turns it on again, and no path opens a position for it.
DisabledForGood ==
  [][\A e \in Engines : ~memory.enabled[e] => ~memory'.enabled[e] /\ e \notin NewlyOpened]_botVars

\* A pause holds at the moment of entry, not of the decision: a swing, and a
\* trend ride that waited for data, is entered only if the breaker lets its
\* strategy trade then; and of what the candle's handler itself decides only the
\* structure-based strategies enter while the regime pauses.  The ride is decided
\* after the wait and never asks for that pause.
PausesHold ==
  [][engine = "scalp" =>
     /\ \A e \in NewlyOpened \cap {"SWING", "TREND_RIDER"} : CanTrade(desk'.breaker, e, now)
     /\ now < desk.pauseUntil =>
          NewlyOpened \subseteq {"SNIPER", "BREAKOUT_RETEST", "TREND_RIDER"}]_botVars
================================================================================
