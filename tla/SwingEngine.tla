------------------------------ MODULE SwingEngine ------------------------------
(***************************************************************************)
(* The swing engine, the bot's default: it keeps one position of its own   *)
(* beside the executor's book, decides on closed five-minute candles and   *)
(* checks its stop and take profit on closed one-minute candles.           *)
(***************************************************************************)
EXTENDS BotDesk

CONSTANT Signals   \* [f, block]: what the indicators can be, and the sides the hours block

NoPosition == [id |-> 0]

NewSwing ==
  [book |-> NewBook(now), breaker |-> NewBreaker(now), entering |-> {}, flights |-> <<>>,
   pos |-> NoPosition, lastSignal |-> -Cooldown["SWING"]]

\* The engine's own position is set when the executor has answered.
Holds(d, p) == [d EXCEPT !.pos = p, !.lastSignal = now]

OpenTrade(d, side) ==
  LET p  == [id |-> opened + 1, engine |-> "SWING", side |-> side, entry |-> price,
             trail |-> FALSE, best |-> 0, at |-> now]
      d1 == [d EXCEPT !.book = OpenPosition(@, p)]
  IN IF live THEN [d1 EXCEPT !.entering = @ \cup {p}] ELSE Holds(d1, p)

\* Faulty form: the cooldown alone keeps a second position out.
FlatOrNot(d) == TRUE

\* Signals are looked for only without a position of the engine's own.
Flat(d) == d.pos = NoPosition

\* onCandle5m and evaluateAndTrade.
EvaluateAndTrade(view, block) ==
  LET side  == SwingSignal(view, block)
      asked == [desk EXCEPT !.breaker = Asked(@, "SWING", now)]
      opens == /\ CanTrade(desk.breaker, "SWING", now)
               /\ now - desk.lastSignal >= Cooldown["SWING"]
               /\ side # "none" /\ opened < MaxOpens
  IN CASE ~Flat(desk)            -> [desk |-> desk, opened |-> opened]
       [] Flat(desk) /\ ~opens  -> [desk |-> asked, opened |-> opened]
       [] OTHER -> [desk |-> OpenTrade(asked, side), opened |-> opened + 1]

\* What closePosition does after the executor: the breaker gets the engine's
\* own result, without fees, and whatever position it has now is forgotten.
SwingBooked(d, p, px, reason) ==
  [d EXCEPT !.book = ClosePosition(@, p, px, reason, now),
            !.breaker = RecordTrade(@, "SWING", Ahead(p, px), reason, now),
            !.lastSignal = now, !.pos = NoPosition]

SwingClosed(d, px, reason) ==
  IF live THEN [d EXCEPT !.flights = Append(@, [pos |-> d.pos, price |-> px, reason |-> reason])]
  ELSE SwingBooked(d, d.pos, px, reason)

\* The extremes of the candle decide, the stop first; the exit is at its close.
CheckExits(d, candle) ==
  LET worst == IF d.pos.side = "LONG" THEN candle.low ELSE candle.high
      best  == IF d.pos.side = "LONG" THEN candle.high ELSE candle.low
  IN IF Flat(d) THEN d
     ELSE IF HitsStop(d.pos, worst) THEN SwingClosed(d, candle.close, "SL")
     ELSE IF HitsTake(d.pos, best) THEN SwingClosed(d, candle.close, "TP")
     ELSE d

Candles == {c \in [low : Prices, high : Prices, close : Prices] :
              c.low <= c.close /\ c.close <= c.high}

OnCandle1m ==
  \E candle \in Candles :
    /\ engine = "swing"
    /\ "1m" \in due /\ due' = due \ {"1m"}
    /\ Len(desk.flights) < MaxFlights[engine]
    /\ desk' = CheckExits(desk, candle) /\ price' = candle.close
    /\ UNCHANGED <<now, engine, live, memory, opened, restarts>>

OnCandle5m ==
  \E s \in Signals :
    /\ engine = "swing"
    /\ "5m" \in due /\ due' = due \ {"5m"}
    /\ LET r == EvaluateAndTrade(SwingView(s.f), s.block)
       IN desk' = r.desk /\ opened' = r.opened
    /\ UNCHANGED <<now, price, engine, live, memory, restarts>>

\* A ticker or a candle that is still open only moves the price.
OnPrice ==
  /\ engine = "swing"
  /\ price' \in Prices
  /\ UNCHANGED <<now, due, engine, live, desk, memory, opened, restarts>>

SwingEntryReported(p) ==
  /\ engine = "swing"
  /\ desk' = Holds([desk EXCEPT !.entering = @ \ {p}], p)
  /\ UNCHANGED <<now, price, due, engine, live, memory, opened, restarts>>

SwingCloseReported(i) ==
  LET flight == desk.flights[i] IN
  /\ engine = "swing"
  /\ desk' = SwingBooked([desk EXCEPT !.flights = RemoveAt(@, i)],
                         flight.pos, flight.price, flight.reason)
  /\ UNCHANGED <<now, price, due, engine, live, memory, opened, restarts>>

\* The answers to what was ordered, in any order; a refusal is logged and no more.
SwingEntryAnswered == \E p \in desk.entering : SwingEntryReported(p)
SwingCloseAnswered == \E i \in DOMAIN desk.flights : SwingCloseReported(i)

\* stop closes the engine's position, waits for the answer and ends the process:
\* what other orders bring meanwhile is lost with it.  A crash closes nothing.
SwingRestart ==
  /\ engine = "swing"
  /\ restarts < MaxRestarts[engine][live]
  /\ restarts' = restarts + 1
  /\ desk' = NewSwing
  /\ UNCHANGED <<now, price, due, engine, live, memory, opened>>

SwingInit == InitBot /\ engine = "swing" /\ desk = NewSwing

SwingNext == \/ OnCandle1m \/ OnCandle5m \/ OnPrice \/ SwingEntryAnswered
             \/ SwingCloseAnswered \/ SwingRestart
================================================================================
