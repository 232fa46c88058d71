-------------------------------- MODULE BotDesk --------------------------------
(***************************************************************************)
(* What both engines of the trading bot share: the market they listen to,  *)
(* the executor (paper or live) with the orders it has sent, and the        *)
(* database that survives restarts.                                        *)
(*                                                                         *)
(* desk is the memory of the process, a record that each handler takes and *)
(* gives back: handlers run to their first await without interruption.     *)
(* The paper executor never awaits anything that takes time.  The live one *)
(* books a position first and then sends the order, and on closing sends   *)
(* the order, waits however long the answer takes, and then books: those   *)
(* are the orders in desk.entering and desk.flights.                       *)
(***************************************************************************)
EXTENDS CircuitBreaker, PaperExecutor, MarketBrain, FiniteSets

CONSTANTS
  Prices,             \* prices of the market
  Cooldown,           \* [strategy -> time between two entries]
  MemoryWindow,       \* trades the performance tracker looks back (20)
  MinTrades,          \* trades in the database before it is consulted (20)
  MinSample,          \* trades of an engine before it can be disabled (15)
  MinWinPct,          \* win rate below which it is (35)
  Modes,              \* subset of BOOLEAN: TRUE for the live executor, FALSE for paper
  CandlesPer5m,       \* minutes of a long candle (5)
  EngineTypes,        \* subset of {"scalp", "swing"}: what --engine may say
  MaxOpens, MaxPending,   \* bounds
  MaxFlights, MaxTime,    \* bounds for each engine
  MaxRestarts             \* bound for each engine and executor

VARIABLES
  now, price,         \* time and the price of the last ticker
  engine, live,       \* chosen at start: which engine, and the live or the paper executor
  desk,               \* memory of the process
  memory,             \* the database: rows of closed trades, engines enabled
  due,                \* candles of this minute that the streams still have to deliver
  opened,             \* positions ever opened; its value is the next one's id
  restarts

botVars == <<now, price, due, engine, live, desk, memory, opened, restarts>>

NoFlight == [pos |-> [id |-> 0], price |-> 0, reason |-> "none", rest |-> <<>>]

(* --- the database: TradeMemory, PerformanceTracker, AdaptiveEngine --- *)

\* Faulty form: the defaults replace what is there.
InitDefaultsReplacing(m) == [m EXCEPT !.enabled = [e \in Engines |-> TRUE]]

\* What the constructor adds to the database, where it is not there yet.
InitDefaults(m) == [m EXCEPT !.enabled = [e \in Engines |-> e \in DOMAIN @ => @[e]]]

EmptyMemory == [rows |-> <<>>, enabled |-> <<>>]

\* A row with the same id is replaced and becomes the latest.
RecordRow(m, p, px) ==
  [m EXCEPT !.rows = Append(SelectSeq(@, LAMBDA r : r.id # p.id),
                            [id |-> p.id, engine |-> p.engine, win |-> NetPnl(p, px) > 0])]

Recent(m, e) ==
  LET rows == SelectSeq(m.rows, LAMBDA r : r.engine = e)
  IN SubSeq(rows, IF Len(rows) > MemoryWindow THEN Len(rows) - MemoryWindow + 1 ELSE 1, Len(rows))

\* TREND_RIDER has no parameter in the database and is never struggling.
Struggles(m, e) ==
  LET rows == Recent(m, e)
      wins == Len(SelectSeq(rows, LAMBDA r : r.win))
  IN /\ e # "TREND_RIDER"
     /\ Len(rows) >= MinSample
     /\ 100 * wins < MinWinPct * Len(rows)

CheckAutoDisable(m) ==
  IF Len(m.rows) < MinTrades THEN m
  ELSE [m EXCEPT !.enabled = [e \in Engines |-> @[e] /\ ~Struggles(m, e)]]

(* --- opening and closing: a work record w = [desk, memory, opened] --- *)

Opened(w, e, side, entry) ==
  IF w.opened = MaxOpens THEN w
  ELSE LET p == [id |-> w.opened + 1, engine |-> e, side |-> side, entry |-> entry,
                 trail |-> FALSE, best |-> 0, at |-> now]
       IN [w EXCEPT !.opened = @ + 1,
                    !.desk.book = OpenPosition(@, p),
                    !.desk.entering = IF live THEN @ \cup {[id |-> p.id, side |-> side]} ELSE @]

\* What closePosition does once the executor has answered.
Booked(w, p, px, reason) ==
  [w EXCEPT !.desk.book = ClosePosition(@, p, px, reason, now),
            !.memory = RecordRow(@, p, px)]

(* --- start and time --- *)

InitBot ==
  /\ now = 0 /\ due = {} /\ price \in Prices
  /\ engine \in EngineTypes /\ live \in Modes
  /\ memory = InitDefaults(EmptyMemory) /\ opened = 0 /\ restarts = 0

\* A minute passes and its candles close; one not delivered by now is lost.
Tick ==
  /\ now < MaxTime[engine]
  /\ now' = now + 1
  /\ due' = IF now' % CandlesPer5m = 0 THEN {"1m", "5m"} ELSE {"1m"}
  /\ UNCHANGED <<price, engine, live, desk, memory, opened, restarts>>
================================================================================
