------------------------------- MODULE TradingBot -------------------------------
(***************************************************************************)
(* The bot as it is started: one engine and one executor.                 *)
(***************************************************************************)
EXTENDS ScalpEngine, SwingEngine

Init == ScalpInit \/ SwingInit

Next == ScalpNext \/ SwingNext \/ Tick

Spec == Init /\ [][Next]_botVars

\* The swing engine's own position and the executor's book are two copies: on
\* paper they agree, and live, where orders of several positions can overlap
\* and two closings of one position can be on the way, the position the engine
\* watches is always on the book, so it never closes what is already closed
\* and answered.
SwingGuarded ==
  engine = "swing" =>
    /\ ~live => desk.book.open = IF desk.pos = NoPosition THEN <<>> ELSE <<desk.pos>>
    /\ desk.pos # NoPosition => IsOpen(desk.book, desk.pos.id)
================================================================================
