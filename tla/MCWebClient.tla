------------------------------- MODULE MCWebClient -------------------------------
(***************************************************************************)
(* Small instance of the trading page: two markets under one price that    *)
(* takes two values, tickets that open, add, flip, rest and stop, a fee of *)
(* a twelfth and margin tiers of a half and of the whole.                  *)
(***************************************************************************)
EXTENDS WebClient

Ticket(m, side, type, price, stop, size, lev) ==
  [id |-> 0, market |-> m, side |-> side, type |-> type, price |-> price, stop |-> stop,
   size |-> size, leverage |-> lev, tp |-> 0, sl |-> 0, group |-> 0]

MCTickets == {Ticket("BTC", "buy", "market", 0, 0, 3, 2),
              Ticket("BTC", "sell", "market", 0, 0, 2, 1),
              Ticket("BTC", "buy", "limit", 12, 0, 4, 2),
              Ticket("ETH", "sell", "stopLimit", 12, 24, 1, 1)}
MCPairs == {<<Ticket("BTC", "sell", "limit", 24, 0, 1, 1), Ticket("BTC", "sell", "stopMarket", 0, stop, 1, 1)>>
            : stop \in {12, 24}}
\* One order that reserves all there is.
WholeTicket == {Ticket("BTC", "buy", "limit", 12, 0, 12, 2)}
MCAllTickets == MCTickets \union WholeTicket
MCTiers == <<[max |-> 24, part |-> 2], [max |-> 0, part |-> 1]>>
================================================================================
