------------------------------ MODULE MCApiServer ------------------------------
(***************************************************************************)
(* Small instance of the API server: two trades of one maker, of which one *)
(* lifts its maker to the next tier, and four orders of two accounts, two   *)
(* of them on levels of which a snapshot shows one.                        *)
(***************************************************************************)
EXTENDS ApiServer

MCTrades == {[maker |-> "m1", taker |-> "t1", makerTrader |-> "ana", takerTrader |-> "bob", volume |-> 10],
             [maker |-> "m2", taker |-> "t2", makerTrader |-> "ana", takerTrader |-> "bob", volume |-> 1]}
MCTiers == {<<0, 10>>, <<10, 15>>, <<50, 20>>, <<100, 30>>}
MCLinks == {<<"ana", "bob">>}

Order(id, trader, side, price, qty, hidden) ==
    [id |-> id, trader |-> trader, well |-> TRUE, side |-> side, type |-> "limit", price |-> price,
     quantity |-> qty, remaining |-> qty, tif |-> "GTC", hidden |-> hidden]
MCRequests == {Order(1, "ana", "buy", 1, 2, FALSE), Order(2, "bob", "sell", 1, 1, FALSE),
               Order(4, "ana", "buy", 2, 1, FALSE),
               [Order(3, "ana", "sell", 1, 1, TRUE) EXCEPT !.well = FALSE]}
================================================================================
