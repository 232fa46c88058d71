---------------------------- MODULE MCTwinEngines ----------------------------
(***************************************************************************)
(* Two prices and two sizes; every time in force.  The last kinds are too     *)
(* small, off the ticks and too large; the port takes the last one.  Its      *)
(* fill-or-kill check looks at one level.                                  *)
(***************************************************************************)
EXTENDS TwinEngines

Kind(side, type, price, quantity, tif, hidden) ==
    [side |-> side, type |-> type, price |-> price, quantity |-> quantity, tif |-> tif,
     hidden |-> hidden]

BothSides == {"buy", "sell"}

MCKinds ==
    {Kind(side, "limit", price, quantity, "GTC", FALSE) :
        side \in BothSides, price \in {2, 4}, quantity \in {2, 4}}
    \union {Kind(side, "limit", 4, 2, "GTC", TRUE) : side \in BothSides}
    \union {Kind(side, "limit", 4, 2, "PostOnly", FALSE) : side \in BothSides}
    \union {Kind(side, "limit", price, 4, "FOK", FALSE) :
               side \in BothSides, price \in {2, 4}}
    \union {Kind(side, "limit", 4, 4, "IOC", FALSE) : side \in BothSides}
    \union {Kind(side, "market", 0, 4, "IOC", FALSE) : side \in BothSides}
    \union {Kind("buy", "limit", 2, 1, "GTC", FALSE), Kind("buy", "limit", 3, 2, "GTC", FALSE),
                  Kind("sell", "limit", 4, 6, "GTC", FALSE)}
=============================================================================
