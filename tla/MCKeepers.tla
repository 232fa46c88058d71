------------------------------- MODULE MCKeepers -------------------------------
(***************************************************************************)
(* Small instances of the keepers: two traders and positions of size 1 or  *)
(* 2; two markets with prices of which neighbours are within the allowed   *)
(* change of 10% and deviation of 2%, or beyond; an outage of five funding *)
(* intervals.                                                              *)
(***************************************************************************)
EXTENDS Keepers

MCMarketIds == <<"btc", "eth">>
================================================================================
