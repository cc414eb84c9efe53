----------------------------- MODULE MCTradeJournal -----------------------------
(* Instances of TradeJournal for TLC. *)
EXTENDS TradeJournal, TLC

CONSTANTS c1, c2

(* Nothing tells the connections apart. *)
Connections == Permutations({c1, c2})
================================================================================
