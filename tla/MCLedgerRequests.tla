---------------------------- MODULE MCLedgerRequests ----------------------------
(* Instances of LedgerRequests for TLC: a buyer, two sellers, and an import  *)
(* that buys and then sells from several lots, its own included.             *)
EXTENDS LedgerRequests, TLC

CONSTANTS buyer, seller1, seller2, importer

Buy(n, cost) == [action |-> "BUY", qty |-> n, unit |-> cost]
Sell(n, proceeds) == [action |-> "SELL", qty |-> n, unit |-> proceeds]

Requests ==
  buyer :> <<Buy(1, 2)>> @@ seller1 :> <<Sell(3, 5)>> @@ seller2 :> <<Sell(2, 4)>>
    @@ importer :> <<Buy(2, 6), Sell(3, 7)>>

TwoLots == <<[remaining |-> 2, cost |-> 1], [remaining |-> 2, cost |-> 3]>>
================================================================================
