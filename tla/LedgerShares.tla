------------------------------ MODULE LedgerShares ------------------------------
(***************************************************************************)
(* The ledger with dividends implements the queue of shares: lots read in  *)
(* id order, each standing for its remaining shares at its cost per unit,  *)
(* and realised totals read off the position rows.                         *)
(***************************************************************************)
EXTENDS LedgerDividends

(* The place of a queue that holds its i-th share.                         *)
LotAt(queue, last, i) ==
  CHOOSE l \in 1..last : Available(queue, l - 1) < i /\ i <= Available(queue, l)

(* What the shares of a queue cost, oldest lot first.                      *)
SharesIn(queue, unitCost, last) ==
  [i \in 1..Available(queue, last) |-> unitCost[LotAt(queue, last, i)]]

SharesOf(k) == SharesIn(Queue(lots, k), UnitCost(lots, k), lotSeq)

Promise == INSTANCE ShareQueue WITH
  Position <- Key,
  held     <- [k \in Key |-> SharesOf(k)],
  realized <- [k \in Key |-> PriorRealized(k)]

(* Every request does to the queue of shares what its operation promises,  *)
(* or nothing: a sale consumes the oldest shares at their own cost, and no *)
(* request moves shares or money of another position (trade_service.py,    *)
(* _apply_sell_side: "Consume oldest open lots FIFO").                     *)
ImplementsShareQueue == Promise!QueueSpec
================================================================================
