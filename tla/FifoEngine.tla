------------------------------- MODULE FifoEngine -------------------------------
(***************************************************************************)
(* The pure FIFO engine (modules/trade_journal/fifo_engine.py) and the     *)
(* thin wrapper over it (modules/portfolio/cost_basis.py).                 *)
(*                                                                         *)
(* A queue of lots is a column of remaining quantities: place i of the     *)
(* queue holds queue[i] shares, an empty place holds 0.  The loop of       *)
(* process_sell skips a lot with nothing left, so empty places are         *)
(* transparent to it, and the open lots of a position can be numbered by   *)
(* their lot ids.  Module FifoSell runs the loop itself and shows that it  *)
(* computes the closed form Consumed below.                                *)
(***************************************************************************)
EXTENDS Sums

(* Mutation: the larger of the two, max for min. *)
Smaller_Larger(a, b) == IF a <= b THEN b ELSE a

Smaller(a, b) == IF a <= b THEN a ELSE b

(* Shares held at the places 1..last. *)
Available(queue, last) == RunningSum(queue)[last]

(* What a SELL of qty takes from each place: when the loop arrives at      *)
(* place i it still has to sell qty minus everything the earlier places    *)
(* held.                                                                   *)
Consumed(queue, qty) ==
  LET upTo == RunningSum(queue)
  IN  [i \in Nat |-> LET left == qty - (upTo[i] - queue[i])
                     IN  IF left <= 0 THEN 0 ELSE Smaller(left, queue[i])]

(* Mutations: the whole cost of every lot a sale touches, and the average  *)
(* cost of all the shares held.                                            *)
CostOfSale_WholeLots(queue, unitCost, qty, last) ==
  LET taken == Consumed(queue, qty)
  IN  RunningSum([i \in Nat |-> IF taken[i] > 0 THEN queue[i] * unitCost[i] ELSE 0])[last]

CostOfSale_Average(queue, unitCost, qty, last) ==
  (qty * RunningSum([i \in Nat |-> queue[i] * unitCost[i]])[last]) \div Available(queue, last)

(* The cost that leaves the books with those shares, over places 1..last.  *)
CostOfSale(queue, unitCost, qty, last) ==
  LET taken == Consumed(queue, qty)
  IN  RunningSum([i \in Nat |-> taken[i] * unitCost[i]])[last]
================================================================================
