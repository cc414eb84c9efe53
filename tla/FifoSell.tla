-------------------------------- MODULE FifoSell --------------------------------
(***************************************************************************)
(* The loop of FIFOEngine.process_sell, statement by statement, over the   *)
(* engine's own copy of the caller's lots.                                 *)
(*                                                                         *)
(* The callers pass open lots (_apply_sell_side) or the replay's list, in  *)
(* which exhausted lots stay (_rebuild_position): a lot is flagged         *)
(* exhausted exactly when nothing is left of it.                           *)
(***************************************************************************)
EXTENDS FifoEngine

CONSTANTS
  Places,  \* length of the list of lots
  Share,   \* what can be left of a lot
  Cost,    \* costs per unit
  Ask      \* quantities to sell

ASSUME FifoSellAssumption ==
  Places \in Nat /\ Share \subseteq Nat /\ Cost \subseteq Nat /\ Ask \subseteq Nat \ {0}

VARIABLES
  given,      \* the caller's lots
  engineLots, \* self._lots, the engine's copy
  sellQty,    \* qty, the quantity to sell
  place,      \* the loop's position in the list
  toSell,     \* remaining_to_sell
  totalCost,  \* total_cost
  outcome     \* how far the call got

sellVars == <<given, engineLots, sellQty, place, toSell, totalCost, outcome>>

Lot == [remaining : Nat, cost : Nat, exhausted : BOOLEAN]

OpenOrSpent(left, cost) == [remaining |-> left, cost |-> cost, exhausted |-> left = 0]

(* The lots of a list as columns. *)
Remaining(list) == [i \in Nat |-> IF i \in 1..Places THEN list[i].remaining ELSE 0]
CostPer(list) == [i \in Nat |-> IF i \in 1..Places THEN list[i].cost ELSE 0]

InitSell ==
  /\ given \in [1..Places -> {OpenOrSpent(left, cost) : left \in Share, cost \in Cost}]
  /\ engineLots = given
  /\ sellQty \in Ask
  /\ place = 1
  /\ toSell = sellQty
  /\ totalCost = 0
  /\ outcome = "checking"

(* available < qty raises InsufficientSharesError. *)
CheckAvailable ==
  /\ outcome = "checking"
  /\ outcome' = IF Available(Remaining(engineLots), Places) < sellQty
                THEN "insufficient" ELSE "selling"
  /\ UNCHANGED <<given, engineLots, sellQty, place, toSell, totalCost>>

InLoop == outcome = "selling" /\ place <= Places /\ toSell > 0

(* Mutation: the loop does not advance past a spent lot. *)
SkipLot_Stays ==
  /\ InLoop
  /\ engineLots[place].remaining <= 0
  /\ UNCHANGED sellVars

SkipLot ==
  /\ InLoop
  /\ engineLots[place].remaining <= 0
  /\ place' = place + 1
  /\ UNCHANGED <<given, engineLots, sellQty, toSell, totalCost, outcome>>

ConsumeLot ==
  /\ InLoop
  /\ engineLots[place].remaining > 0
  /\ LET consume == Smaller(engineLots[place].remaining, toSell)
         left    == engineLots[place].remaining - consume
     IN  /\ totalCost' = totalCost + engineLots[place].cost * consume
         /\ toSell' = toSell - consume
         /\ engineLots' = [engineLots EXCEPT ![place] = OpenOrSpent(left, @.cost)]
  /\ place' = place + 1
  /\ UNCHANGED <<given, sellQty, outcome>>

(* Mutation: the loop stops before the last lot. *)
LeaveLoop_Early ==
  /\ outcome = "selling"
  /\ place >= Places \/ toSell <= 0
  /\ outcome' = "sold"
  /\ UNCHANGED <<given, engineLots, sellQty, place, toSell, totalCost>>

LeaveLoop ==
  /\ outcome = "selling"
  /\ place > Places \/ toSell <= 0
  /\ outcome' = "sold"
  /\ UNCHANGED <<given, engineLots, sellQty, place, toSell, totalCost>>

SellNext == CheckAvailable \/ SkipLot \/ ConsumeLot \/ LeaveLoop

SellSpec == InitSell /\ [][SellNext]_sellVars

FairSellSpec == SellSpec /\ WF_sellVars(SellNext)

--------------------------------------------------------------------------------
(* Properties. *)

SellTypeOK ==
  /\ given \in [1..Places -> Lot] /\ engineLots \in [1..Places -> Lot]
  /\ sellQty \in Nat /\ toSell \in Nat /\ totalCost \in Nat
  /\ place \in 1..(Places + 1)
  /\ outcome \in {"checking", "selling", "sold", "insufficient"}

(* The loop computes the closed form the ledger modules use: what is left  *)
(* of every lot is what the caller passed less Consumed, and a sale books  *)
(* exactly CostOfSale.                                                     *)
ComputesClosedForm ==
  outcome = "sold" =>
    /\ \A i \in 1..Places :
         engineLots[i].remaining = given[i].remaining - Consumed(Remaining(given), sellQty)[i]
    /\ totalCost = CostOfSale(Remaining(given), CostPer(given), sellQty, Places)

(* A refused sale was short of shares, and touched nothing; an accepted    *)
(* one sold every share it was asked for.                                  *)
AllOrNothing ==
  /\ outcome = "insufficient" => engineLots = given /\ Available(Remaining(given), Places) < sellQty
  /\ outcome = "sold" =>
       Available(Remaining(engineLots), Places) = Available(Remaining(given), Places) - sellQty

(* First in, first out, at every moment of the loop: a lot is touched only *)
(* when every earlier one is spent, and the flag tells spent lots.         *)
OldestFirst ==
  \A j \in 1..Places :
    /\ engineLots[j] # given[j] => \A i \in 1..(j - 1) : engineLots[i].remaining = 0
    /\ engineLots[j].exhausted <=> engineLots[j].remaining = 0

(* The call returns or raises. *)
SellReturns == <>(outcome \in {"sold", "insufficient"})
================================================================================
