--------------------------- MODULE TradeJournalProofs ---------------------------
(***************************************************************************)
(* The trade journal, from its engine to its books.                        *)
(*                                                                         *)
(* First, the loop of process_sell is correct for every list of lots and   *)
(* every quantity.  The argument is one invariant over the prefix of the   *)
(* list that the loop has passed: it has been sold as the closed form      *)
(* says, and the rest has not been touched.                                *)
(*                                                                         *)
(* Then, what the journal keeps for any connections, quantities, prices    *)
(* and ratios.  QuantityInv carries the quantity through interleavings.    *)
(* SerialInv is about trades that never overlapped: what the one trade at  *)
(* work is going to commit follows from the lots as they are, and behind a *)
(* lot that was sold from every lot is spent, so a sale is the first from  *)
(* each lot it changes unless it takes from the one that was left open.    *)
(***************************************************************************)
EXTENDS FifoSell, TradeJournal, FifoEngineProofs

Asked == Remaining(given)

(* What is left to sell before place p, and what was booked by then.       *)
LeftToSell(p) ==
  IF sellQty <= Available(Asked, p - 1) THEN 0 ELSE sellQty - Available(Asked, p - 1)

LoopInv ==
  /\ SellTypeOK
  /\ \A i \in 1..Places :
       /\ given[i].exhausted <=> given[i].remaining = 0
       /\ engineLots[i].exhausted <=> engineLots[i].remaining = 0
       /\ engineLots[i].cost = given[i].cost
       /\ i < place => engineLots[i].remaining = given[i].remaining - Consumed(Asked, sellQty)[i]
       /\ i >= place => engineLots[i] = given[i]
  /\ toSell = LeftToSell(place)
  /\ totalCost = CostOfSale(Asked, CostPer(given), sellQty, place - 1)
  /\ outcome \in {"checking", "insufficient"} => place = 1
  /\ outcome = "insufficient" => Available(Asked, Places) < sellQty
  /\ outcome \in {"selling", "sold"} => sellQty <= Available(Asked, Places)
  /\ outcome = "sold" => place = Places + 1 \/ toSell = 0

(* The columns of a well-typed list.                                       *)
LEMMA ListColumns ==
  ASSUME SellTypeOK, Places \in Nat
  PROVE  /\ Remaining(given) \in [Nat -> Nat] /\ CostPer(given) \in [Nat -> Nat]
         /\ Remaining(engineLots) \in [Nat -> Nat]
         /\ \A i \in 1..Places : /\ Remaining(given)[i] = given[i].remaining
                                 /\ Remaining(engineLots)[i] = engineLots[i].remaining
                                 /\ CostPer(given)[i] = given[i].cost
BY DEF SellTypeOK, Lot, Remaining, CostPer

(* The cost of a sale accumulates place by place.                          *)
LEMMA CostAccumulates ==
  ASSUME NEW queue \in [Nat -> Nat], NEW unit \in [Nat -> Nat], NEW q \in Nat
  PROVE  /\ CostOfSale(queue, unit, q, 0) = 0
         /\ \A n \in Nat : /\ CostOfSale(queue, unit, q, n) \in Nat
                           /\ CostOfSale(queue, unit, q, n + 1)
                                = CostOfSale(queue, unit, q, n) + Consumed(queue, q)[n + 1] * unit[n + 1]
<1> DEFINE taken == Consumed(queue, q)
<1> DEFINE value == [i \in Nat |-> taken[i] * unit[i]]
<1>1. taken \in [Nat -> Nat]
  BY ConsumedBounds
<1> HIDE DEF taken
<1>2. value \in [Nat -> Nat] /\ value \in [Nat -> Int]
  <2>1. \A i \in Nat : taken[i] * unit[i] \in Nat
    BY <1>1
  <2> QED BY <2>1
<1>3. \A n \in Nat : value[n + 1] = taken[n + 1] * unit[n + 1]
  OBVIOUS
<1>4. \A n \in Nat : CostOfSale(queue, unit, q, n) = RunningSum(value)[n]
  BY DEF CostOfSale, taken
<1> HIDE DEF value
<1>5. /\ RunningSum(value) \in [Nat -> Nat] /\ RunningSum(value)[0] = 0
      /\ \A n \in Nat : RunningSum(value)[n + 1] = RunningSum(value)[n] + value[n + 1]
  BY <1>2, SumNatural
<1> QED BY <1>3, <1>4, <1>5 DEF taken

(* What Consumed says of the place the loop has reached.                   *)
LEMMA NextPlace ==
  ASSUME NEW queue \in [Nat -> Nat], NEW q \in Nat, NEW p \in Nat, p > 0
  PROVE  /\ Available(queue, p) = Available(queue, p - 1) + queue[p]
         /\ Available(queue, p - 1) \in Nat
         /\ Consumed(queue, q)[p] = IF q <= Available(queue, p - 1) THEN 0
                                    ELSE Smaller(q - Available(queue, p - 1), queue[p])
<1> DEFINE upTo == RunningSum(queue)
<1>1. upTo \in [Nat -> Nat] /\ \A n \in Nat : upTo[n + 1] = upTo[n] + queue[n + 1]
  BY SumNatural
<1>2. Consumed(queue, q)[p] = LET left == q - (upTo[p] - queue[p])
                              IN  IF left <= 0 THEN 0 ELSE Smaller(left, queue[p])
  BY DEF Consumed
<1> HIDE DEF upTo
<1>3. p - 1 \in Nat /\ (p - 1) + 1 = p
  OBVIOUS
<1>4. upTo[p] = upTo[p - 1] + queue[p] /\ upTo[p - 1] \in Nat /\ queue[p] \in Nat
  <2>1. upTo[(p - 1) + 1] = upTo[p - 1] + queue[(p - 1) + 1]
    BY <1>1, <1>3
  <2> QED BY <2>1, <1>1, <1>3
<1>5. upTo[p] - queue[p] = upTo[p - 1]
  BY <1>4
<1>6. Consumed(queue, q)[p] = IF q <= upTo[p - 1] THEN 0 ELSE Smaller(q - upTo[p - 1], queue[p])
  BY <1>2, <1>4, <1>5
<1> QED BY <1>4, <1>6 DEF Available, upTo

(* The loop starts with everything still to sell and nothing taken.        *)
LEMMA InitLoop == InitSell => LoopInv
<1> SUFFICES ASSUME InitSell PROVE LoopInv
  OBVIOUS
<1>1. Places \in Nat /\ Share \subseteq Nat /\ Cost \subseteq Nat /\ Ask \subseteq Nat \ {0}
  BY FifoSellAssumption
<1>2. /\ given \in [1..Places -> Lot] /\ engineLots = given
      /\ \A i \in 1..Places : given[i].exhausted <=> given[i].remaining = 0
  <2>1. ASSUME NEW left \in Share, NEW cost \in Cost
        PROVE  /\ OpenOrSpent(left, cost) \in Lot
               /\ OpenOrSpent(left, cost).exhausted <=> OpenOrSpent(left, cost).remaining = 0
    <3>1. left \in Nat /\ cost \in Nat /\ (left = 0) \in BOOLEAN
      BY <1>1
    <3>2. OpenOrSpent(left, cost).exhausted = (left = 0) /\ OpenOrSpent(left, cost).remaining = left
      BY DEF OpenOrSpent
    <3> QED BY <3>1, <3>2 DEF OpenOrSpent, Lot
  <2>2. ASSUME NEW i \in 1..Places
        PROVE  given[i] \in Lot /\ (given[i].exhausted <=> given[i].remaining = 0)
    <3>1. PICK left \in Share, cost \in Cost : given[i] = OpenOrSpent(left, cost)
      BY DEF InitSell
    <3> QED BY <3>1, <2>1
  <2>3. given \in [1..Places -> {OpenOrSpent(left, cost) : left \in Share, cost \in Cost}]
        /\ engineLots = given
    BY DEF InitSell
  <2> QED BY <2>2, <2>3
<1>3. SellTypeOK
  BY <1>1, <1>2 DEF InitSell, SellTypeOK
<1>4. Remaining(given) \in [Nat -> Nat] /\ CostPer(given) \in [Nat -> Nat]
  BY <1>1, <1>3, ListColumns
<1>5. Available(Asked, 0) = 0
  BY <1>4, SumNatural DEF Available, Asked
<1>6. CostOfSale(Asked, CostPer(given), sellQty, 0) = 0
  <2>1. sellQty \in Ask
    BY DEF InitSell
  <2>2. sellQty \in Nat /\ Asked \in [Nat -> Nat]
    BY <1>1, <1>4, <2>1 DEF Asked
  <2> QED BY <2>2, <1>4, CostAccumulates
<1>7. toSell = LeftToSell(place)
  BY <1>1, <1>5 DEF InitSell, LeftToSell
<1> QED BY <1>1, <1>2, <1>3, <1>6, <1>7 DEF InitSell, LoopInv

(* Each statement of the loop keeps its invariant.                         *)
LEMMA StepLoop == LoopInv /\ [SellNext]_sellVars => LoopInv'
<1> SUFFICES ASSUME LoopInv, [SellNext]_sellVars PROVE LoopInv'
  OBVIOUS
<1>1. Places \in Nat /\ SellTypeOK
  BY FifoSellAssumption DEF LoopInv
<1>2. /\ Asked \in [Nat -> Nat] /\ CostPer(given) \in [Nat -> Nat]
      /\ \A i \in 1..Places : Asked[i] = given[i].remaining /\ CostPer(given)[i] = given[i].cost
      /\ \A i \in 1..Places : Remaining(engineLots)[i] = engineLots[i].remaining
  BY <1>1, ListColumns DEF Asked
<1>3. ASSUME given' = given, sellQty' = sellQty
      PROVE  /\ Asked' = Asked /\ CostPer(given)' = CostPer(given)
             /\ \A p : LeftToSell(p)' = LeftToSell(p)
  BY <1>3 DEF Asked, LeftToSell, CostPer, Remaining
<1>4. CASE CheckAvailable
  <2>1. Remaining(engineLots) = Asked
    <3>1. place = 1 BY <1>4 DEF CheckAvailable, LoopInv
    <3>2. \A i \in 1..Places : engineLots[i] = given[i] BY <3>1 DEF LoopInv
    <3> QED BY <3>2 DEF Remaining, Asked
  <2>2. outcome' = IF Available(Asked, Places) < sellQty THEN "insufficient" ELSE "selling"
    BY <2>1, <1>4 DEF CheckAvailable
  <2>3. Available(Asked, Places) \in Nat /\ sellQty \in Nat
    BY <1>1, <1>2, SumNatural DEF Available, SellTypeOK
  <2>4. /\ given' = given /\ engineLots' = engineLots /\ sellQty' = sellQty
        /\ place' = place /\ toSell' = toSell /\ totalCost' = totalCost /\ place = 1
    BY <1>4 DEF CheckAvailable, LoopInv
  <2>5. Asked' = Asked /\ CostPer(given)' = CostPer(given) /\ LeftToSell(place)' = LeftToSell(place)
    BY <2>4, <1>3 DEF LeftToSell
  <2>6. SellTypeOK'
    BY <1>1, <2>2, <2>4 DEF SellTypeOK
  <2> QED BY <2>2, <2>3, <2>4, <2>5, <2>6 DEF LoopInv
<1>5. ASSUME InLoop
      PROVE  /\ place \in 1..Places /\ place - 1 \in Nat /\ place > 0
             /\ Available(Asked, place - 1) \in Nat /\ sellQty \in Nat
             /\ toSell = sellQty - Available(Asked, place - 1) /\ toSell > 0
             /\ engineLots[place] = given[place] /\ given[place].remaining = Asked[place]
             /\ Asked[place] \in Nat
             /\ Consumed(Asked, sellQty)[place] = Smaller(toSell, Asked[place])
             /\ Available(Asked, place) = Available(Asked, place - 1) + Asked[place]
             /\ LeftToSell(place + 1) = toSell - Smaller(toSell, Asked[place])
             /\ CostOfSale(Asked, CostPer(given), sellQty, place)
                  = totalCost + Smaller(toSell, Asked[place]) * given[place].cost
  <2>1. /\ place \in 1..Places /\ place - 1 \in Nat /\ place > 0 /\ place \in Nat
        /\ sellQty \in Nat /\ toSell > 0 /\ toSell \in Nat
    BY <1>1, <1>5 DEF InLoop, SellTypeOK
  <2>2. /\ Available(Asked, place) = Available(Asked, place - 1) + Asked[place]
        /\ Available(Asked, place - 1) \in Nat
        /\ Consumed(Asked, sellQty)[place] = IF sellQty <= Available(Asked, place - 1) THEN 0
             ELSE Smaller(sellQty - Available(Asked, place - 1), Asked[place])
    BY <1>2, <2>1, NextPlace
  <2>3. toSell = sellQty - Available(Asked, place - 1) /\ ~ (sellQty <= Available(Asked, place - 1))
    BY <2>1, <2>2 DEF LoopInv, LeftToSell
  <2>4. engineLots[place] = given[place] /\ given[place].remaining = Asked[place] /\ Asked[place] \in Nat
    <3>1. engineLots[place] = given[place] BY <2>1 DEF LoopInv
    <3>2. given[place].remaining = Asked[place] BY <1>2, <2>1
    <3>3. Asked[place] \in Nat BY <1>2, <2>1
    <3> QED BY <3>1, <3>2, <3>3
  <2>5. Consumed(Asked, sellQty)[place] = Smaller(toSell, Asked[place])
    BY <2>2, <2>3
  <2>6. LeftToSell(place + 1) = toSell - Smaller(toSell, Asked[place])
    <3>1. (place + 1) - 1 = place BY <2>1
    <3>2. LeftToSell(place + 1) = IF sellQty <= Available(Asked, place) THEN 0
                                  ELSE sellQty - Available(Asked, place)
      BY <3>1 DEF LeftToSell
    <3> QED BY <3>2, <2>1, <2>2, <2>3, <2>4 DEF Smaller
  <2>7. CostOfSale(Asked, CostPer(given), sellQty, place)
          = totalCost + Smaller(toSell, Asked[place]) * given[place].cost
    <3>1. totalCost = CostOfSale(Asked, CostPer(given), sellQty, place - 1)
      BY DEF LoopInv
    <3>2. CostPer(given)[place] = given[place].cost
      BY <1>2, <2>1
    <3>3. (place - 1) + 1 = place
      BY <2>1
    <3>4. CostOfSale(Asked, CostPer(given), sellQty, (place - 1) + 1)
            = CostOfSale(Asked, CostPer(given), sellQty, place - 1)
                + Consumed(Asked, sellQty)[(place - 1) + 1] * CostPer(given)[(place - 1) + 1]
      BY <1>2, <2>1, CostAccumulates
    <3> QED BY <3>1, <3>2, <3>3, <3>4, <2>5
  <2> QED BY <2>1, <2>2, <2>3, <2>4, <2>5, <2>6, <2>7
<1>6. CASE SkipLot
  <2>1. InLoop /\ engineLots[place].remaining <= 0
    BY <1>6 DEF SkipLot
  <2>2. /\ place \in 1..Places /\ engineLots[place] = given[place] /\ Asked[place] \in Nat
        /\ given[place].remaining = Asked[place] /\ toSell > 0
        /\ Consumed(Asked, sellQty)[place] = Smaller(toSell, Asked[place])
        /\ LeftToSell(place + 1) = toSell - Smaller(toSell, Asked[place])
        /\ CostOfSale(Asked, CostPer(given), sellQty, place)
             = totalCost + Smaller(toSell, Asked[place]) * given[place].cost
    BY <2>1, <1>5
  <2>3. Smaller(toSell, Asked[place]) = 0 /\ engineLots[place].remaining = 0 /\ toSell \in Nat
        /\ totalCost \in Nat /\ given[place].cost \in Nat
    BY <2>1, <2>2, <1>1, SMTT(30) DEF Smaller, SellTypeOK, Lot
  <2>4. /\ given' = given /\ engineLots' = engineLots /\ sellQty' = sellQty /\ toSell' = toSell
        /\ totalCost' = totalCost /\ outcome' = outcome /\ place' = place + 1
        /\ outcome = "selling"
    BY <1>6, <2>1 DEF SkipLot, InLoop
  <2>5. /\ Asked' = Asked /\ CostPer(given)' = CostPer(given)
        /\ LeftToSell(place)' = LeftToSell(place + 1)
    BY <2>4, <1>3 DEF LeftToSell
  <2>6. toSell' = LeftToSell(place)'
    BY <2>2, <2>3, <2>4, <2>5
  <2>7. totalCost' = CostOfSale(Asked, CostPer(given), sellQty, place - 1)'
    <3>1. place' - 1 = place
      BY <2>2, <2>4
    <3>2. CostOfSale(Asked, CostPer(given), sellQty, place) = totalCost
      BY <2>2, <2>3
    <3> QED BY <3>1, <3>2, <2>4, <2>5
  <2>8. SellTypeOK'
    BY <1>1, <2>2, <2>4 DEF SellTypeOK
  <2>9. ASSUME NEW i \in 1..Places, i < place'
        PROVE  engineLots[i].remaining = given[i].remaining - Consumed(Asked, sellQty)[i]
    <3>1. CASE i < place BY <3>1 DEF LoopInv
    <3>2. CASE i = place BY <3>2, <2>2, <2>3
    <3> QED BY <3>1, <3>2, <2>2, <2>4, <2>9
  <2> QED BY <2>2, <2>4, <2>5, <2>6, <2>7, <2>8, <2>9 DEF LoopInv
<1>7. CASE ConsumeLot
  <2>1. InLoop
    BY <1>7 DEF ConsumeLot
  <2>2. /\ place \in 1..Places /\ engineLots[place] = given[place] /\ Asked[place] \in Nat
        /\ given[place].remaining = Asked[place] /\ toSell > 0
        /\ Consumed(Asked, sellQty)[place] = Smaller(toSell, Asked[place])
        /\ LeftToSell(place + 1) = toSell - Smaller(toSell, Asked[place])
        /\ CostOfSale(Asked, CostPer(given), sellQty, place)
             = totalCost + Smaller(toSell, Asked[place]) * given[place].cost
    BY <2>1, <1>5
  <2> DEFINE consume == Smaller(toSell, Asked[place])
  <2>3. /\ toSell \in Nat /\ totalCost \in Nat /\ given[place].cost \in Nat
        /\ consume \in Nat /\ consume <= toSell /\ consume <= Asked[place]
        /\ Smaller(engineLots[place].remaining, toSell) = consume
        /\ given[place].cost * consume = consume * given[place].cost
        /\ consume * given[place].cost \in Nat
    <3>1. toSell \in Nat /\ totalCost \in Nat /\ given[place].cost \in Nat
      BY <2>2, <1>1 DEF SellTypeOK, Lot
    <3>2. /\ consume \in Nat /\ consume <= toSell /\ consume <= Asked[place]
          /\ Smaller(engineLots[place].remaining, toSell) = consume
      <4>1. engineLots[place].remaining = Asked[place] /\ Asked[place] \in Nat
        BY <2>2
      <4> QED BY ONLY <3>1, <4>1 DEF Smaller
    <3> HIDE DEF consume
    <3>3. /\ given[place].cost * consume = consume * given[place].cost
          /\ consume * given[place].cost \in Nat
      BY <3>1, <3>2
    <3> QED BY <3>1, <3>2, <3>3
  <2>4. /\ given' = given /\ sellQty' = sellQty /\ outcome' = outcome /\ place' = place + 1
        /\ outcome = "selling" /\ toSell' = toSell - consume
        /\ totalCost' = totalCost + consume * given[place].cost
        /\ engineLots' = [engineLots EXCEPT ![place] = OpenOrSpent(Asked[place] - consume, @.cost)]
    BY <1>7, <2>1, <2>2, <2>3 DEF ConsumeLot, InLoop
  <2> HIDE DEF consume
  <2>5. /\ Asked' = Asked /\ CostPer(given)' = CostPer(given)
        /\ LeftToSell(place)' = LeftToSell(place + 1)
    BY <2>4, <1>3 DEF LeftToSell
  <2>6. toSell' = LeftToSell(place)'
    BY <2>2, <2>4, <2>5 DEF consume
  <2>7. totalCost' = CostOfSale(Asked, CostPer(given), sellQty, place - 1)'
    <3>1. place' - 1 = place
      BY <2>2, <2>4
    <3>2. CostOfSale(Asked, CostPer(given), sellQty, place) = totalCost'
      BY <2>2, <2>4 DEF consume
    <3> QED BY <3>1, <3>2, <2>4, <2>5
  <2>8. /\ engineLots'[place].remaining = Asked[place] - consume
        /\ engineLots'[place].exhausted <=> Asked[place] - consume = 0
        /\ engineLots'[place].cost = given[place].cost
        /\ \A i \in 1..Places : i # place => engineLots'[i] = engineLots[i]
        /\ engineLots' \in [1..Places -> Lot]
    <3> DEFINE sold == OpenOrSpent(Asked[place] - consume, given[place].cost)
    <3>1. engineLots \in [1..Places -> Lot] /\ place \in 1..Places /\ engineLots[place] = given[place]
          /\ Asked[place] - consume \in Nat
      BY <1>1, <2>2, <2>3 DEF SellTypeOK
    <3>2. /\ sold.remaining = Asked[place] - consume
          /\ sold.exhausted = (Asked[place] - consume = 0)
          /\ sold.cost = given[place].cost
      BY DEF OpenOrSpent
    <3>3. (Asked[place] - consume = 0) \in BOOLEAN /\ given[place].cost \in Nat
      BY <2>3
    <3>4. sold \in Lot
      BY <3>1, <3>3 DEF Lot, OpenOrSpent
    <3>5. engineLots' = [engineLots EXCEPT ![place] = sold]
      BY <2>4, <3>1
    <3> HIDE DEF sold
    <3>6. /\ engineLots'[place] = sold /\ engineLots' \in [1..Places -> Lot]
          /\ \A i \in 1..Places : i # place => engineLots'[i] = engineLots[i]
      BY <3>1, <3>4, <3>5
    <3> QED BY <3>2, <3>6
  <2>9. SellTypeOK'
    BY <1>1, <2>2, <2>3, <2>4, <2>8, SMTT(30) DEF SellTypeOK
  <2>10. ASSUME NEW i \in 1..Places
         PROVE  /\ engineLots'[i].exhausted <=> engineLots'[i].remaining = 0
                /\ engineLots'[i].cost = given[i].cost
                /\ i < place' => engineLots'[i].remaining = given[i].remaining - Consumed(Asked, sellQty)[i]
                /\ i >= place' => engineLots'[i] = given[i]
    <3>1. CASE i = place
      BY <3>1, <2>2, <2>4, <2>8 DEF consume
    <3>2. CASE i # place
      <4>1. engineLots'[i] = engineLots[i] /\ (i < place' <=> i < place) /\ (i >= place' => i >= place)
        BY <3>2, <2>2, <2>4, <2>8
      <4> QED BY <4>1 DEF LoopInv
    <3> QED BY <3>1, <3>2
  <2> QED BY <2>2, <2>4, <2>5, <2>6, <2>7, <2>9, <2>10 DEF LoopInv
<1>8. CASE LeaveLoop
  <2>1. /\ given' = given /\ engineLots' = engineLots /\ sellQty' = sellQty /\ place' = place
        /\ toSell' = toSell /\ totalCost' = totalCost
        /\ outcome = "selling" /\ outcome' = "sold" /\ (place > Places \/ toSell <= 0)
    BY <1>8 DEF LeaveLoop
  <2>2. place' = Places + 1 \/ toSell' = 0
    BY <2>1, <1>1 DEF SellTypeOK
  <2>3. /\ Asked' = Asked /\ CostPer(given)' = CostPer(given)
        /\ LeftToSell(place)' = LeftToSell(place)
    BY <2>1, <1>3 DEF LeftToSell
  <2>4. SellTypeOK'
    BY <1>1, <2>1 DEF SellTypeOK
  <2> QED BY <2>1, <2>2, <2>3, <2>4 DEF LoopInv
<1>9. CASE UNCHANGED sellVars
  BY <1>9 DEF sellVars, LoopInv, SellTypeOK, LeftToSell, Asked, CostPer, Remaining
<1> QED BY <1>4, <1>6, <1>7, <1>8, <1>9 DEF SellNext

(* The invariant of the loop holds for every list and every quantity.      *)
THEOREM LoopInvariant == SellSpec => []LoopInv
BY InitLoop, StepLoop, PTL DEF SellSpec

--------------------------------------------------------------------------------
(* The variables of the loop keep their types.                             *)
THEOREM SellTypes == SellSpec => []SellTypeOK
<1>1. LoopInv => SellTypeOK
  BY DEF LoopInv
<1> QED BY <1>1, LoopInvariant, PTL

(* A sale that has sold its shares has nothing to take from later lots.    *)
LEMMA NothingBeyond ==
  ASSUME LoopInv, outcome = "sold", Places \in Nat
  PROVE  /\ \A i \in 1..Places :
              engineLots[i].remaining = given[i].remaining - Consumed(Asked, sellQty)[i]
         /\ totalCost = CostOfSale(Asked, CostPer(given), sellQty, Places)
<1>1. SellTypeOK /\ Asked \in [Nat -> Nat] /\ CostPer(given) \in [Nat -> Nat]
  BY ListColumns DEF LoopInv, Asked
<1>2. sellQty \in Nat /\ place \in 1..(Places + 1)
  BY <1>1 DEF SellTypeOK
<1>3. ASSUME place # Places + 1
      PROVE  place - 1 \in Nat /\ place - 1 <= Places /\ sellQty <= Available(Asked, place - 1)
  <2>1. toSell = 0 /\ place - 1 \in Nat /\ place - 1 <= Places
    BY <1>2, <1>3 DEF LoopInv
  <2>2. Available(Asked, place - 1) \in Nat
    BY <1>1, <2>1, SumNatural DEF Available
  <2> QED BY <2>1, <2>2, <1>2 DEF LoopInv, LeftToSell
<1>4. ASSUME NEW i \in 1..Places
      PROVE  engineLots[i].remaining = given[i].remaining - Consumed(Asked, sellQty)[i]
  <2>1. CASE i < place
    BY <2>1 DEF LoopInv
  <2>2. CASE i >= place
    <3>1. place # Places + 1
      BY <2>2, <1>2
    <3>2. i > place - 1 /\ i \in Nat /\ place - 1 \in Nat /\ sellQty <= Available(Asked, place - 1)
      BY <2>2, <3>1, <1>2, <1>3
    <3>3. Consumed(Asked, sellQty)[i] = 0
      BY <1>1, <1>2, <3>2, ConsumedStops
    <3>4. engineLots[i] = given[i] /\ given[i].remaining \in Nat
      BY <2>2, <1>1 DEF LoopInv, SellTypeOK, Lot
    <3> QED BY <3>3, <3>4
  <2>3. i < place \/ i >= place
    BY <1>2
  <2> QED BY <2>1, <2>2, <2>3
<1>5. totalCost = CostOfSale(Asked, CostPer(given), sellQty, Places)
  <2>1. totalCost = CostOfSale(Asked, CostPer(given), sellQty, place - 1)
    BY DEF LoopInv
  <2>2. CASE place = Places + 1
    BY <2>1, <2>2
  <2>3. CASE place # Places + 1
    <3> DEFINE S == {n \in Nat : n >= place - 1 =>
                       CostOfSale(Asked, CostPer(given), sellQty, n)
                         = CostOfSale(Asked, CostPer(given), sellQty, place - 1)}
    <3>1. place - 1 \in Nat /\ place - 1 <= Places /\ sellQty <= Available(Asked, place - 1)
      BY <2>3, <1>3
    <3>2. 0 \in S
      <4>1. place \in Int
        BY <1>2
      <4>2. 0 >= place - 1 => place - 1 = 0
        BY <3>1, <4>1
      <4> QED BY <4>2
    <3>3. ASSUME NEW n \in Nat, n \in S PROVE n + 1 \in S
      <4>1. CASE n >= place - 1
        <5>1. Consumed(Asked, sellQty)[n + 1] = 0
          BY <1>1, <1>2, <3>1, <4>1, ConsumedStops, SMTT(30)
        <5>2. /\ CostOfSale(Asked, CostPer(given), sellQty, n) \in Nat
              /\ CostOfSale(Asked, CostPer(given), sellQty, n + 1)
                   = CostOfSale(Asked, CostPer(given), sellQty, n)
                       + Consumed(Asked, sellQty)[n + 1] * CostPer(given)[n + 1]
          BY <1>1, <1>2, CostAccumulates
        <5>3. CostPer(given)[n + 1] \in Nat
          BY <1>1
        <5>4. CostOfSale(Asked, CostPer(given), sellQty, n + 1) = CostOfSale(Asked, CostPer(given), sellQty, n)
          BY <5>1, <5>2, <5>3
        <5> QED BY <5>4, <4>1, <3>3
      <4>2. CASE n + 1 = place - 1
        BY <4>2
      <4>3. CASE n + 1 < place - 1
        BY <4>3, <3>1
      <4>4. n >= place - 1 \/ n + 1 = place - 1 \/ n + 1 < place - 1
        BY <3>1
      <4> QED BY <4>1, <4>2, <4>3, <4>4
    <3> HIDE DEF S
    <3>4. Nat \subseteq S
      BY <3>2, <3>3, SetInduction
    <3>5. Places \in S
      BY <3>4
    <3>6. CostOfSale(Asked, CostPer(given), sellQty, Places)
            = CostOfSale(Asked, CostPer(given), sellQty, place - 1)
      BY <3>1, <3>5 DEF S
    <3> QED BY <3>6, <2>1
  <2> QED BY <2>2, <2>3
<1> QED BY <1>4, <1>5

(* For every list of lots and every quantity, a sale that succeeds leaves  *)
(* what the closed form leaves and books what it books.                    *)
THEOREM SellComputesClosedForm == SellSpec => []ComputesClosedForm
<1>1. LoopInv => ComputesClosedForm
  BY NothingBeyond, FifoSellAssumption DEF ComputesClosedForm, Asked
<1> QED BY <1>1, LoopInvariant, PTL

(* A sale takes all of its shares or none, for every list and quantity.    *)
THEOREM SellAllOrNothing == SellSpec => []AllOrNothing
<1>1. ASSUME LoopInv PROVE AllOrNothing
  <2>1. Places \in Nat /\ SellTypeOK
    BY FifoSellAssumption, <1>1 DEF LoopInv
  <2>2. /\ Asked \in [Nat -> Nat] /\ Remaining(engineLots) \in [Nat -> Nat]
        /\ \A i \in 1..Places : /\ Asked[i] = given[i].remaining
                               /\ Remaining(engineLots)[i] = engineLots[i].remaining
    BY <2>1, ListColumns DEF Asked
  <2>3. ASSUME outcome = "insufficient"
        PROVE  engineLots = given /\ Available(Asked, Places) < sellQty
    <3>1. \A i \in 1..Places : engineLots[i] = given[i]
      BY <1>1, <2>3 DEF LoopInv
    <3>2. engineLots = given
      BY <2>1, <3>1 DEF SellTypeOK
    <3> QED BY <1>1, <2>3, <3>2 DEF LoopInv
  <2>4. ASSUME outcome = "sold"
        PROVE  Available(Remaining(engineLots), Places) = Available(Asked, Places) - sellQty
    <3> DEFINE taken == Consumed(Asked, sellQty)
    <3>1. sellQty \in Nat /\ sellQty <= Available(Asked, Places)
      BY <1>1, <2>1, <2>4 DEF LoopInv, SellTypeOK
    <3>2. taken \in [Nat -> Nat] /\ \A i \in Nat : taken[i] <= Asked[i]
      BY <2>2, <3>1, ConsumedBounds
    <3>3. ASSUME NEW i \in Nat PROVE Remaining(engineLots)[i] = Asked[i] - taken[i]
      <4>1. CASE i \in 1..Places
        BY <4>1, <2>1, <2>2, <2>4, <1>1, NothingBeyond
      <4>2. CASE i \notin 1..Places
        <5>1. Remaining(engineLots)[i] = 0 /\ Asked[i] = 0
          BY <4>2 DEF Remaining, Asked
        <5> QED BY <5>1, <3>2
      <4> QED BY <4>1, <4>2
    <3>4. /\ Asked \in [Nat -> Int] /\ Remaining(engineLots) \in [Nat -> Int] /\ taken \in [Nat -> Int]
      BY <2>2, <3>2
    <3>5. RunningSum(Remaining(engineLots))[Places] = RunningSum(Asked)[Places] - RunningSum(taken)[Places]
      <4> HIDE DEF taken
      <4> QED BY <3>3, <3>4, <2>1, SumDifference
    <3>6. RunningSum(taken)[Places] = sellQty
      <4>1. RunningSum(taken)[Places] = Smaller(sellQty, Available(Asked, Places))
        BY <2>1, <2>2, <3>1, ConsumedTotal
      <4> QED BY <4>1, <3>1 DEF Smaller
    <3> QED BY <3>5, <3>6 DEF Available
  <2> QED BY <2>3, <2>4 DEF AllOrNothing, Asked
<1> QED BY <1>1, LoopInvariant, PTL

(* Lots are consumed first in, first out, at every moment of the loop.     *)
THEOREM SellOldestFirst == SellSpec => []OldestFirst
<1>1. ASSUME LoopInv PROVE OldestFirst
  <2>1. Places \in Nat /\ SellTypeOK
    BY FifoSellAssumption, <1>1 DEF LoopInv
  <2>2. /\ Asked \in [Nat -> Nat]
        /\ \A i \in 1..Places : Asked[i] = given[i].remaining
    BY <2>1, ListColumns DEF Asked
  <2>3. sellQty \in Nat /\ place \in 1..(Places + 1)
    BY <2>1 DEF SellTypeOK
  <2>4. ASSUME NEW j \in 1..Places, engineLots[j] # given[j], NEW i \in 1..(j - 1)
        PROVE  engineLots[i].remaining = 0
    <3>1. j < place /\ i < place /\ i \in 1..Places /\ i \in Nat /\ i > 0 /\ j \in Nat /\ j > 0
      <4>1. ~ (j >= place)
        BY <1>1, <2>4 DEF LoopInv
      <4>2. j \in Nat /\ j > 0 /\ j <= Places /\ i \in Nat /\ i > 0 /\ i <= j - 1 /\ place \in Nat
        BY <2>1, <2>3, <2>4
      <4> QED BY <2>1, <4>1, <4>2
    <3>2. engineLots[i].remaining = Asked[i] - Consumed(Asked, sellQty)[i]
      BY <1>1, <2>2, <3>1 DEF LoopInv
    <3>3. /\ Available(Asked, i) = Available(Asked, i - 1) + Asked[i]
          /\ Available(Asked, i - 1) \in Nat
          /\ Consumed(Asked, sellQty)[i] = IF sellQty <= Available(Asked, i - 1) THEN 0
                                       ELSE Smaller(sellQty - Available(Asked, i - 1), Asked[i])
      BY <2>2, <2>3, <3>1, NextPlace
    <3>4. Consumed(Asked, sellQty)[j] # 0
      <4>1. ASSUME Consumed(Asked, sellQty)[j] = 0 PROVE FALSE
        <5>1. engineLots[j].remaining = given[j].remaining /\ engineLots[j].cost = given[j].cost
              /\ engineLots[j] \in Lot /\ given[j] \in Lot
              /\ (engineLots[j].exhausted <=> engineLots[j].remaining = 0)
              /\ (given[j].exhausted <=> given[j].remaining = 0)
          BY <1>1, <2>1, <3>1, <4>1 DEF LoopInv, SellTypeOK, Lot
        <5>2. engineLots[j] = [remaining |-> engineLots[j].remaining, cost |-> engineLots[j].cost,
                         exhausted |-> engineLots[j].exhausted]
          BY <5>1 DEF Lot
        <5>3. given[j] = [remaining |-> given[j].remaining, cost |-> given[j].cost,
                          exhausted |-> given[j].exhausted]
          BY <5>1 DEF Lot
        <5>4. engineLots[j].exhausted \in BOOLEAN /\ given[j].exhausted \in BOOLEAN
          BY <5>1 DEF Lot
        <5>5. engineLots[j].exhausted = given[j].exhausted
          BY <5>1, <5>4
        <5> QED BY <2>4, <5>1, <5>2, <5>3, <5>5
      <4> QED BY <4>1
    <3>5. sellQty > Available(Asked, j - 1)
      <4>1. Available(Asked, j - 1) \in Nat
            /\ Consumed(Asked, sellQty)[j] = IF sellQty <= Available(Asked, j - 1) THEN 0
                 ELSE Smaller(sellQty - Available(Asked, j - 1), Asked[j])
        BY <2>2, <2>3, <3>1, NextPlace
      <4> QED BY <4>1, <3>4, <2>3
    <3>6. Available(Asked, i) <= Available(Asked, j - 1)
      <4>1. i <= j - 1 /\ j - 1 \in Nat
        BY <3>1
      <4> QED BY <4>1, <3>1, <2>2, SumNatural DEF Available
    <3>7. Asked[i] \in Nat /\ Available(Asked, j - 1) \in Nat
      <4>1. j - 1 \in Nat BY <3>1
      <4> QED BY <4>1, <2>2, <3>1, SumNatural DEF Available
    <3>8. Consumed(Asked, sellQty)[i] = Asked[i]
      BY <3>3, <3>5, <3>6, <3>7, <2>3 DEF Smaller
    <3> QED BY <3>2, <3>7, <3>8
  <2>5. \A j \in 1..Places : engineLots[j].exhausted <=> engineLots[j].remaining = 0
    BY <1>1 DEF LoopInv
  <2> QED BY <2>4, <2>5 DEF OldestFirst
<1> QED BY <1>1, LoopInvariant, PTL

--------------------------------------------------------------------------------
(* The trade journal. *)

LotTable(table, last) ==
  /\ DOMAIN table \subseteq 1..last
  /\ \A l \in DOMAIN table : table[l] \in LotRow

Columns == {"action", "qty", "unit", "plan", "wrote", "charge", "gain", "seen"}

TxnSound(c) ==
  /\ DOMAIN txn[c] = Columns
  /\ txn[c].qty \in Nat /\ txn[c].unit \in Nat
  /\ txn[c].charge \in Int /\ txn[c].gain \in Int /\ txn[c].seen \in Int
  /\ LotTable(txn[c].plan, lotSeq) /\ LotTable(txn[c].wrote, lotSeq)
  /\ DOMAIN txn[c].plan \subseteq DOMAIN lots
  /\ pc[c] = "idle" => txn[c] = NoTxn
  /\ pc[c] # "idle" => txn[c].action \in {"BUY", "SELL", "SPLIT"} /\ txn[c].qty > 0
  /\ txn[c].action = "BUY" => pc[c] = "commit"
  /\ txn[c].action \in {"SELL", "SPLIT"} =>
       /\ DOMAIN txn[c].wrote \subseteq DOMAIN txn[c].plan
       /\ pc[c] = "commit" => DOMAIN txn[c].wrote = DOMAIN txn[c].plan

JournalTypes ==
  /\ lotSeq \in Nat /\ LotTable(lots, lotSeq)
  /\ position \in [quantity : Int, total_cost : Int, realized_pnl : Int, is_closed : BOOLEAN]
  /\ history \in [shares : Int, cash : Int, resold : BOOLEAN,
                  overlapped : BOOLEAN, splitOverlapped : BOOLEAN]
  /\ DOMAIN pc = Connection /\ DOMAIN txn = Connection
  /\ \A c \in Connection : pc[c] \in Label /\ TxnSound(c)

(* Unless something met a split, a split at work is the only trade at      *)
(* work, and it has read the quantity that it will multiply.               *)
QuantityInv ==
  /\ history.splitOverlapped => history.overlapped
  /\ ~ history.splitOverlapped =>
       /\ position.quantity = history.shares
       /\ \A c \in Connection : pc[c] # "idle" /\ txn[c].action = "SPLIT" =>
            /\ \A d \in Connection : pc[d] # "idle" => d = c
            /\ pc[c] = "commit" => txn[c].seen = position.quantity

(* Lots of trades that never overlapped: flags tell spent lots, nothing    *)
(* has grown, and behind a lot that was sold from every lot is spent.      *)
LotsInOrder(table) ==
  /\ \A l \in DOMAIN table : /\ table[l].exhausted <=> table[l].remaining = 0
                             /\ table[l].remaining <= table[l].original
  /\ \A l, m \in DOMAIN table :
       m < l /\ table[l].remaining < table[l].original => table[m].remaining = 0

(* What the one trade at work is going to commit follows from the lots as  *)
(* they are.                                                               *)
InProgress(c) ==
  LET t == txn[c]  sale == Sale(t.qty, t.unit) IN
  /\ t.action = "BUY" => t = Purchase(lotSeq, t.qty, t.unit) /\ lotSeq \notin DOMAIN lots
  /\ t.action = "SELL" =>
       /\ Enough(t.qty)
       /\ t.plan = sale.plan /\ t.charge = sale.charge /\ t.gain = sale.gain
  /\ t.action = "SPLIT" => ExactSplit(t.qty) /\ t.plan = Splitting(t.qty).plan
  /\ t.action # "BUY" => \A l \in DOMAIN t.wrote : t.wrote[l] = Written(c, l)

SerialInv ==
  ~ history.overlapped =>
    /\ \A c, d \in Connection : pc[c] # "idle" /\ pc[d] # "idle" => c = d
    /\ LotsInOrder(lots)
    /\ position.quantity = SharesIn(lots)
    /\ position.is_closed <=> position.quantity = 0
    /\ position.realized_pnl = history.cash + CostIn(lots)
    /\ history.resold \/ position.total_cost = CostIn(lots)
    /\ \A c \in Connection : pc[c] # "idle" => InProgress(c)

JournalInv == JournalTypes /\ QuantityInv /\ SerialInv

Basis(table) == [l \in Nat |-> Queue(table)[l] * UnitCost(table)[l]]

(* The columns of a table of lots are natural and end with the table.      *)
LEMMA LotColumns ==
  ASSUME NEW table, NEW last \in Nat, LotTable(table, last)
  PROVE  /\ Queue(table) \in [Nat -> Nat] /\ UnitCost(table) \in [Nat -> Nat]
         /\ Basis(table) \in [Nat -> Nat]
         /\ \A i \in Nat : i \notin DOMAIN table =>
              Queue(table)[i] = 0 /\ UnitCost(table)[i] = 0 /\ Basis(table)[i] = 0
         /\ \A l \in DOMAIN table :
              /\ l \in Nat /\ table[l].original \in Nat /\ table[l].remaining \in Nat
              /\ table[l].cost \in Nat /\ table[l].exhausted \in BOOLEAN
         /\ Available(Queue(table), last) \in Nat
         /\ RunningSum(Basis(table))[last] \in Nat
         /\ last + 1 \notin DOMAIN table
<1>1. \A l \in DOMAIN table :
        /\ l \in Nat /\ table[l].original \in Nat /\ table[l].remaining \in Nat
        /\ table[l].cost \in Nat /\ table[l].exhausted \in BOOLEAN
  BY DEF LotTable, LotRow
<1>2. Queue(table) \in [Nat -> Nat] /\ UnitCost(table) \in [Nat -> Nat]
  BY <1>1 DEF Queue, UnitCost, OpenLots
<1>3. \A l \in Nat : Basis(table)[l] = Queue(table)[l] * UnitCost(table)[l]
  BY DEF Basis
<1>4. \A l \in Nat : Queue(table)[l] * UnitCost(table)[l] \in Nat
  BY <1>2
<1>5. Basis(table) \in [Nat -> Nat]
  BY <1>4 DEF Basis
<1>6. last + 1 \notin DOMAIN table
  BY DEF LotTable
<1>7. \A i \in Nat : i \notin DOMAIN table => Queue(table)[i] = 0 /\ UnitCost(table)[i] = 0
  BY DEF Queue, UnitCost, OpenLots
<1>8. \A i \in Nat : i \notin DOMAIN table => Basis(table)[i] = 0
  BY <1>3, <1>7
<1>9. Available(Queue(table), last) \in Nat /\ RunningSum(Basis(table))[last] \in Nat
  BY <1>2, <1>5, SumNatural DEF Available
<1> QED BY <1>1, <1>2, <1>5, <1>6, <1>7, <1>8, <1>9

(* An id drawn and not in the table changes no total.                      *)
LEMMA TotalsStay ==
  ASSUME NEW table, NEW last \in Nat, LotTable(table, last)
  PROVE  /\ LotTable(table, last + 1)
         /\ Available(Queue(table), last + 1) = Available(Queue(table), last)
         /\ RunningSum(Basis(table))[last + 1] = RunningSum(Basis(table))[last]
<1>1. LotTable(table, last + 1)
  BY DEF LotTable
<1>2. /\ Queue(table) \in [Nat -> Int] /\ Basis(table) \in [Nat -> Int]
      /\ Queue(table)[last + 1] = 0 /\ Basis(table)[last + 1] = 0
  <2>1. Queue(table) \in [Nat -> Nat] /\ Basis(table) \in [Nat -> Nat] /\ last + 1 \notin DOMAIN table
    BY LotColumns
  <2> QED BY <2>1, LotColumns
<1>3. RunningSum(Queue(table))[last + 1] = RunningSum(Queue(table))[last]
  BY <1>2, TotalStays
<1>4. RunningSum(Basis(table))[last + 1] = RunningSum(Basis(table))[last]
  BY <1>2, TotalStays
<1> QED BY <1>1, <1>3, <1>4 DEF Available

(* An open lot committed at the end of the table adds its shares and cost. *)
LEMMA LotAdded ==
  ASSUME NEW table, NEW last \in Nat, LotTable(table, last), last \notin DOMAIN table, last > 0,
         NEW more, NEW row \in LotRow, ~ row.exhausted,
         DOMAIN more = DOMAIN table \cup {last}, more[last] = row,
         \A l \in DOMAIN table : more[l] = table[l]
  PROVE  /\ LotTable(more, last)
         /\ Available(Queue(more), last) = Available(Queue(table), last) + row.remaining
         /\ RunningSum(Basis(more))[last] = RunningSum(Basis(table))[last] + row.remaining * row.cost
<1> DEFINE n == last - 1
<1>1. n \in Nat /\ n + 1 = last /\ LotTable(table, n)
  BY DEF LotTable
<1>2. LotTable(more, last)
  BY DEF LotTable
<1>3. /\ Queue(more)[last] = row.remaining /\ UnitCost(more)[last] = row.cost
      /\ \A i \in Nat : i # last => Queue(more)[i] = Queue(table)[i] /\ UnitCost(more)[i] = UnitCost(table)[i]
  BY DEF Queue, UnitCost, OpenLots
<1>4. Basis(more)[last] = row.remaining * row.cost
  BY <1>3 DEF Basis
<1>5. \A i \in Nat : i # last => Basis(more)[i] = Basis(table)[i]
  BY <1>3 DEF Basis
<1>6. /\ Queue(table) \in [Nat -> Int] /\ Basis(table) \in [Nat -> Int]
      /\ Queue(more) \in [Nat -> Int] /\ Basis(more) \in [Nat -> Int]
  <2>1. Queue(table) \in [Nat -> Nat] /\ Basis(table) \in [Nat -> Nat]
    BY LotColumns
  <2>2. Queue(more) \in [Nat -> Nat] /\ Basis(more) \in [Nat -> Nat]
    BY <1>2, LotColumns
  <2> QED BY <2>1, <2>2
<1>7. \A i \in 1..n : i \in Nat /\ i # last
  BY <1>1
<1> HIDE DEF n
<1>8. RunningSum(Queue(more))[n + 1] = RunningSum(Queue(table))[n] + Queue(more)[n + 1]
  <2>1. \A i \in 1..n : Queue(table)[i] = Queue(more)[i]
    BY <1>3, <1>7
  <2>2. n \in Nat
    BY <1>1
  <2> QED BY ONLY <1>6, <2>1, <2>2, TotalGrows
<1>9. RunningSum(Basis(more))[n + 1] = RunningSum(Basis(table))[n] + Basis(more)[n + 1]
  <2>1. \A i \in 1..n : Basis(table)[i] = Basis(more)[i]
    BY <1>5, <1>7
  <2>2. n \in Nat
    BY <1>1
  <2> QED BY ONLY <1>6, <2>1, <2>2, TotalGrows
<1>10. /\ Available(Queue(table), n + 1) = Available(Queue(table), n)
       /\ RunningSum(Basis(table))[n + 1] = RunningSum(Basis(table))[n]
  BY <1>1, TotalsStay
<1> QED BY <1>1, <1>2, <1>3, <1>4, <1>8, <1>9, <1>10 DEF Available

(* A table from which a sale took its shares, lot by lot.                  *)
SoldFrom(table, after, qty) ==
  /\ DOMAIN after = DOMAIN table
  /\ \A l \in DOMAIN table :
       /\ after[l] \in LotRow
       /\ after[l].original = table[l].original /\ after[l].cost = table[l].cost
       /\ after[l].remaining = table[l].remaining - Consumed(Queue(table), qty)[l]
       /\ after[l].exhausted <=> after[l].remaining = 0

(* In an orderly table the queue holds what the lots hold.                 *)
LEMMA OrderlyQueue ==
  ASSUME NEW table, NEW last \in Nat, LotTable(table, last),
         \A l \in DOMAIN table : table[l].exhausted <=> table[l].remaining = 0
  PROVE  \A l \in DOMAIN table :
           /\ Queue(table)[l] = table[l].remaining
           /\ Basis(table)[l] = table[l].remaining * table[l].cost
<1> SUFFICES ASSUME NEW l \in DOMAIN table
             PROVE  /\ Queue(table)[l] = table[l].remaining
                    /\ Basis(table)[l] = table[l].remaining * table[l].cost
  OBVIOUS
<1>1. l \in Nat /\ table[l].remaining \in Nat /\ table[l].cost \in Nat
  BY LotColumns
<1>2. Queue(table)[l] = table[l].remaining
  BY <1>1 DEF Queue, OpenLots
<1>3. Basis(table)[l] = Queue(table)[l] * UnitCost(table)[l]
  BY <1>1 DEF Basis
<1>4. CASE table[l].exhausted
  <2>1. table[l].remaining = 0 /\ UnitCost(table)[l] = 0
    BY <1>1, <1>4 DEF UnitCost, OpenLots
  <2> QED BY <1>1, <1>2, <1>3, <2>1
<1>5. CASE ~ table[l].exhausted
  <2>1. UnitCost(table)[l] = table[l].cost
    BY <1>1, <1>5 DEF UnitCost, OpenLots
  <2> QED BY <1>2, <1>3, <2>1
<1> QED BY <1>4, <1>5

(* First in, first out: a lot that is taken from has nothing left before   *)
(* it.                                                                     *)
LEMMA OldestFirstTaken ==
  ASSUME NEW queue \in [Nat -> Nat], NEW qty \in Nat,
         NEW l \in Nat, NEW m \in Nat, 0 < m, m < l, Consumed(queue, qty)[l] > 0
  PROVE  Consumed(queue, qty)[m] = queue[m]
<1> DEFINE upTo == RunningSum(queue)
<1>1. /\ upTo \in [Nat -> Nat] /\ upTo[0] = 0
      /\ \A n \in Nat : upTo[n + 1] = upTo[n] + queue[n + 1]
      /\ \A i, j \in Nat : i <= j => upTo[i] <= upTo[j]
  BY SumNatural
<1>2. \A i \in Nat : Consumed(queue, qty)[i] =
        LET left == qty - (upTo[i] - queue[i])
        IN  IF left <= 0 THEN 0 ELSE Smaller(left, queue[i])
  BY DEF Consumed
<1> HIDE DEF upTo
<1>3. l - 1 \in Nat /\ m - 1 \in Nat /\ (l - 1) + 1 = l /\ (m - 1) + 1 = m /\ m <= l - 1
  OBVIOUS
<1>4. upTo[l] = upTo[l - 1] + queue[l] /\ upTo[m] = upTo[m - 1] + queue[m] /\ upTo[m] <= upTo[l - 1]
  BY <1>1, <1>3
<1>5. /\ upTo[l - 1] \in Nat /\ upTo[m - 1] \in Nat /\ queue[l] \in Nat /\ queue[m] \in Nat
  BY <1>1, <1>3
<1>6. qty - upTo[l - 1] > 0
  <2>1. upTo[l] - queue[l] = upTo[l - 1]
    BY <1>4, <1>5
  <2>2. ASSUME qty - upTo[l - 1] <= 0 PROVE FALSE
    BY <1>2, <2>1, <2>2
  <2> QED BY <2>2, <1>5
<1>7. upTo[m] - queue[m] = upTo[m - 1] /\ qty - upTo[m - 1] >= queue[m] /\ qty - upTo[m - 1] > 0
  BY <1>4, <1>5, <1>6
<1>8. Consumed(queue, qty)[m] = Smaller(qty - upTo[m - 1], queue[m])
  BY <1>2, <1>5, <1>7
<1> QED BY <1>5, <1>7, <1>8 DEF Smaller

(* A sale of at least one share takes from the first lot that has any.     *)
LEMMA FrontTaken ==
  ASSUME NEW queue \in [Nat -> Nat], NEW qty \in Nat, qty > 0,
         NEW l \in Nat, l > 0, queue[l] > 0, \A m \in Nat : 0 < m /\ m < l => queue[m] = 0
  PROVE  Consumed(queue, qty)[l] > 0
<1> DEFINE upTo == RunningSum(queue)
<1> DEFINE S == {n \in Nat : n < l => upTo[n] = 0}
<1>1. /\ upTo \in [Nat -> Nat] /\ upTo[0] = 0
      /\ \A n \in Nat : upTo[n + 1] = upTo[n] + queue[n + 1]
  BY SumNatural
<1>2. Consumed(queue, qty)[l] =
        LET left == qty - (upTo[l] - queue[l])
        IN  IF left <= 0 THEN 0 ELSE Smaller(left, queue[l])
  BY DEF Consumed
<1> HIDE DEF upTo
<1>3. 0 \in S
  BY <1>1
<1>4. ASSUME NEW n \in Nat, n \in S PROVE n + 1 \in S
  <2>1. n + 1 < l => upTo[n] = 0 /\ queue[n + 1] = 0
    BY <1>4
  <2> QED BY <1>1, <2>1
<1> HIDE DEF S
<1>5. Nat \subseteq S
  BY <1>3, <1>4, SetInduction
<1>6. l - 1 \in Nat /\ (l - 1) + 1 = l /\ l - 1 < l
  OBVIOUS
<1>7. upTo[l - 1] = 0
  BY <1>5, <1>6 DEF S
<1>8. upTo[(l - 1) + 1] = upTo[l - 1] + queue[(l - 1) + 1]
  BY <1>1, <1>6
<1>9. upTo[l] - queue[l] = 0 /\ queue[l] \in Nat
  BY <1>6, <1>7, <1>8
<1>10. Consumed(queue, qty)[l] = Smaller(qty, queue[l])
  BY <1>2, <1>9
<1> QED BY <1>9, <1>10 DEF Smaller

(* A sale takes what it sells, and the cost of it, out of an orderly       *)
(* table, and leaves an orderly one.                                       *)
LEMMA SaleLeaves ==
  ASSUME NEW table, NEW last \in Nat, LotTable(table, last), LotsInOrder(table),
         NEW qty \in Nat, qty <= Available(Queue(table), last),
         NEW after, SoldFrom(table, after, qty)
  PROVE  /\ LotTable(after, last) /\ LotsInOrder(after)
         /\ Available(Queue(after), last) = Available(Queue(table), last) - qty
         /\ CostOfSale(Queue(table), UnitCost(table), qty, last) \in Nat
         /\ RunningSum(Basis(after))[last]
              = RunningSum(Basis(table))[last] - CostOfSale(Queue(table), UnitCost(table), qty, last)
<1> DEFINE taken == Consumed(Queue(table), qty)
<1> DEFINE value == [i \in Nat |-> taken[i] * UnitCost(table)[i]]
<1>1. /\ Queue(table) \in [Nat -> Nat] /\ UnitCost(table) \in [Nat -> Nat]
      /\ Basis(table) \in [Nat -> Nat] /\ Available(Queue(table), last) \in Nat
      /\ \A i \in Nat : i \notin DOMAIN table => Queue(table)[i] = 0 /\ Basis(table)[i] = 0
      /\ \A l \in DOMAIN table : /\ l \in Nat /\ table[l].original \in Nat
                                 /\ table[l].remaining \in Nat /\ table[l].cost \in Nat
  BY LotColumns
<1>2. taken \in [Nat -> Nat] /\ \A i \in Nat : taken[i] <= Queue(table)[i]
  BY <1>1, ConsumedBounds
<1>3. RunningSum(taken)[last] = qty
  <2>1. RunningSum(taken)[last] = Smaller(qty, Available(Queue(table), last))
    BY <1>1, ConsumedTotal
  <2> QED BY <1>1, <2>1 DEF Smaller
<1>4. CostOfSale(Queue(table), UnitCost(table), qty, last) = RunningSum(value)[last]
  BY DEF CostOfSale
<1>5. \A l \in DOMAIN table : /\ Queue(table)[l] = table[l].remaining
                              /\ Basis(table)[l] = table[l].remaining * table[l].cost
  BY OrderlyQueue DEF LotsInOrder
<1>6. \A m, l \in Nat : 0 < m /\ m < l /\ taken[l] > 0 => taken[m] = Queue(table)[m]
  <2>1. Queue(table) \in [Nat -> Nat]
    BY <1>1
  <2> SUFFICES ASSUME NEW m \in Nat, NEW l \in Nat, 0 < m, m < l, taken[l] > 0
               PROVE  taken[m] = Queue(table)[m]
    OBVIOUS
  <2> QED BY <2>1, OldestFirstTaken
<1>7. /\ DOMAIN after = DOMAIN table
      /\ \A l \in DOMAIN table :
           /\ after[l] \in LotRow
           /\ after[l].original = table[l].original /\ after[l].cost = table[l].cost
           /\ after[l].remaining = table[l].remaining - taken[l]
           /\ after[l].exhausted <=> after[l].remaining = 0
  BY DEF SoldFrom
<1> HIDE DEF taken
<1>8. LotTable(after, last)
  BY <1>7 DEF LotTable
<1>9. \A l \in DOMAIN table : l \in Nat /\ 0 < l
  BY DEF LotTable
<1>10. LotsInOrder(after)
  <2>1. \A l \in DOMAIN after : /\ after[l].exhausted <=> after[l].remaining = 0
                                /\ after[l].remaining <= after[l].original
    <3>1. SUFFICES ASSUME NEW l \in DOMAIN after
                   PROVE  /\ after[l].exhausted <=> after[l].remaining = 0
                          /\ after[l].remaining <= after[l].original
      OBVIOUS
    <3>2. /\ l \in DOMAIN table /\ l \in Nat /\ taken[l] \in Nat
          /\ table[l].remaining \in Nat /\ table[l].original \in Nat
      BY <1>1, <1>2, <1>7
    <3>3. /\ after[l].exhausted <=> after[l].remaining = 0
          /\ after[l].original = table[l].original
          /\ after[l].remaining = table[l].remaining - taken[l]
      BY <1>7, <3>2
    <3>4. table[l].remaining <= table[l].original
      BY <3>2 DEF LotsInOrder
    <3> QED BY <3>2, <3>3, <3>4
  <2>2. ASSUME NEW l \in DOMAIN after, NEW m \in DOMAIN after, m < l,
               after[l].remaining < after[l].original
        PROVE  after[m].remaining = 0
    <3>1. /\ l \in Nat /\ m \in Nat /\ 0 < m /\ taken[l] \in Nat /\ taken[m] \in Nat
          /\ l \in DOMAIN table /\ m \in DOMAIN table
          /\ Queue(table)[m] = table[m].remaining /\ taken[m] <= Queue(table)[m]
          /\ after[m].remaining = table[m].remaining - taken[m]
          /\ after[l].remaining = table[l].remaining - taken[l]
          /\ after[l].original = table[l].original
          /\ table[m].remaining \in Nat /\ table[l].remaining \in Nat /\ table[l].original \in Nat
      BY <1>1, <1>2, <1>5, <1>7, <1>9
    <3>2. CASE taken[l] > 0
      <4>1. taken[m] = Queue(table)[m]
        BY <1>6, <2>2, <3>1, <3>2
      <4> QED BY <3>1, <4>1
    <3>3. CASE taken[l] = 0
      <4>1. table[l].remaining < table[l].original
        BY <2>2, <3>1, <3>3
      <4>2. table[m].remaining = 0
        BY <2>2, <3>1, <4>1 DEF LotsInOrder
      <4> QED BY <3>1, <4>2
    <3> QED BY <3>1, <3>2, <3>3
  <2> QED BY <2>1, <2>2 DEF LotsInOrder
<1>11. /\ Queue(after) \in [Nat -> Nat] /\ Basis(after) \in [Nat -> Nat]
       /\ \A i \in Nat : i \notin DOMAIN after => Queue(after)[i] = 0 /\ Basis(after)[i] = 0
  BY <1>8, LotColumns, ZenonT(40)
<1>12. \A l \in DOMAIN after : /\ Queue(after)[l] = after[l].remaining
                               /\ Basis(after)[l] = after[l].remaining * after[l].cost
  BY <1>7, <1>8, OrderlyQueue
<1>13. value \in [Nat -> Nat] /\ \A i \in Nat : value[i] = taken[i] * UnitCost(table)[i]
  <2>1. \A i \in Nat : taken[i] * UnitCost(table)[i] \in Nat
    BY <1>1, <1>2
  <2> QED BY <2>1
<1> HIDE DEF value
<1>14. \A l \in DOMAIN table : value[l] = taken[l] * table[l].cost
  <2>1. SUFFICES ASSUME NEW l \in DOMAIN table PROVE value[l] = taken[l] * table[l].cost
    OBVIOUS
  <2>2. l \in Nat /\ taken[l] \in Nat /\ taken[l] <= table[l].remaining /\ table[l].cost \in Nat
    BY <1>1, <1>2, <1>5
  <2>3. CASE table[l].exhausted
    <3>1. taken[l] = 0 /\ UnitCost(table)[l] = 0
      BY <2>2, <2>3 DEF LotsInOrder, UnitCost, OpenLots
    <3> QED BY <1>13, <2>2, <3>1
  <2>4. CASE ~ table[l].exhausted
    <3>1. UnitCost(table)[l] = table[l].cost
      BY <2>2, <2>4 DEF UnitCost, OpenLots
    <3> QED BY <1>13, <2>2, <3>1
  <2> QED BY <2>3, <2>4
<1>15. \A i \in Nat : i \notin DOMAIN table => taken[i] = 0 /\ value[i] = 0
  <2>1. SUFFICES ASSUME NEW i \in Nat, i \notin DOMAIN table PROVE taken[i] = 0 /\ value[i] = 0
    OBVIOUS
  <2>2. taken[i] = 0
    BY <1>1, <1>2, <2>1
  <2>3. value[i] = 0 * UnitCost(table)[i] /\ UnitCost(table)[i] \in Nat
    BY <1>1, <1>13, <2>2
  <2> QED BY <2>2, <2>3
<1>16. \A i \in Nat : Queue(after)[i] = Queue(table)[i] - taken[i]
  <2>1. SUFFICES ASSUME NEW i \in Nat PROVE Queue(after)[i] = Queue(table)[i] - taken[i]
    OBVIOUS
  <2>2. CASE i \in DOMAIN table
    BY <1>5, <1>7, <1>12, <2>2
  <2>3. CASE i \notin DOMAIN table
    BY <1>1, <1>7, <1>11, <1>15, <2>3
  <2> QED BY <2>2, <2>3
<1>17. \A i \in Nat : Basis(after)[i] = Basis(table)[i] - value[i]
  <2>1. SUFFICES ASSUME NEW i \in Nat PROVE Basis(after)[i] = Basis(table)[i] - value[i]
    OBVIOUS
  <2>2. CASE i \in DOMAIN table
    <3>1. /\ Basis(after)[i] = after[i].remaining * after[i].cost
          /\ Basis(table)[i] = table[i].remaining * table[i].cost
          /\ value[i] = taken[i] * table[i].cost
          /\ after[i].remaining = table[i].remaining - taken[i] /\ after[i].cost = table[i].cost
          /\ table[i].remaining \in Nat /\ taken[i] \in Nat /\ table[i].cost \in Nat
      BY <1>1, <1>2, <1>5, <1>7, <1>12, <1>14, <2>2
    <3>2. (table[i].remaining - taken[i]) * table[i].cost
            = table[i].remaining * table[i].cost - taken[i] * table[i].cost
      BY <3>1
    <3> QED BY <3>1, <3>2
  <2>3. CASE i \notin DOMAIN table
    BY <1>1, <1>7, <1>11, <1>15, <2>3, SMTT(30)
  <2> QED BY <2>2, <2>3
<1>18. /\ Queue(after) \in [Nat -> Int] /\ Basis(after) \in [Nat -> Int]
       /\ Queue(table) \in [Nat -> Int] /\ Basis(table) \in [Nat -> Int]
       /\ taken \in [Nat -> Int] /\ value \in [Nat -> Int]
  BY <1>1, <1>2, <1>11, <1>13, SMTT(30)
<1>19. RunningSum(Queue(after))[last] = RunningSum(Queue(table))[last] - RunningSum(taken)[last]
  BY <1>16, <1>18, SumDifference
<1>20. RunningSum(Basis(after))[last] = RunningSum(Basis(table))[last] - RunningSum(value)[last]
  <2>1. Basis(after) \in [Nat -> Int] /\ Basis(table) \in [Nat -> Int] /\ value \in [Nat -> Int]
    BY <1>18
  <2>2. \A n \in Nat : RunningSum(Basis(after))[n] = RunningSum(Basis(table))[n] - RunningSum(value)[n]
    BY ONLY <1>17, <2>1, SumDifference
  <2> QED BY <2>2
<1>21. RunningSum(value)[last] \in Nat
  BY <1>13, SumNatural
<1> QED BY <1>3, <1>4, <1>8, <1>10, <1>19, <1>20, <1>21 DEF Available, taken

(* A column times s adds up to s times its total.                          *)
LEMMA SumScaled ==
  ASSUME NEW f \in [Nat -> Int], NEW h \in [Nat -> Int], NEW s \in Int,
         \A i \in Nat : h[i] = f[i] * s
  PROVE  \A n \in Nat : RunningSum(h)[n] = RunningSum(f)[n] * s
<1> DEFINE F == RunningSum(f)
<1> DEFINE H == RunningSum(h)
<1> DEFINE S == {n \in Nat : H[n] = F[n] * s}
<1>1. /\ F \in [Nat -> Int] /\ F[0] = 0 /\ \A n \in Nat : F[n + 1] = F[n] + f[n + 1]
      /\ H[0] = 0 /\ \A n \in Nat : H[n + 1] = H[n] + h[n + 1]
  BY RunningSumDef
<1> HIDE DEF F, H
<1>2. 0 \in S
  BY <1>1
<1>3. ASSUME NEW n \in Nat, n \in S PROVE n + 1 \in S
  <2>1. H[n] = F[n] * s /\ n + 1 \in Nat
    BY <1>3
  <2>2. F[n] \in Int /\ f[n + 1] \in Int /\ h[n + 1] = f[n + 1] * s
    BY <1>1, <2>1
  <2>3. (F[n] + f[n + 1]) * s = F[n] * s + f[n + 1] * s
    BY <2>2
  <2>4. H[n + 1] = F[n + 1] * s
    BY <1>1, <2>1, <2>2, <2>3
  <2> QED BY <2>1, <2>4
<1> HIDE DEF S
<1>4. Nat \subseteq S
  BY <1>2, <1>3, SetInduction
<1> QED BY <1>4 DEF S, F, H

(* A table whose open lots were split.                                     *)
SplitInto(table, after, s) ==
  /\ DOMAIN after = DOMAIN table
  /\ \A l \in DOMAIN table :
       /\ after[l] \in LotRow
       /\ after[l].exhausted <=> table[l].exhausted
       /\ table[l].exhausted => after[l] = table[l]
       /\ ~ table[l].exhausted =>
            /\ after[l].original = table[l].original * s
            /\ after[l].remaining = table[l].remaining * s
            /\ after[l].cost * s = table[l].cost

(* A split multiplies the shares and leaves the cost where it is.          *)
LEMMA SplitLeaves ==
  ASSUME NEW table, NEW last \in Nat, LotTable(table, last), LotsInOrder(table),
         NEW s \in Nat, s > 0, NEW after, SplitInto(table, after, s)
  PROVE  /\ LotTable(after, last) /\ LotsInOrder(after)
         /\ Available(Queue(after), last) = Available(Queue(table), last) * s
         /\ RunningSum(Basis(after))[last] = RunningSum(Basis(table))[last]
<1>1. /\ Queue(table) \in [Nat -> Nat] /\ Basis(table) \in [Nat -> Nat]
      /\ \A i \in Nat : i \notin DOMAIN table => Queue(table)[i] = 0 /\ Basis(table)[i] = 0
      /\ \A l \in DOMAIN table : /\ l \in Nat /\ table[l].original \in Nat
                                 /\ table[l].remaining \in Nat /\ table[l].cost \in Nat
  BY LotColumns
<1>2. DOMAIN after = DOMAIN table
  BY DEF SplitInto
<1>3. LotTable(after, last)
  BY DEF LotTable, SplitInto
<1>4. ASSUME NEW l \in DOMAIN table
      PROVE  /\ after[l].exhausted <=> after[l].remaining = 0
             /\ after[l].remaining <= after[l].original
             /\ after[l].remaining < after[l].original => table[l].remaining < table[l].original
             /\ table[l].remaining = 0 => after[l].remaining = 0
             /\ after[l].remaining = table[l].remaining * s
             /\ after[l].remaining * after[l].cost = table[l].remaining * table[l].cost
  <2>1. /\ table[l].original \in Nat /\ table[l].remaining \in Nat /\ table[l].cost \in Nat
        /\ table[l].remaining <= table[l].original
        /\ table[l].exhausted <=> table[l].remaining = 0
    BY <1>1 DEF LotsInOrder
  <2>2. CASE table[l].exhausted
    <3>1. after[l] = table[l] /\ table[l].remaining = 0
      BY <2>1, <2>2 DEF SplitInto
    <3> QED BY <2>1, <2>2, <3>1
  <2>3. CASE ~ table[l].exhausted
    <3>1. /\ after[l].original = table[l].original * s
          /\ after[l].remaining = table[l].remaining * s
          /\ after[l].cost * s = table[l].cost
          /\ after[l] \in LotRow /\ ~ after[l].exhausted
      BY <2>3 DEF SplitInto
    <3>2. after[l].cost \in Nat
      BY <3>1 DEF LotRow
    <3>3. /\ table[l].remaining * s \in Nat /\ table[l].original * s \in Nat
          /\ table[l].remaining * s <= table[l].original * s
          /\ table[l].remaining * s > 0
      BY <2>1, <2>3
    <3>4. ASSUME table[l].remaining * s < table[l].original * s
          PROVE  table[l].remaining < table[l].original
      <4>1. CASE table[l].remaining = table[l].original
        BY <3>4, <4>1, <3>3
      <4> QED BY <2>1, <4>1
    <3>5. (table[l].remaining * s) * after[l].cost = table[l].remaining * (after[l].cost * s)
      BY <2>1, <3>2
    <3> QED BY <2>1, <2>3, <3>1, <3>3, <3>4, <3>5
  <2> QED BY <2>2, <2>3
<1>5. LotsInOrder(after)
  <2>1. ASSUME NEW l \in DOMAIN after, NEW m \in DOMAIN after, m < l,
               after[l].remaining < after[l].original
        PROVE  after[m].remaining = 0
    <3>1. table[m].remaining = 0
      BY <1>2, <1>4, <2>1 DEF LotsInOrder
    <3> QED BY <1>2, <1>4, <3>1
  <2> QED BY <1>2, <1>4, <2>1 DEF LotsInOrder
<1>6. /\ Queue(after) \in [Nat -> Nat] /\ Basis(after) \in [Nat -> Nat]
      /\ \A i \in Nat : i \notin DOMAIN after => Queue(after)[i] = 0 /\ Basis(after)[i] = 0
  BY <1>3, LotColumns, SMTT(30)
<1>7. \A l \in DOMAIN table : /\ Queue(table)[l] = table[l].remaining
                              /\ Basis(table)[l] = table[l].remaining * table[l].cost
  BY OrderlyQueue DEF LotsInOrder
<1>8. \A l \in DOMAIN table : /\ Queue(after)[l] = after[l].remaining
                              /\ Basis(after)[l] = after[l].remaining * after[l].cost
  <2>1. \A l \in DOMAIN after : after[l].exhausted <=> after[l].remaining = 0
    BY <1>2, <1>4
  <2> QED BY <1>2, <1>3, <2>1, OrderlyQueue
<1>9. \A i \in Nat : Queue(after)[i] = Queue(table)[i] * s
  <2>1. SUFFICES ASSUME NEW i \in Nat PROVE Queue(after)[i] = Queue(table)[i] * s
    OBVIOUS
  <2>2. CASE i \in DOMAIN table
    BY <1>4, <1>7, <1>8, <2>2
  <2>3. CASE i \notin DOMAIN table
    BY <1>1, <1>2, <1>6, <2>3
  <2> QED BY <2>2, <2>3
<1>10. \A i \in Nat : Basis(after)[i] = Basis(table)[i]
  <2>1. SUFFICES ASSUME NEW i \in Nat PROVE Basis(after)[i] = Basis(table)[i]
    OBVIOUS
  <2>2. CASE i \in DOMAIN table
    BY <1>4, <1>7, <1>8, <2>2
  <2>3. CASE i \notin DOMAIN table
    BY <1>1, <1>2, <1>6, <2>3
  <2> QED BY <2>2, <2>3
<1>11. /\ Queue(after) \in [Nat -> Int] /\ Basis(after) \in [Nat -> Int]
       /\ Queue(table) \in [Nat -> Int] /\ Basis(table) \in [Nat -> Int]
  BY <1>1, <1>6
<1>12. RunningSum(Queue(after))[last] = RunningSum(Queue(table))[last] * s
  <2>1. Queue(after) \in [Nat -> Int] /\ Queue(table) \in [Nat -> Int] /\ s \in Int
    BY <1>11
  <2>2. \A n \in Nat : RunningSum(Queue(after))[n] = RunningSum(Queue(table))[n] * s
    BY ONLY <1>9, <2>1, SumScaled
  <2> QED BY <2>2
<1>13. RunningSum(Basis(after))[last] = RunningSum(Basis(table))[last]
  <2>1. \A i \in 1..last : Basis(after)[i] = Basis(table)[i]
    BY <1>10
  <2> QED BY <1>11, <2>1, SumEqual
<1> QED BY <1>3, <1>5, <1>12, <1>13 DEF Available

(* As long as a sale takes from fresh lots only, apply_sell charges what   *)
(* the sale consumes: everything ever sold from the changed lots is sold   *)
(* now.                                                                    *)
LEMMA FreshChargeIsCost ==
  ASSUME JournalTypes, LotsInOrder(lots), NEW qty \in Nat, qty > 0,
         \A l \in Dirty(SalePlan(qty)) : lots[l].remaining >= lots[l].original
  PROVE  CostConsumed(SalePlan(qty)) = CostOfSale(Queue(lots), UnitCost(lots), qty, lotSeq)
<1> DEFINE taken == Consumed(Queue(lots), qty)
<1> DEFINE plan == SalePlan(qty)
<1> DEFINE charged == [l \in Nat |-> IF l \in Changed(plan)
                                     THEN plan[l].cost * (plan[l].original - plan[l].remaining) ELSE 0]
<1> DEFINE value == [i \in Nat |-> taken[i] * UnitCost(lots)[i]]
<1>1. lotSeq \in Nat /\ LotTable(lots, lotSeq)
  BY DEF JournalTypes
<1>2. /\ Queue(lots) \in [Nat -> Nat] /\ UnitCost(lots) \in [Nat -> Nat]
      /\ \A i \in Nat : i \notin DOMAIN lots => Queue(lots)[i] = 0 /\ UnitCost(lots)[i] = 0
      /\ \A l \in DOMAIN lots : /\ l \in Nat /\ lots[l].original \in Nat
                                /\ lots[l].remaining \in Nat /\ lots[l].cost \in Nat
  BY <1>1, LotColumns
<1>3. taken \in [Nat -> Nat] /\ \A i \in Nat : taken[i] <= Queue(lots)[i]
  BY <1>2, ConsumedBounds
<1>4. \A l \in DOMAIN lots : Queue(lots)[l] = lots[l].remaining
  BY <1>1, OrderlyQueue DEF LotsInOrder
<1>5. ASSUME NEW l \in Nat, l > 0, Queue(lots)[l] > 0, \A m \in Nat : 0 < m /\ m < l => Queue(lots)[m] = 0
      PROVE  taken[l] > 0
  BY <1>2, <1>5, FrontTaken
<1>6. /\ DOMAIN plan = OpenLots(lots)
      /\ \A l \in OpenLots(lots) :
           /\ plan[l].original = lots[l].original /\ plan[l].cost = lots[l].cost
           /\ plan[l].remaining = lots[l].remaining - taken[l]
           /\ plan[l].exhausted <=> taken[l] > 0 /\ lots[l].remaining = taken[l]
  BY DEF SalePlan, Consume
<1>7. \A l \in OpenLots(lots) : plan[l] # lots[l] => lots[l].remaining >= lots[l].original
  BY <1>6 DEF Dirty
<1>8. CostConsumed(plan) = RunningSum(charged)[lotSeq]
  BY DEF CostConsumed
<1>9. CostOfSale(Queue(lots), UnitCost(lots), qty, lotSeq) = RunningSum(value)[lotSeq]
  BY DEF CostOfSale
<1>10. \A i \in Nat : /\ charged[i] = IF i \in Changed(plan)
                          THEN plan[i].cost * (plan[i].original - plan[i].remaining) ELSE 0
                      /\ value[i] = taken[i] * UnitCost(lots)[i]
  OBVIOUS
<1>11. value \in [Nat -> Int]
  <2>1. \A i \in Nat : taken[i] * UnitCost(lots)[i] \in Int
    BY <1>2, <1>3
  <2> QED BY <2>1
<1>12. DOMAIN charged = Nat /\ charged = [i \in Nat |-> charged[i]]
  OBVIOUS
<1> HIDE DEF taken, plan, charged, value
<1>13. ASSUME NEW i \in Nat PROVE charged[i] = value[i]
  <2>1. CASE i \notin OpenLots(lots)
    <3>1. i \notin Changed(plan)
      BY <1>6, <2>1 DEF Changed
    <3>2. Queue(lots)[i] = 0
      BY <2>1 DEF Queue
    <3>3. taken[i] = 0 /\ UnitCost(lots)[i] \in Nat
      BY <1>2, <1>3, <3>2
    <3> QED BY <1>10, <3>1, <3>3
  <2>2. CASE i \in OpenLots(lots)
    <3>1. /\ i \in DOMAIN lots /\ ~ lots[i].exhausted
          /\ lots[i].remaining \in Nat /\ lots[i].original \in Nat /\ lots[i].cost \in Nat
          /\ taken[i] \in Nat /\ taken[i] <= lots[i].remaining /\ i > 0
      BY <1>1, <1>2, <1>3, <1>4, <2>2 DEF OpenLots, LotTable
    <3>2. UnitCost(lots)[i] = lots[i].cost
      BY <2>2 DEF UnitCost
    <3>3. lots[i].remaining > 0 /\ lots[i].remaining <= lots[i].original
      BY <3>1 DEF LotsInOrder
    <3>4. CASE taken[i] > 0
      <4>1. plan[i] # lots[i]
        BY <1>6, <2>2, <3>1, <3>4
      <4>2. lots[i].remaining = lots[i].original
        BY <1>7, <2>2, <3>1, <3>3, <4>1
      <4>3. plan[i].original - plan[i].remaining = taken[i] /\ plan[i].cost = lots[i].cost
        BY <1>6, <2>2, <3>1, <4>2
      <4>4. i \in Changed(plan)
        BY <1>6, <2>2, <3>1, <3>4, <4>2 DEF Changed
      <4>5. charged[i] = lots[i].cost * taken[i] /\ value[i] = taken[i] * lots[i].cost
        BY <1>10, <3>2, <4>3, <4>4
      <4> QED BY <3>1, <4>5
    <3>5. CASE taken[i] = 0
      <4>1. lots[i].remaining = lots[i].original
        <5>1. ASSUME lots[i].remaining < lots[i].original PROVE FALSE
          <6>1. ASSUME NEW m \in Nat, 0 < m, m < i PROVE Queue(lots)[m] = 0
            <7>1. CASE m \in DOMAIN lots
              BY <1>4, <3>1, <5>1, <6>1, <7>1 DEF LotsInOrder
            <7>2. CASE m \notin DOMAIN lots
              BY <1>2, <7>2
            <7> QED BY <7>1, <7>2
          <6>2. Queue(lots)[i] > 0
            BY <1>4, <3>1, <3>3
          <6>3. taken[i] > 0
            BY <1>5, <3>1, <6>1, <6>2
          <6> QED BY <3>5, <6>3
        <5> QED BY <3>1, <3>3, <5>1
      <4>2. plan[i].remaining = plan[i].original /\ ~ plan[i].exhausted
        BY <1>6, <2>2, <3>1, <3>5, <4>1
      <4>3. i \notin Changed(plan)
        BY <1>6, <2>2, <3>1, <3>5, <4>1 DEF Changed
      <4> QED BY <1>10, <3>1, <3>2, <3>5, <4>3
    <3> QED BY <3>1, <3>4, <3>5
  <2> QED BY <2>1, <2>2
<1>14. charged \in [Nat -> Int]
  BY <1>11, <1>12, <1>13
<1>15. RunningSum(charged)[lotSeq] = RunningSum(value)[lotSeq]
  <2>1. \A i \in 1..lotSeq : charged[i] = value[i]
    BY <1>13
  <2>2. lotSeq \in Nat
    BY <1>1
  <2> QED BY ONLY <1>11, <1>14, <2>1, <2>2, SumEqual
<1> QED BY <1>8, <1>9, <1>15 DEF plan

--------------------------------------------------------------------------------
(* The types. *)

LEMMA SomeTypes ==
  ASSUME JournalTypes
  PROVE  /\ lotSeq \in Nat /\ LotTable(lots, lotSeq)
         /\ position.quantity \in Int /\ position.total_cost \in Int
         /\ position.realized_pnl \in Int /\ position.is_closed \in BOOLEAN
         /\ history.shares \in Int /\ history.cash \in Int /\ history.resold \in BOOLEAN
         /\ history.overlapped \in BOOLEAN /\ history.splitOverlapped \in BOOLEAN
BY DEF JournalTypes

LEMMA InitTypes == InitJournal => JournalTypes /\ QuantityInv /\ SerialInv
<1> SUFFICES ASSUME InitJournal PROVE JournalTypes /\ QuantityInv /\ SerialInv
  OBVIOUS
<1>1. /\ lots = <<>> /\ lotSeq = 0 /\ pc = [c \in Connection |-> "idle"]
      /\ txn = [c \in Connection |-> NoTxn]
      /\ position = [quantity |-> 0, total_cost |-> 0, realized_pnl |-> 0, is_closed |-> TRUE]
      /\ history = [shares |-> 0, cash |-> 0, resold |-> FALSE,
                    overlapped |-> FALSE, splitOverlapped |-> FALSE]
  BY DEF InitJournal
<1>2. /\ DOMAIN lots = {} /\ LotTable(lots, lotSeq) /\ lotSeq \in Nat
      /\ LotTable(<<>>, lotSeq) /\ DOMAIN <<>> = {}
  BY <1>1 DEF LotTable
<1>3. \A c \in Connection : pc[c] = "idle" /\ txn[c] = NoTxn
  BY <1>1
<1>4. \A c \in Connection : TxnSound(c)
  BY <1>2, <1>3 DEF TxnSound, NoTxn, Columns
<1>5. JournalTypes
  BY <1>1, <1>2, <1>3, <1>4 DEF JournalTypes, Label
<1>6. QuantityInv
  BY <1>1, <1>3 DEF QuantityInv
<1>7. SharesIn(lots) = 0 /\ CostIn(lots) = 0
  <2>1. Queue(lots) \in [Nat -> Int] /\ Basis(lots) \in [Nat -> Int]
    <3>1. Queue(lots) \in [Nat -> Nat] /\ Basis(lots) \in [Nat -> Nat]
      BY <1>2, LotColumns
    <3> QED BY <3>1
  <2>2. RunningSum(Queue(lots))[0] = 0 /\ RunningSum(Basis(lots))[0] = 0
    BY <2>1, RunningSumDef
  <2> QED BY <1>1, <2>2 DEF SharesIn, CostIn, Available, Basis
<1>8. LotsInOrder(lots)
  BY <1>2 DEF LotsInOrder
<1>9. SerialInv
  BY <1>1, <1>3, <1>7, <1>8 DEF SerialInv
<1> QED BY <1>5, <1>6, <1>9

(* Whoever does nothing stays sound while lots and ids are added.          *)
LEMMA OthersSound ==
  ASSUME JournalTypes, NEW c \in Connection,
         lotSeq' \in Nat, lotSeq' >= lotSeq, DOMAIN lots \subseteq DOMAIN lots',
         \A d \in Connection : d # c => txn'[d] = txn[d] /\ pc'[d] = pc[d]
  PROVE  \A d \in Connection : d # c => TxnSound(d)' /\ pc'[d] \in Label
<1> SUFFICES ASSUME NEW d \in Connection, d # c PROVE TxnSound(d)' /\ pc'[d] \in Label
  OBVIOUS
<1>1. lotSeq \in Nat /\ TxnSound(d) /\ pc[d] \in Label /\ txn'[d] = txn[d] /\ pc'[d] = pc[d]
  BY DEF JournalTypes
<1>2. \A table : LotTable(table, lotSeq) => LotTable(table, lotSeq')
  BY <1>1 DEF LotTable
<1>3. TxnSound(d)'
  BY <1>1, <1>2 DEF TxnSound, NoTxn
<1> QED BY <1>1, <1>3

(* What Begin does to the one connection, and to nobody else.              *)
LEMMA BeginsOne ==
  ASSUME JournalTypes, NEW c \in Connection, NEW label, NEW record, Begin(c, label, record)
  PROVE  /\ pc[c] = "idle" /\ pc'[c] = label /\ txn'[c] = record
         /\ DOMAIN pc' = Connection /\ DOMAIN txn' = Connection
         /\ \A d \in Connection : d # c => txn'[d] = txn[d] /\ pc'[d] = pc[d]
         /\ lots' = lots /\ position' = position
         /\ history' = Meets(record.action)
BY DEF Begin, JournalTypes

(* What was remembered of the trades that met.                             *)
LEMMA Meeting ==
  ASSUME JournalTypes, NEW action, history' = Meets(action)
  PROVE  /\ history' \in [shares : Int, cash : Int, resold : BOOLEAN,
                          overlapped : BOOLEAN, splitOverlapped : BOOLEAN]
         /\ history'.shares = history.shares /\ history'.cash = history.cash
         /\ history'.resold = history.resold
         /\ ~ history'.overlapped =>
              ~ history.overlapped /\ \A d \in Connection : pc[d] = "idle"
         /\ ~ history'.splitOverlapped =>
              /\ ~ history.splitOverlapped
              /\ \A d \in Connection : pc[d] # "idle" => action # "SPLIT" /\ txn[d].action # "SPLIT"
         /\ (history.splitOverlapped => history.overlapped) =>
              (history'.splitOverlapped => history'.overlapped)
<1>1. /\ history.overlapped \in BOOLEAN /\ history.splitOverlapped \in BOOLEAN
      /\ history.shares \in Int /\ history.cash \in Int /\ history.resold \in BOOLEAN
  BY SomeTypes
<1>2. /\ history'.shares = history.shares /\ history'.cash = history.cash
      /\ history'.resold = history.resold
      /\ history'.overlapped = (history.overlapped \/ Busy # {})
      /\ history'.splitOverlapped = (\/ history.splitOverlapped
                                     \/ action = "SPLIT" /\ Busy # {}
                                     \/ \E d \in Busy : txn[d].action = "SPLIT")
  BY DEF Meets
<1>3. \A d \in Connection : pc[d] # "idle" <=> d \in Busy
  BY DEF Busy
<1>4. history' \in [shares : Int, cash : Int, resold : BOOLEAN,
                    overlapped : BOOLEAN, splitOverlapped : BOOLEAN]
  <2>1. (history.overlapped \/ Busy # {}) \in BOOLEAN
    OBVIOUS
  <2>2. (\/ history.splitOverlapped
         \/ action = "SPLIT" /\ Busy # {}
         \/ \E d \in Busy : txn[d].action = "SPLIT") \in BOOLEAN
    OBVIOUS
  <2> QED BY <1>1, <2>1, <2>2 DEF Meets
<1>5. Busy # {} => \E d \in Connection : pc[d] # "idle"
  BY DEF Busy
<1>6. ~ history'.overlapped => ~ history.overlapped /\ \A d \in Connection : pc[d] = "idle"
  BY <1>2, <1>3
<1>7. ~ history'.splitOverlapped =>
              /\ ~ history.splitOverlapped
              /\ \A d \in Connection : pc[d] # "idle" => action # "SPLIT" /\ txn[d].action # "SPLIT"
  BY <1>2, <1>3
<1>8. (history.splitOverlapped => history.overlapped) =>
              (history'.splitOverlapped => history'.overlapped)
  BY <1>2
<1> QED BY <1>2, <1>4, <1>6, <1>7, <1>8

(* What the plans of a sale and of a split say, row by row.                *)
LEMMA PlannedRows ==
  ASSUME JournalTypes, NEW qty \in Nat
  PROVE  /\ DOMAIN SalePlan(qty) = OpenLots(lots) /\ DOMAIN SplitPlan(qty) = OpenLots(lots)
         /\ OpenLots(lots) \subseteq DOMAIN lots
         /\ Consumed(Queue(lots), qty) \in [Nat -> Nat]
         /\ \A l \in OpenLots(lots) :
              /\ Consumed(Queue(lots), qty)[l] <= lots[l].remaining
              /\ SalePlan(qty)[l] = Consume(lots[l], Consumed(Queue(lots), qty)[l])
              /\ SalePlan(qty)[l] \in LotRow
              /\ SplitPlan(qty)[l] = Split(lots[l], qty)
              /\ qty > 0 => SplitPlan(qty)[l] \in LotRow
<1>1. /\ lotSeq \in Nat /\ LotTable(lots, lotSeq)
  BY SomeTypes
<1>2. /\ Queue(lots) \in [Nat -> Nat]
      /\ \A l \in DOMAIN lots : /\ l \in Nat /\ lots[l].original \in Nat /\ lots[l].remaining \in Nat
                                /\ lots[l].cost \in Nat /\ lots[l].exhausted \in BOOLEAN
  BY <1>1, LotColumns
<1> DEFINE taken == Consumed(Queue(lots), qty)
<1>3. taken \in [Nat -> Nat] /\ \A i \in Nat : taken[i] <= Queue(lots)[i]
  BY <1>2, ConsumedBounds
<1>4. /\ DOMAIN SalePlan(qty) = OpenLots(lots)
      /\ \A l \in OpenLots(lots) : SalePlan(qty)[l] = Consume(lots[l], taken[l])
  BY DEF SalePlan
<1>5. /\ DOMAIN SplitPlan(qty) = OpenLots(lots)
      /\ \A l \in OpenLots(lots) : SplitPlan(qty)[l] = Split(lots[l], qty)
  BY DEF SplitPlan
<1> HIDE DEF taken
<1>6. OpenLots(lots) \subseteq DOMAIN lots
  BY DEF OpenLots
<1>7. \A l \in OpenLots(lots) : Queue(lots)[l] = lots[l].remaining /\ taken[l] \in Nat
  BY <1>2, <1>3, <1>6 DEF Queue
<1>8. ASSUME NEW l \in OpenLots(lots)
      PROVE  taken[l] <= lots[l].remaining /\ SalePlan(qty)[l] \in LotRow
  <2>1. /\ l \in Nat /\ taken[l] \in Nat /\ taken[l] <= lots[l].remaining
        /\ lots[l].original \in Nat /\ lots[l].remaining \in Nat /\ lots[l].cost \in Nat
    BY <1>2, <1>3, <1>6, <1>7
  <2>2. lots[l].remaining - taken[l] \in Nat
    BY <2>1
  <2>3. (taken[l] > 0 /\ lots[l].remaining = taken[l]) \in BOOLEAN
    OBVIOUS
  <2>4. ASSUME NEW left \in Nat, NEW flag \in BOOLEAN
        PROVE  [original |-> lots[l].original, remaining |-> left, cost |-> lots[l].cost,
                exhausted |-> flag] \in LotRow
    BY <2>1 DEF LotRow
  <2>5. Consume(lots[l], taken[l]) \in LotRow
    BY <2>2, <2>3, <2>4, Zenon DEF Consume
  <2> QED BY <1>4, <2>1, <2>5
<1>9. ASSUME NEW l \in OpenLots(lots), qty > 0 PROVE SplitPlan(qty)[l] \in LotRow
  <2>1. /\ lots[l].original \in Nat /\ lots[l].remaining \in Nat /\ lots[l].cost \in Nat
        /\ lots[l].exhausted \in BOOLEAN
    BY <1>2, <1>6
  <2>2. lots[l].original * qty \in Nat /\ lots[l].remaining * qty \in Nat /\ lots[l].cost \div qty \in Nat
    BY <1>9, <2>1
  <2> QED BY <1>5, <2>1, <2>2 DEF Split, LotRow
<1> QED BY <1>3, <1>4, <1>5, <1>6, <1>8, <1>9 DEF taken

(* The costs of a sale are integers.                                       *)
LEMMA SaleAmounts ==
  ASSUME JournalTypes, NEW qty \in Nat
  PROVE  /\ CostConsumed(SalePlan(qty)) \in Int
         /\ CostOfSale(Queue(lots), UnitCost(lots), qty, lotSeq) \in Int
<1> DEFINE plan == SalePlan(qty)
<1> DEFINE taken == Consumed(Queue(lots), qty)
<1>1. /\ lotSeq \in Nat /\ LotTable(lots, lotSeq)
  BY SomeTypes
<1>2. UnitCost(lots) \in [Nat -> Nat] /\ taken \in [Nat -> Nat]
      /\ \A l \in DOMAIN plan : plan[l] \in LotRow
  <2>1. UnitCost(lots) \in [Nat -> Nat]
    BY <1>1, LotColumns
  <2>2. taken \in [Nat -> Nat] /\ \A l \in DOMAIN plan : plan[l] \in LotRow
    BY PlannedRows
  <2> QED BY <2>1, <2>2
<1> DEFINE charged == [l \in Nat |-> IF l \in Changed(plan)
                                     THEN plan[l].cost * (plan[l].original - plan[l].remaining) ELSE 0]
<1> DEFINE value == [i \in Nat |-> taken[i] * UnitCost(lots)[i]]
<1>3. charged \in [Nat -> Int]
  <2>1. \A l \in DOMAIN plan : plan[l].cost * (plan[l].original - plan[l].remaining) \in Int
    <3>1. SUFFICES ASSUME NEW l \in DOMAIN plan
                   PROVE  plan[l].cost * (plan[l].original - plan[l].remaining) \in Int
      OBVIOUS
    <3>2. plan[l].cost \in Nat /\ plan[l].original \in Nat /\ plan[l].remaining \in Nat
      BY <1>2 DEF LotRow
    <3> HIDE DEF plan
    <3> QED BY <3>2
  <2>2. Changed(plan) \subseteq DOMAIN plan
    BY DEF Changed
  <2> HIDE DEF plan
  <2> QED BY <2>1, <2>2
<1>4. value \in [Nat -> Int]
  <2> HIDE DEF taken
  <2>1. \A i \in Nat : taken[i] * UnitCost(lots)[i] \in Int
    BY <1>2
  <2> QED BY <2>1
<1>5. CostConsumed(plan) = RunningSum(charged)[lotSeq]
  BY DEF CostConsumed
<1>6. CostOfSale(Queue(lots), UnitCost(lots), qty, lotSeq) = RunningSum(value)[lotSeq]
  BY DEF CostOfSale
<1> HIDE DEF charged, value, plan, taken
<1>7. RunningSum(charged)[lotSeq] \in Int /\ RunningSum(value)[lotSeq] \in Int
  <2>1. RunningSum(charged) \in [Nat -> Int] /\ RunningSum(value) \in [Nat -> Int]
    BY <1>3, <1>4, RunningSumDef
  <2> QED BY <1>1, <2>1
<1> QED BY <1>5, <1>6, <1>7 DEF plan

(* A trade begins with a sound transaction.                                *)
LEMMA BuyTypes ==
  ASSUME JournalTypes, NEW c \in Connection, NEW qty \in Qty, NEW unit \in Unit,
         BeginBuy(c, qty, unit)
  PROVE  JournalTypes'
<1>1. Begin(c, "commit", Purchase(lotSeq + 1, qty, unit)) /\ lotSeq' = lotSeq + 1
  BY DEF BeginBuy
<1>2. /\ pc'[c] = "commit" /\ txn'[c] = Purchase(lotSeq + 1, qty, unit)
      /\ DOMAIN pc' = Connection /\ DOMAIN txn' = Connection
      /\ \A d \in Connection : d # c => txn'[d] = txn[d] /\ pc'[d] = pc[d]
      /\ lots' = lots /\ position' = position /\ history' = Meets(txn'[c].action)
  BY <1>1, BeginsOne
<1>3. lotSeq \in Nat /\ LotTable(lots, lotSeq) /\ qty \in Nat /\ qty > 0 /\ unit \in Nat
  BY SomeTypes, JournalAssumption
<1>4. NewLot(qty, unit) \in LotRow
  BY <1>3 DEF NewLot, LotRow
<1> DEFINE rows == Put(<<>>, lotSeq + 1, NewLot(qty, unit))
<1>5. /\ DOMAIN rows = {lotSeq + 1} /\ rows[lotSeq + 1] = NewLot(qty, unit)
      /\ DOMAIN <<>> = {} /\ LotTable(<<>>, lotSeq + 1)
  BY DEF Put, LotTable
<1>6. /\ DOMAIN txn'[c] = Columns /\ txn'[c].action = "BUY" /\ txn'[c].wrote = rows
      /\ txn'[c].qty = qty /\ txn'[c].unit = unit /\ txn'[c].plan = <<>>
      /\ txn'[c].charge = -(qty * unit) /\ txn'[c].gain = 0 /\ txn'[c].seen = 0
  BY <1>2 DEF Purchase, Columns
<1> HIDE DEF rows
<1>7. LotTable(rows, lotSeq + 1)
  BY <1>3, <1>4, <1>5 DEF LotTable
<1>8. -(qty * unit) \in Int
  BY <1>3
<1>9. TxnSound(c)'
  BY <1>1, <1>2, <1>3, <1>5, <1>6, <1>7, <1>8 DEF TxnSound
<1>10. \A d \in Connection : d # c => TxnSound(d)' /\ pc'[d] \in Label
  BY <1>1, <1>2, <1>3, OthersSound
<1>11. history' \in [shares : Int, cash : Int, resold : BOOLEAN,
                     overlapped : BOOLEAN, splitOverlapped : BOOLEAN]
  BY <1>2, Meeting
<1>12. LotTable(lots, lotSeq)' /\ (lotSeq \in Nat)'
  BY <1>1, <1>2, <1>3 DEF LotTable
<1> QED BY <1>2, <1>9, <1>10, <1>11, <1>12 DEF JournalTypes, Label

LEMMA SellTypesKept ==
  ASSUME JournalTypes, NEW c \in Connection, NEW qty \in Qty, NEW unit \in Unit,
         BeginSell(c, qty, unit)
  PROVE  JournalTypes'
<1>1. Begin(c, "lots", Sale(qty, unit)) /\ lotSeq' = lotSeq
  BY DEF BeginSell
<1>2. /\ pc'[c] = "lots" /\ txn'[c] = Sale(qty, unit)
      /\ DOMAIN pc' = Connection /\ DOMAIN txn' = Connection
      /\ \A d \in Connection : d # c => txn'[d] = txn[d] /\ pc'[d] = pc[d]
      /\ lots' = lots /\ position' = position /\ history' = Meets(txn'[c].action)
  BY <1>1, BeginsOne
<1>3. lotSeq \in Nat /\ LotTable(lots, lotSeq) /\ qty \in Nat /\ qty > 0 /\ unit \in Nat
  BY SomeTypes, JournalAssumption
<1> DEFINE rows == [l \in Dirty(SalePlan(qty)) |-> SalePlan(qty)[l]]
<1>4. /\ CostConsumed(SalePlan(qty)) \in Int
      /\ CostOfSale(Queue(lots), UnitCost(lots), qty, lotSeq) \in Int
  BY <1>3, SaleAmounts
<1>5. /\ DOMAIN txn'[c] = Columns /\ txn'[c].action = "SELL" /\ txn'[c].plan = rows
      /\ txn'[c].qty = qty /\ txn'[c].unit = unit /\ txn'[c].wrote = <<>>
      /\ txn'[c].charge = CostConsumed(SalePlan(qty))
      /\ txn'[c].gain = qty * unit - CostOfSale(Queue(lots), UnitCost(lots), qty, lotSeq)
      /\ txn'[c].seen = 0
  BY <1>2 DEF Sale, Columns
<1>6. qty * unit - CostOfSale(Queue(lots), UnitCost(lots), qty, lotSeq) \in Int
  <2>1. qty * unit \in Int
    BY <1>3
  <2> QED BY <1>4, <2>1
<1>7. Dirty(SalePlan(qty)) \subseteq OpenLots(lots) /\ OpenLots(lots) \subseteq DOMAIN lots
  BY <1>3, PlannedRows DEF Dirty
<1>8. DOMAIN rows \subseteq DOMAIN lots /\ LotTable(rows, lotSeq)
  <2>1. \A l \in DOMAIN rows : rows[l] \in LotRow
    BY <1>3, <1>7, PlannedRows
  <2> QED BY <1>3, <1>7, <2>1 DEF LotTable
<1>9. LotTable(<<>>, lotSeq) /\ DOMAIN <<>> = {}
  BY DEF LotTable
<1> HIDE DEF rows
<1>10. TxnSound(c)'
  BY <1>1, <1>2, <1>3, <1>4, <1>5, <1>6, <1>8, <1>9 DEF TxnSound
<1>11. \A d \in Connection : d # c => TxnSound(d)' /\ pc'[d] \in Label
  BY <1>1, <1>2, <1>3, OthersSound
<1>12. history' \in [shares : Int, cash : Int, resold : BOOLEAN,
                     overlapped : BOOLEAN, splitOverlapped : BOOLEAN]
  BY <1>2, Meeting
<1> QED BY <1>1, <1>2, <1>10, <1>11, <1>12 DEF JournalTypes, Label

LEMMA SplitTypesKept ==
  ASSUME JournalTypes, NEW c \in Connection, NEW ratio \in Ratio, BeginSplit(c, ratio)
  PROVE  JournalTypes'
<1>1. Begin(c, "lots", Splitting(ratio)) /\ lotSeq' = lotSeq
  BY DEF BeginSplit
<1>2. /\ pc'[c] = "lots" /\ txn'[c] = Splitting(ratio)
      /\ DOMAIN pc' = Connection /\ DOMAIN txn' = Connection
      /\ \A d \in Connection : d # c => txn'[d] = txn[d] /\ pc'[d] = pc[d]
      /\ lots' = lots /\ position' = position /\ history' = Meets(txn'[c].action)
  BY <1>1, BeginsOne
<1>3. lotSeq \in Nat /\ LotTable(lots, lotSeq) /\ ratio \in Nat /\ ratio > 0
  BY SomeTypes, JournalAssumption
<1> DEFINE rows == [l \in Dirty(SplitPlan(ratio)) |-> SplitPlan(ratio)[l]]
<1>4. /\ DOMAIN txn'[c] = Columns /\ txn'[c].action = "SPLIT" /\ txn'[c].plan = rows
      /\ txn'[c].qty = ratio /\ txn'[c].unit = 0 /\ txn'[c].wrote = <<>>
      /\ txn'[c].charge = 0 /\ txn'[c].gain = 0 /\ txn'[c].seen = 0
  BY <1>2 DEF Splitting, Columns
<1>5. Dirty(SplitPlan(ratio)) \subseteq OpenLots(lots) /\ OpenLots(lots) \subseteq DOMAIN lots
  BY <1>3, PlannedRows DEF Dirty
<1>6. DOMAIN rows \subseteq DOMAIN lots /\ LotTable(rows, lotSeq)
  <2>1. \A l \in DOMAIN rows : rows[l] \in LotRow
    BY <1>3, <1>5, PlannedRows
  <2> QED BY <1>3, <1>5, <2>1 DEF LotTable
<1>7. LotTable(<<>>, lotSeq) /\ DOMAIN <<>> = {}
  BY DEF LotTable
<1> HIDE DEF rows
<1>8. TxnSound(c)'
  BY <1>1, <1>2, <1>3, <1>4, <1>6, <1>7 DEF TxnSound
<1>9. \A d \in Connection : d # c => TxnSound(d)' /\ pc'[d] \in Label
  BY <1>1, <1>2, <1>3, OthersSound
<1>10. history' \in [shares : Int, cash : Int, resold : BOOLEAN,
                     overlapped : BOOLEAN, splitOverlapped : BOOLEAN]
  BY <1>2, Meeting
<1> QED BY <1>1, <1>2, <1>8, <1>9, <1>10 DEF JournalTypes, Label

(* One lot more is locked and written.                                     *)
LEMMA WritesOne ==
  ASSUME JournalTypes, NEW c \in Connection, UpdateLot(c)
  PROVE  /\ pc[c] = "lots" /\ pc' = pc /\ lots' = lots /\ lotSeq' = lotSeq
         /\ position' = position /\ history' = history
         /\ DOMAIN txn' = Connection /\ \A d \in Connection : d # c => txn'[d] = txn[d]
         /\ DOMAIN txn'[c] = Columns
         /\ \A f \in Columns : f # "wrote" => txn'[c][f] = txn[c][f]
         /\ \E l \in DOMAIN txn[c].plan : txn'[c].wrote = Put(txn[c].wrote, l, Written(c, l))
<1>1. /\ pc[c] = "lots" /\ pc' = pc /\ lots' = lots /\ lotSeq' = lotSeq
      /\ position' = position /\ history' = history
  BY DEF UpdateLot
<1>2. PICK l \in ToWrite(c) : txn' = [txn EXCEPT ![c].wrote = Put(@, l, Written(c, l))]
  BY DEF UpdateLot
<1>3. DOMAIN txn = Connection /\ DOMAIN txn[c] = Columns /\ "wrote" \in Columns
  BY DEF JournalTypes, TxnSound, Columns
<1> DEFINE rows == Put(txn[c].wrote, l, Written(c, l))
<1>4. txn' = [txn EXCEPT ![c] = [txn[c] EXCEPT !.wrote = rows]]
  BY <1>2
<1> HIDE DEF rows
<1>5. /\ DOMAIN txn' = Connection /\ txn'[c] = [txn[c] EXCEPT !.wrote = rows]
      /\ \A d \in Connection : d # c => txn'[d] = txn[d]
  BY <1>3, <1>4
<1>6. /\ DOMAIN txn'[c] = Columns /\ txn'[c].wrote = rows
      /\ \A f \in Columns : f # "wrote" => txn'[c][f] = txn[c][f]
  BY <1>3, <1>5
<1>7. l \in DOMAIN txn[c].plan
  BY DEF ToWrite
<1> QED BY <1>1, <1>5, <1>6, <1>7 DEF rows

(* A written row is a row of a lot.                                        *)
LEMMA WrittenRow ==
  ASSUME JournalTypes, NEW c \in Connection, NEW l \in DOMAIN txn[c].plan
  PROVE  l \in DOMAIN lots /\ l \in 1..lotSeq /\ Written(c, l) \in LotRow
<1>1. /\ LotTable(lots, lotSeq) /\ LotTable(txn[c].plan, lotSeq)
      /\ DOMAIN txn[c].plan \subseteq DOMAIN lots
  BY DEF JournalTypes, TxnSound
<1>2. l \in DOMAIN lots /\ l \in 1..lotSeq /\ lots[l] \in LotRow /\ txn[c].plan[l] \in LotRow
  BY <1>1 DEF LotTable
<1>3. Written(c, l) =
        [original  |-> IF txn[c].action = "SELL" THEN lots[l].original ELSE txn[c].plan[l].original,
         remaining |-> txn[c].plan[l].remaining,
         cost      |-> IF txn[c].action = "SELL" THEN lots[l].cost ELSE txn[c].plan[l].cost,
         exhausted |-> lots[l].exhausted \/ (txn[c].action = "SELL" /\ txn[c].plan[l].exhausted)]
  BY DEF Written
<1>4. (lots[l].exhausted \/ (txn[c].action = "SELL" /\ txn[c].plan[l].exhausted)) \in BOOLEAN
  OBVIOUS
<1>5. ASSUME NEW a \in Nat, NEW b \in Nat, NEW e \in Nat, NEW f \in BOOLEAN
      PROVE  [original |-> a, remaining |-> b, cost |-> e, exhausted |-> f] \in LotRow
  BY DEF LotRow
<1>6. /\ (IF txn[c].action = "SELL" THEN lots[l].original ELSE txn[c].plan[l].original) \in Nat
      /\ (IF txn[c].action = "SELL" THEN lots[l].cost ELSE txn[c].plan[l].cost) \in Nat
      /\ txn[c].plan[l].remaining \in Nat
  BY <1>2 DEF LotRow
<1>7. Written(c, l) \in LotRow
  BY <1>3, <1>4, <1>5, <1>6, ZenonT(40)
<1> QED BY <1>2, <1>7

LEMMA UpdateTypesKept ==
  ASSUME JournalTypes, NEW c \in Connection, UpdateLot(c)
  PROVE  JournalTypes'
<1>1. /\ pc[c] = "lots" /\ pc' = pc /\ lots' = lots /\ lotSeq' = lotSeq
      /\ position' = position /\ history' = history
      /\ DOMAIN txn' = Connection /\ \A d \in Connection : d # c => txn'[d] = txn[d]
      /\ DOMAIN txn'[c] = Columns
      /\ \A f \in Columns : f # "wrote" => txn'[c][f] = txn[c][f]
  BY WritesOne
<1>2. PICK l \in DOMAIN txn[c].plan : txn'[c].wrote = Put(txn[c].wrote, l, Written(c, l))
  BY WritesOne
<1>3. l \in DOMAIN lots /\ l \in 1..lotSeq /\ Written(c, l) \in LotRow
  BY WrittenRow
<1>4. /\ lotSeq \in Nat /\ LotTable(lots, lotSeq) /\ TxnSound(c) /\ DOMAIN pc = Connection
      /\ \A d \in Connection : pc[d] \in Label
  BY DEF JournalTypes
<1> DEFINE rows == Put(txn[c].wrote, l, Written(c, l))
<1>5. /\ DOMAIN rows = DOMAIN txn[c].wrote \cup {l}
      /\ \A m \in DOMAIN rows : rows[m] = IF m = l THEN Written(c, l) ELSE txn[c].wrote[m]
  BY DEF Put
<1>6. LotTable(rows, lotSeq)
  BY <1>3, <1>4, <1>5 DEF LotTable, TxnSound
<1>7. /\ txn'[c].action = txn[c].action /\ txn'[c].qty = txn[c].qty /\ txn'[c].unit = txn[c].unit
      /\ txn'[c].plan = txn[c].plan /\ txn'[c].charge = txn[c].charge
      /\ txn'[c].gain = txn[c].gain /\ txn'[c].seen = txn[c].seen
  BY <1>1 DEF Columns
<1> HIDE DEF rows
<1>8. txn[c].action \in {"SELL", "SPLIT"}
  BY <1>1, <1>4 DEF TxnSound
<1>9. TxnSound(c)'
  BY <1>1, <1>2, <1>4, <1>5, <1>6, <1>7, <1>8 DEF TxnSound, rows
<1>10. \A d \in Connection : d # c => TxnSound(d)' /\ pc'[d] \in Label
  BY <1>1, <1>4, OthersSound
<1> QED BY <1>1, <1>4, <1>9, <1>10 DEF JournalTypes

(* All lots are written.                                                   *)
LEMMA GoesToCommit ==
  ASSUME JournalTypes, NEW c \in Connection, LotsWritten(c)
  PROVE  /\ pc[c] = "lots" /\ pc'[c] = "commit" /\ lots' = lots /\ lotSeq' = lotSeq
         /\ position' = position /\ history' = history
         /\ DOMAIN pc' = Connection /\ DOMAIN txn' = Connection
         /\ \A d \in Connection : d # c => txn'[d] = txn[d] /\ pc'[d] = pc[d]
         /\ DOMAIN txn'[c] = Columns /\ txn'[c].seen = position.quantity
         /\ \A f \in Columns : f # "seen" => txn'[c][f] = txn[c][f]
         /\ txn[c].action \in {"SELL", "SPLIT"}
         /\ DOMAIN txn[c].wrote = DOMAIN txn[c].plan
<1>1. /\ pc[c] = "lots" /\ pc' = [pc EXCEPT ![c] = "commit"] /\ lots' = lots /\ lotSeq' = lotSeq
      /\ position' = position /\ history' = history /\ ToWrite(c) = {}
      /\ txn' = [txn EXCEPT ![c].seen = position.quantity]
  BY DEF LotsWritten
<1>2. /\ DOMAIN pc = Connection /\ DOMAIN txn = Connection /\ DOMAIN txn[c] = Columns
      /\ "seen" \in Columns /\ TxnSound(c)
  BY DEF JournalTypes, TxnSound, Columns
<1>3. txn' = [txn EXCEPT ![c] = [txn[c] EXCEPT !.seen = position.quantity]]
  BY <1>1
<1>4. /\ DOMAIN txn' = Connection /\ txn'[c] = [txn[c] EXCEPT !.seen = position.quantity]
      /\ \A d \in Connection : d # c => txn'[d] = txn[d]
  BY <1>2, <1>3
<1>5. /\ DOMAIN txn'[c] = Columns /\ txn'[c].seen = position.quantity
      /\ \A f \in Columns : f # "seen" => txn'[c][f] = txn[c][f]
  BY <1>2, <1>4
<1>6. txn[c].action \in {"SELL", "SPLIT"}
  BY <1>1, <1>2 DEF TxnSound
<1>7. DOMAIN txn[c].wrote = DOMAIN txn[c].plan
  BY <1>1, <1>2, <1>6 DEF TxnSound, ToWrite
<1> QED BY <1>1, <1>2, <1>4, <1>5, <1>6, <1>7

LEMMA LotsWrittenTypesKept ==
  ASSUME JournalTypes, NEW c \in Connection, LotsWritten(c)
  PROVE  JournalTypes'
<1>1. /\ pc[c] = "lots" /\ pc'[c] = "commit" /\ lots' = lots /\ lotSeq' = lotSeq
      /\ position' = position /\ history' = history
      /\ DOMAIN pc' = Connection /\ DOMAIN txn' = Connection
      /\ \A d \in Connection : d # c => txn'[d] = txn[d] /\ pc'[d] = pc[d]
      /\ DOMAIN txn'[c] = Columns /\ txn'[c].seen = position.quantity
      /\ \A f \in Columns : f # "seen" => txn'[c][f] = txn[c][f]
      /\ txn[c].action \in {"SELL", "SPLIT"}
      /\ DOMAIN txn[c].wrote = DOMAIN txn[c].plan
  BY GoesToCommit
<1>2. lotSeq \in Nat /\ TxnSound(c) /\ position.quantity \in Int
  BY DEF JournalTypes
<1>3. /\ txn'[c].action = txn[c].action /\ txn'[c].qty = txn[c].qty /\ txn'[c].unit = txn[c].unit
      /\ txn'[c].plan = txn[c].plan /\ txn'[c].wrote = txn[c].wrote
      /\ txn'[c].charge = txn[c].charge /\ txn'[c].gain = txn[c].gain
  BY <1>1 DEF Columns
<1>4. TxnSound(c)'
  BY <1>1, <1>2, <1>3 DEF TxnSound
<1>5. \A d \in Connection : d # c => TxnSound(d)' /\ pc'[d] \in Label
  BY <1>1, <1>2, OthersSound
<1> QED BY <1>1, <1>2, <1>4, <1>5 DEF JournalTypes, Label

(* The end of a transaction, with or without its commit.                   *)
Ends(c) ==
  /\ pc' = [pc EXCEPT ![c] = "idle"]
  /\ txn' = [txn EXCEPT ![c] = NoTxn]
  /\ lotSeq' = lotSeq

LEMMA EndedSound ==
  ASSUME JournalTypes, NEW c \in Connection, Ends(c), DOMAIN lots \subseteq DOMAIN lots'
  PROVE  /\ DOMAIN pc' = Connection /\ DOMAIN txn' = Connection
         /\ pc'[c] = "idle" /\ txn'[c] = NoTxn
         /\ \A d \in Connection : d # c => txn'[d] = txn[d] /\ pc'[d] = pc[d]
         /\ \A d \in Connection : pc'[d] \in Label /\ TxnSound(d)'
<1>1. /\ DOMAIN pc' = Connection /\ DOMAIN txn' = Connection
      /\ pc'[c] = "idle" /\ txn'[c] = NoTxn /\ lotSeq' = lotSeq
      /\ \A d \in Connection : d # c => txn'[d] = txn[d] /\ pc'[d] = pc[d]
  BY DEF Ends, JournalTypes
<1>2. lotSeq \in Nat
  BY DEF JournalTypes
<1>3. \A d \in Connection : d # c => TxnSound(d)' /\ pc'[d] \in Label
  BY <1>1, <1>2, OthersSound
<1>4. NoTxn' = NoTxn
  BY DEF NoTxn
<1>5. LotTable(<<>>, lotSeq) /\ DOMAIN <<>> = {}
  BY DEF LotTable
<1>6. TxnSound(c)'
  BY <1>1, <1>4, <1>5 DEF TxnSound, NoTxn, Columns
<1> QED BY <1>1, <1>3, <1>6 DEF Label

LEMMA CommitTypesKept ==
  ASSUME JournalTypes, NEW c \in Connection, Commit(c)
  PROVE  JournalTypes'
<1>1. /\ pc[c] = "commit" /\ lots' = Visible(c) /\ Ends(c) /\ lotSeq' = lotSeq
      /\ position' = IF txn[c].action = "SPLIT" THEN Multiplied(c) ELSE Incremented(c)
      /\ history' = Booked(txn[c], Signed(c))
  BY DEF Commit, Ends
<1>2. /\ lotSeq \in Nat /\ LotTable(lots, lotSeq) /\ TxnSound(c)
      /\ position.quantity \in Int /\ position.total_cost \in Int
      /\ position.realized_pnl \in Int /\ position.is_closed \in BOOLEAN
      /\ history.shares \in Int /\ history.cash \in Int /\ history.resold \in BOOLEAN
      /\ history.overlapped \in BOOLEAN /\ history.splitOverlapped \in BOOLEAN
  BY SomeTypes DEF JournalTypes
<1>3. /\ txn[c].qty \in Nat /\ txn[c].unit \in Nat /\ txn[c].charge \in Int
      /\ txn[c].gain \in Int /\ txn[c].seen \in Int /\ LotTable(txn[c].wrote, lotSeq)
  BY <1>2 DEF TxnSound
<1>4. /\ DOMAIN lots' = DOMAIN lots \cup DOMAIN txn[c].wrote
      /\ \A l \in DOMAIN lots' : lots'[l] = IF l \in DOMAIN txn[c].wrote THEN txn[c].wrote[l] ELSE lots[l]
  BY <1>1 DEF Visible
<1>5. LotTable(lots', lotSeq')
  BY <1>1, <1>2, <1>3, <1>4 DEF LotTable
<1>6. Signed(c) \in Int
  BY <1>3 DEF Signed
<1>7. position' \in [quantity : Int, total_cost : Int, realized_pnl : Int, is_closed : BOOLEAN]
  <2>1. CASE txn[c].action = "SPLIT"
    <3>1. txn[c].seen * txn[c].qty \in Int
      BY <1>3
    <3> QED BY <1>1, <1>2, <2>1, <3>1 DEF Multiplied
  <2>2. CASE txn[c].action # "SPLIT"
    <3>1. /\ position.quantity + Signed(c) \in Int /\ position.total_cost - txn[c].charge \in Int
          /\ position.realized_pnl + txn[c].gain \in Int
          /\ (position.quantity + Signed(c) <= 0) \in BOOLEAN
      BY <1>2, <1>3, <1>6
    <3> QED BY <1>1, <2>2, <3>1 DEF Incremented
  <2> QED BY <2>1, <2>2
<1>8. history' \in [shares : Int, cash : Int, resold : BOOLEAN,
                    overlapped : BOOLEAN, splitOverlapped : BOOLEAN]
  <2>1. /\ history.shares * txn[c].qty \in Int /\ history.shares + Signed(c) \in Int
        /\ Signed(c) * txn[c].unit \in Int /\ history.cash - Signed(c) * txn[c].unit \in Int
        /\ (history.resold \/ Resells(txn[c])) \in BOOLEAN
    BY <1>2, <1>3, <1>6
  <2>2. /\ (IF txn[c].action = "SPLIT" THEN history.shares * txn[c].qty
                                       ELSE history.shares + Signed(c)) \in Int
        /\ (IF txn[c].action = "SPLIT" THEN history.cash
                                       ELSE history.cash - Signed(c) * txn[c].unit) \in Int
    BY <1>2, <2>1
  <2> QED BY <1>1, <1>2, <2>1, <2>2, Zenon DEF Booked
<1>9. /\ DOMAIN pc' = Connection /\ DOMAIN txn' = Connection
      /\ \A d \in Connection : pc'[d] \in Label /\ TxnSound(d)'
  BY <1>1, <1>4, EndedSound
<1> QED BY <1>1, <1>2, <1>5, <1>7, <1>8, <1>9 DEF JournalTypes

LEMMA TypesStep == JournalTypes /\ [JournalNext]_journalVars => JournalTypes'
<1> SUFFICES ASSUME JournalTypes, [JournalNext]_journalVars PROVE JournalTypes'
  OBVIOUS
<1>1. ASSUME NEW c \in Connection, NEW qty \in Qty, RefuseSell(c, qty) PROVE JournalTypes'
  <2>1. /\ lots' = lots /\ position' = position /\ lotSeq' = lotSeq /\ pc' = pc /\ txn' = txn
        /\ history' = Meets("SELL")
    BY <1>1 DEF RefuseSell
  <2>2. history' \in [shares : Int, cash : Int, resold : BOOLEAN,
                      overlapped : BOOLEAN, splitOverlapped : BOOLEAN]
    BY <2>1, Meeting
  <2> QED BY <2>1, <2>2 DEF JournalTypes, TxnSound, NoTxn
<1>2. ASSUME NEW c \in Connection, Lose(c) PROVE JournalTypes'
  <2>1. /\ lots' = lots /\ position' = position /\ history' = history /\ Ends(c) /\ lotSeq' = lotSeq
    BY <1>2 DEF Lose, Ends
  <2>2. /\ DOMAIN pc' = Connection /\ DOMAIN txn' = Connection
        /\ \A d \in Connection : pc'[d] \in Label /\ TxnSound(d)'
    BY <2>1, EndedSound
  <2> QED BY <2>1, <2>2 DEF JournalTypes
<1>3. CASE UNCHANGED journalVars
  BY <1>3 DEF journalVars, JournalTypes, TxnSound, NoTxn
<1> QED
  BY <1>1, <1>2, <1>3, BuyTypes, SellTypesKept, SplitTypesKept, UpdateTypesKept,
     LotsWrittenTypesKept, CommitTypesKept DEF JournalNext

--------------------------------------------------------------------------------
(* Quantity and log. *)

LEMMA BeginKeepsQuantity ==
  ASSUME JournalTypes, QuantityInv, NEW c \in Connection, NEW label, NEW record,
         Begin(c, label, record), record.action = "SPLIT" => label = "lots"
  PROVE  QuantityInv'
<1>1. /\ pc[c] = "idle" /\ pc'[c] = label /\ txn'[c] = record
      /\ \A d \in Connection : d # c => txn'[d] = txn[d] /\ pc'[d] = pc[d]
      /\ position' = position /\ history' = Meets(record.action)
  BY BeginsOne
<1>2. /\ history'.shares = history.shares
      /\ ~ history'.splitOverlapped =>
           /\ ~ history.splitOverlapped
           /\ \A d \in Connection : pc[d] # "idle" =>
                record.action # "SPLIT" /\ txn[d].action # "SPLIT"
      /\ (history.splitOverlapped => history.overlapped) =>
           (history'.splitOverlapped => history'.overlapped)
  BY <1>1, Meeting
<1>3. history'.splitOverlapped => history'.overlapped
  BY <1>2 DEF QuantityInv
<1>4. ASSUME ~ history'.splitOverlapped
      PROVE  /\ position'.quantity = history'.shares
             /\ \A e \in Connection : pc'[e] # "idle" /\ txn'[e].action = "SPLIT" =>
                  /\ \A d \in Connection : pc'[d] # "idle" => d = e
                  /\ pc'[e] = "commit" => txn'[e].seen = position'.quantity
  <2>1. position'.quantity = history'.shares
    BY <1>1, <1>2, <1>4 DEF QuantityInv
  <2>2. ASSUME NEW e \in Connection, pc'[e] # "idle", txn'[e].action = "SPLIT"
        PROVE  /\ \A d \in Connection : pc'[d] # "idle" => d = e
               /\ pc'[e] = "commit" => txn'[e].seen = position'.quantity
    <3>1. e = c
      BY <1>1, <1>2, <1>4, <2>2
    <3>2. record.action = "SPLIT" /\ pc'[e] = "lots"
      BY <1>1, <2>2, <3>1
    <3>3. \A d \in Connection : pc'[d] # "idle" => d = e
      BY <1>1, <1>2, <1>4, <3>1, <3>2
    <3> QED BY <3>2, <3>3
  <2> QED BY <2>1, <2>2
<1> QED BY <1>3, <1>4 DEF QuantityInv

LEMMA QuantityStep == JournalTypes /\ QuantityInv /\ [JournalNext]_journalVars => QuantityInv'
<1> SUFFICES ASSUME JournalTypes, QuantityInv, [JournalNext]_journalVars PROVE QuantityInv'
  OBVIOUS
<1>1. ASSUME NEW c \in Connection, NEW qty \in Qty, NEW unit \in Unit, BeginBuy(c, qty, unit)
      PROVE  QuantityInv'
  <2>1. /\ Begin(c, "commit", Purchase(lotSeq + 1, qty, unit))
        /\ Purchase(lotSeq + 1, qty, unit).action = "BUY"
    BY <1>1 DEF BeginBuy, Purchase
  <2> QED BY <2>1, BeginKeepsQuantity
<1>2. ASSUME NEW c \in Connection, NEW qty \in Qty, NEW unit \in Unit, BeginSell(c, qty, unit)
      PROVE  QuantityInv'
  <2>1. Begin(c, "lots", Sale(qty, unit))
    BY <1>2 DEF BeginSell
  <2> QED BY <2>1, BeginKeepsQuantity
<1>3. ASSUME NEW c \in Connection, NEW ratio \in Ratio, BeginSplit(c, ratio)
      PROVE  QuantityInv'
  <2>1. Begin(c, "lots", Splitting(ratio))
    BY <1>3 DEF BeginSplit
  <2> QED BY <2>1, BeginKeepsQuantity
<1>4. ASSUME NEW c \in Connection, NEW qty \in Qty, RefuseSell(c, qty) PROVE QuantityInv'
  <2>1. position' = position /\ pc' = pc /\ txn' = txn /\ history' = Meets("SELL")
    BY <1>4 DEF RefuseSell
  <2>2. /\ history'.shares = history.shares
        /\ ~ history'.splitOverlapped => ~ history.splitOverlapped
        /\ (history.splitOverlapped => history.overlapped) =>
             (history'.splitOverlapped => history'.overlapped)
    BY <2>1, Meeting
  <2> QED BY <2>1, <2>2 DEF QuantityInv
<1>5. ASSUME NEW c \in Connection, UpdateLot(c) PROVE QuantityInv'
  <2>1. /\ pc' = pc /\ position' = position /\ history' = history
        /\ \A d \in Connection : d # c => txn'[d] = txn[d]
        /\ \A f \in Columns : f # "wrote" => txn'[c][f] = txn[c][f]
    BY <1>5, WritesOne
  <2>2. \A d \in Connection : txn'[d].action = txn[d].action /\ txn'[d].seen = txn[d].seen
    BY <2>1 DEF Columns
  <2> QED BY <2>1, <2>2 DEF QuantityInv
<1>6. ASSUME NEW c \in Connection, LotsWritten(c) PROVE QuantityInv'
  <2>1. /\ pc[c] = "lots" /\ pc'[c] = "commit" /\ position' = position /\ history' = history
        /\ \A d \in Connection : d # c => txn'[d] = txn[d] /\ pc'[d] = pc[d]
        /\ txn'[c].seen = position.quantity
        /\ \A f \in Columns : f # "seen" => txn'[c][f] = txn[c][f]
    BY <1>6, GoesToCommit
  <2>2. \A d \in Connection : /\ txn'[d].action = txn[d].action
                              /\ pc'[d] # "idle" <=> pc[d] # "idle"
    BY <2>1 DEF Columns
  <2> QED BY <2>1, <2>2 DEF QuantityInv
<1>7. ASSUME NEW c \in Connection, Commit(c) PROVE QuantityInv'
  <2>1. /\ pc[c] = "commit" /\ Ends(c) /\ lots' = Visible(c)
        /\ position' = IF txn[c].action = "SPLIT" THEN Multiplied(c) ELSE Incremented(c)
        /\ history' = Booked(txn[c], Signed(c))
    BY <1>7 DEF Commit, Ends
  <2>2. /\ pc'[c] = "idle" /\ \A d \in Connection : d # c => txn'[d] = txn[d] /\ pc'[d] = pc[d]
    BY <2>1, EndedSound DEF Visible
  <2>3. /\ history'.overlapped = history.overlapped
        /\ history'.splitOverlapped = history.splitOverlapped
        /\ history'.shares = IF txn[c].action = "SPLIT" THEN history.shares * txn[c].qty
                                                        ELSE history.shares + Signed(c)
    BY <2>1 DEF Booked
  <2>4. ASSUME ~ history.splitOverlapped
        PROVE  /\ position'.quantity = history'.shares
               /\ \A e \in Connection : ~ (pc'[e] # "idle" /\ txn'[e].action = "SPLIT")
                                        \/ (pc[e] # "idle" /\ txn[e].action = "SPLIT" /\ e # c)
    <3>1. position.quantity = history.shares
      BY <2>4 DEF QuantityInv
    <3>2. CASE txn[c].action = "SPLIT"
      <4>1. txn[c].seen = position.quantity
        BY <2>1, <2>4, <3>2 DEF QuantityInv
      <4>2. position'.quantity = IF txn[c].seen * txn[c].qty = txn[c].seen
                                 THEN position.quantity ELSE txn[c].seen * txn[c].qty
        BY <2>1, <3>2 DEF Multiplied
      <4> QED BY <2>2, <2>3, <3>1, <3>2, <4>1, <4>2
    <3>3. CASE txn[c].action # "SPLIT"
      <4>1. position'.quantity = position.quantity + Signed(c)
        BY <2>1, <3>3 DEF Incremented
      <4> QED BY <2>2, <2>3, <3>1, <3>3, <4>1
    <3> QED BY <3>2, <3>3
  <2>5. ASSUME ~ history.splitOverlapped, NEW e \in Connection, pc[e] # "idle",
               txn[e].action = "SPLIT", e # c
        PROVE  FALSE
    BY <2>1, <2>5 DEF QuantityInv
  <2> QED BY <2>3, <2>4, <2>5 DEF QuantityInv
<1>8. ASSUME NEW c \in Connection, Lose(c) PROVE QuantityInv'
  <2>1. /\ lots' = lots /\ position' = position /\ history' = history /\ Ends(c)
    BY <1>8 DEF Lose, Ends
  <2>2. /\ pc'[c] = "idle" /\ \A d \in Connection : d # c => txn'[d] = txn[d] /\ pc'[d] = pc[d]
    BY <2>1, EndedSound
  <2> QED BY <2>1, <2>2 DEF QuantityInv
<1>9. CASE UNCHANGED journalVars
  BY <1>9 DEF journalVars, QuantityInv
<1> QED
  BY <1>1, <1>2, <1>3, <1>4, <1>5, <1>6, <1>7, <1>8, <1>9 DEF JournalNext

--------------------------------------------------------------------------------
(* Trades that never overlap. *)

(* What a trade is going to commit depends on the lots and the ids only.   *)
LEMMA SameLotsSamePlans ==
  ASSUME lots' = lots, lotSeq' = lotSeq, NEW CONSTANT qty, NEW CONSTANT unit
  PROVE  /\ Sale(qty, unit)' = Sale(qty, unit) /\ Enough(qty)' = Enough(qty)
         /\ Splitting(qty)' = Splitting(qty) /\ ExactSplit(qty)' = ExactSplit(qty)
BY DEF Sale, SalePlan, Dirty, CostConsumed, Enough, SharesIn, Splitting, SplitPlan, ExactSplit

LEMMA SerialTotals ==
  ASSUME JournalTypes
  PROVE  /\ SharesIn(lots) = Available(Queue(lots), lotSeq)
         /\ CostIn(lots) = RunningSum(Basis(lots))[lotSeq]
         /\ SharesIn(lots) \in Nat /\ CostIn(lots) \in Nat
<1>1. lotSeq \in Nat /\ LotTable(lots, lotSeq)
  BY SomeTypes
<1>2. Available(Queue(lots), lotSeq) \in Nat /\ RunningSum(Basis(lots))[lotSeq] \in Nat
  BY <1>1, LotColumns
<1> QED BY <1>2 DEF SharesIn, CostIn, Basis

(* The books stay in order while lots and position do, whoever begins.     *)
LEMMA BeginKeepsBooks ==
  ASSUME JournalTypes, SerialInv, NEW c \in Connection, NEW label, NEW record,
         Begin(c, label, record), lotSeq' \in {lotSeq, lotSeq + 1},
         ~ history.overlapped => InProgress(c)'
  PROVE  SerialInv'
<1> SUFFICES ASSUME ~ history'.overlapped
             PROVE  /\ \A p, q \in Connection : pc'[p] # "idle" /\ pc'[q] # "idle" => p = q
                    /\ LotsInOrder(lots')
                    /\ position'.quantity = SharesIn(lots)'
                    /\ position'.is_closed <=> position'.quantity = 0
                    /\ position'.realized_pnl = history'.cash + CostIn(lots)'
                    /\ history'.resold \/ position'.total_cost = CostIn(lots)'
                    /\ \A p \in Connection : pc'[p] # "idle" => InProgress(p)'
  BY DEF SerialInv, LotsInOrder
<1>1. /\ pc'[c] = label /\ txn'[c] = record /\ lots' = lots /\ position' = position
      /\ \A d \in Connection : d # c => txn'[d] = txn[d] /\ pc'[d] = pc[d]
      /\ history' = Meets(record.action)
  BY BeginsOne
<1>2. /\ history'.cash = history.cash /\ history'.resold = history.resold
      /\ ~ history.overlapped /\ \A d \in Connection : pc[d] = "idle"
  BY <1>1, Meeting
<1>3. \A d \in Connection : pc'[d] # "idle" => d = c
  BY <1>1, <1>2
<1>4. /\ lotSeq \in Nat /\ LotTable(lots, lotSeq)
  BY SomeTypes
<1>5. /\ Available(Queue(lots), lotSeq') = Available(Queue(lots), lotSeq)
      /\ RunningSum(Basis(lots))[lotSeq'] = RunningSum(Basis(lots))[lotSeq]
  BY <1>4, TotalsStay
<1>6. SharesIn(lots)' = SharesIn(lots) /\ CostIn(lots)' = CostIn(lots)
  <2>1. SharesIn(lots)' = Available(Queue(lots), lotSeq') /\ CostIn(lots)' = RunningSum(Basis(lots))[lotSeq']
    BY <1>1 DEF SharesIn, CostIn, Basis
  <2> QED BY <1>5, <2>1, SerialTotals
<1> QED BY <1>1, <1>2, <1>3, <1>6 DEF SerialInv

(* A step that leaves lots, ids, position and history alone keeps the      *)
(* books in order if who is at work, or some who were, still are.          *)
LEMMA QuietStepKeepsBooks ==
  ASSUME SerialInv, lots' = lots, lotSeq' = lotSeq, position' = position,
         ~ history'.overlapped => ~ history.overlapped,
         history'.cash = history.cash, history'.resold = history.resold,
         \A d \in Connection : pc'[d] # "idle" => pc[d] # "idle",
         ~ history.overlapped => \A d \in Connection : pc'[d] # "idle" => InProgress(d)'
  PROVE  SerialInv'
<1>1. SharesIn(lots)' = SharesIn(lots) /\ CostIn(lots)' = CostIn(lots)
  BY DEF SharesIn, CostIn
<1> QED BY <1>1 DEF SerialInv, LotsInOrder

(* Committing a BUY.                                                       *)
LEMMA CommitBuyKeepsBooks ==
  ASSUME JournalInv, ~ history.overlapped, NEW c \in Connection, Commit(c), txn[c].action = "BUY",
         JournalTypes'
  PROVE  SerialInv'
<1>1. /\ pc[c] = "commit" /\ lots' = Visible(c) /\ lotSeq' = lotSeq /\ Ends(c)
      /\ position' = Incremented(c) /\ history' = Booked(txn[c], Signed(c))
  BY DEF Commit, Ends
<1>2. /\ lotSeq \in Nat /\ LotTable(lots, lotSeq) /\ JournalTypes
      /\ txn[c].qty \in Nat /\ txn[c].qty > 0 /\ txn[c].unit \in Nat /\ LotTable(txn[c].wrote, lotSeq)
  BY <1>1 DEF JournalInv, JournalTypes, TxnSound
<1>3. /\ \A d \in Connection : pc[d] # "idle" => d = c
      /\ LotsInOrder(lots) /\ position.quantity = SharesIn(lots)
      /\ position.realized_pnl = history.cash + CostIn(lots)
      /\ history.resold \/ position.total_cost = CostIn(lots)
      /\ txn[c] = Purchase(lotSeq, txn[c].qty, txn[c].unit) /\ lotSeq \notin DOMAIN lots
  BY <1>1 DEF JournalInv, SerialInv, InProgress
<1> DEFINE qty == txn[c].qty
<1> DEFINE unit == txn[c].unit
<1>4. /\ txn[c].wrote = Put(<<>>, lotSeq, NewLot(qty, unit)) /\ txn[c].charge = -(qty * unit)
      /\ txn[c].gain = 0
  BY <1>3 DEF Purchase
<1>5. /\ DOMAIN txn[c].wrote = {lotSeq} /\ txn[c].wrote[lotSeq] = NewLot(qty, unit)
  BY <1>4 DEF Put
<1>6. lotSeq > 0 /\ NewLot(qty, unit) \in LotRow
  BY <1>2, <1>5 DEF LotTable
<1>7. /\ NewLot(qty, unit).remaining = qty /\ NewLot(qty, unit).original = qty
      /\ NewLot(qty, unit).cost = unit /\ ~ NewLot(qty, unit).exhausted
  BY DEF NewLot
<1>8. /\ DOMAIN lots' = DOMAIN lots \cup {lotSeq} /\ lots'[lotSeq] = NewLot(qty, unit)
      /\ \A l \in DOMAIN lots : lots'[l] = lots[l]
  BY <1>1, <1>3, <1>5 DEF Visible
<1>9. /\ Available(Queue(lots'), lotSeq) = Available(Queue(lots), lotSeq) + qty
      /\ RunningSum(Basis(lots'))[lotSeq] = RunningSum(Basis(lots))[lotSeq] + qty * unit
  <2> DEFINE more == lots'
  <2> DEFINE row == NewLot(qty, unit)
  <2>1. /\ DOMAIN more = DOMAIN lots \cup {lotSeq} /\ more[lotSeq] = row /\ row \in LotRow
        /\ \A l \in DOMAIN lots : more[l] = lots[l]
        /\ row.remaining = qty /\ row.cost = unit /\ ~ row.exhausted
    BY <1>6, <1>7, <1>8
  <2> HIDE DEF more, row
  <2>2. /\ Available(Queue(more), lotSeq) = Available(Queue(lots), lotSeq) + row.remaining
        /\ RunningSum(Basis(more))[lotSeq] = RunningSum(Basis(lots))[lotSeq] + row.remaining * row.cost
    BY <1>2, <1>3, <1>6, <2>1, LotAdded
  <2> QED BY <2>1, <2>2 DEF more
<1>10. LotsInOrder(lots')
  <2>1. \A l \in DOMAIN lots : l <= lotSeq /\ l \in Nat
    BY <1>2 DEF LotTable
  <2>2. \A l \in DOMAIN lots' : /\ lots'[l].exhausted <=> lots'[l].remaining = 0
                                /\ lots'[l].remaining <= lots'[l].original
    BY <1>2, <1>3, <1>7, <1>8 DEF LotsInOrder
  <2>3. ASSUME NEW l \in DOMAIN lots', NEW m \in DOMAIN lots', m < l,
               lots'[l].remaining < lots'[l].original
        PROVE  lots'[m].remaining = 0
    <3>1. l # lotSeq
      BY <1>2, <1>7, <1>8, <2>3
    <3>2. m # lotSeq
      BY <1>2, <1>8, <2>1, <2>3, <3>1
    <3> QED BY <1>3, <1>8, <2>3, <3>1, <3>2 DEF LotsInOrder
  <2> QED BY <2>2, <2>3 DEF LotsInOrder
<1>11. /\ SharesIn(lots)' = SharesIn(lots) + qty /\ CostIn(lots)' = CostIn(lots) + qty * unit
       /\ SharesIn(lots) \in Nat /\ CostIn(lots) \in Nat /\ SharesIn(lots)' \in Nat
  <2>1. /\ SharesIn(lots)' = Available(Queue(lots'), lotSeq')
        /\ CostIn(lots)' = RunningSum(Basis(lots'))[lotSeq']
    BY DEF SharesIn, CostIn, Basis
  <2>2. /\ SharesIn(lots) = Available(Queue(lots), lotSeq)
        /\ CostIn(lots) = RunningSum(Basis(lots))[lotSeq]
        /\ SharesIn(lots) \in Nat /\ CostIn(lots) \in Nat
    BY <1>2, SerialTotals
  <2> QED BY <1>1, <1>2, <1>9, <2>1, <2>2
<1>12. /\ position'.quantity = position.quantity + qty
       /\ position'.total_cost = position.total_cost - txn[c].charge
       /\ position'.realized_pnl = position.realized_pnl + txn[c].gain
       /\ position'.is_closed <=> position.quantity + qty <= 0
  BY <1>1 DEF Incremented, Signed
<1>13. /\ history'.cash = history.cash - qty * unit
       /\ history.resold => history'.resold
       /\ history'.overlapped = history.overlapped
  BY <1>1 DEF Booked, Signed
<1>14. \A d \in Connection : pc'[d] = "idle"
  <2>1. pc'[c] = "idle" /\ \A d \in Connection : d # c => pc'[d] = pc[d]
    BY <1>1, <1>2, EndedSound DEF Visible
  <2> QED BY <1>3, <2>1
<1>15. /\ position.quantity \in Int /\ position.total_cost \in Int /\ position.realized_pnl \in Int
       /\ history.cash \in Int /\ qty * unit \in Int
  BY <1>2, SomeTypes
<1> HIDE DEF qty, unit
<1>16. /\ position'.quantity = SharesIn(lots)'
       /\ position'.is_closed <=> position'.quantity = 0
       /\ position'.realized_pnl = history'.cash + CostIn(lots)'
       /\ history'.resold \/ position'.total_cost = CostIn(lots)'
  <2> DEFINE worth == qty * unit
  <2>1. /\ txn[c].charge = -worth /\ txn[c].gain = 0 /\ worth \in Int
        /\ CostIn(lots)' = CostIn(lots) + worth /\ history'.cash = history.cash - worth
    BY <1>4, <1>11, <1>13, <1>15
  <2> HIDE DEF worth
  <2>2. position'.quantity = SharesIn(lots)'
    BY <1>3, <1>11, <1>12
  <2>3. position'.is_closed <=> position'.quantity = 0
    <3>1. position'.quantity = position.quantity + qty /\ position'.quantity \in Nat
      BY <1>11, <1>12, <2>2
    <3> QED BY <1>12, <3>1
  <2>4. position'.realized_pnl = history'.cash + CostIn(lots)'
    BY <1>3, <1>11, <1>12, <1>15, <2>1
  <2>5. history'.resold \/ position'.total_cost = CostIn(lots)'
    BY <1>3, <1>11, <1>12, <1>13, <1>15, <2>1
  <2> QED BY <2>2, <2>3, <2>4, <2>5
<1> QED BY <1>10, <1>14, <1>16 DEF SerialInv, LotsInOrder

(* Which flag a written row ends with. *)
LEMMA WrittenFlag ==
  ASSUME NEW c, NEW l
  PROVE  Written(c, l).exhausted <=>
           lots[l].exhausted \/ (txn[c].action = "SELL" /\ txn[c].plan[l].exhausted)
BY Zenon DEF Written

LEMMA ConsumedFlag ==
  ASSUME NEW lot, NEW taken
  PROVE  Consume(lot, taken).exhausted <=> taken > 0 /\ lot.remaining = taken
BY Zenon DEF Consume

(* The rows a trade that is alone has written are the ones it planned.     *)
LEMMA CommittedRows ==
  ASSUME JournalInv, ~ history.overlapped, NEW c \in Connection, pc[c] = "commit",
         lots' = Visible(c), txn[c].action \in {"SELL", "SPLIT"}
  PROVE  /\ DOMAIN lots' = DOMAIN lots /\ DOMAIN txn[c].wrote = DOMAIN txn[c].plan
         /\ DOMAIN txn[c].plan \subseteq DOMAIN lots
         /\ \A l \in DOMAIN lots :
              lots'[l] = IF l \in DOMAIN txn[c].plan THEN Written(c, l) ELSE lots[l]
<1>1. /\ DOMAIN txn[c].wrote = DOMAIN txn[c].plan /\ DOMAIN txn[c].plan \subseteq DOMAIN lots
  BY DEF JournalInv, JournalTypes, TxnSound
<1>2. \A l \in DOMAIN txn[c].wrote : txn[c].wrote[l] = Written(c, l)
  BY DEF JournalInv, SerialInv, InProgress
<1>3. /\ DOMAIN lots' = DOMAIN lots \cup DOMAIN txn[c].wrote
      /\ \A l \in DOMAIN lots' :
           lots'[l] = IF l \in DOMAIN txn[c].wrote THEN txn[c].wrote[l] ELSE lots[l]
  BY DEF Visible
<1> QED BY <1>1, <1>2, <1>3

(* Committing a SELL.                                                      *)
LEMMA CommitSellKeepsBooks ==
  ASSUME JournalInv, ~ history.overlapped, NEW c \in Connection, Commit(c), txn[c].action = "SELL",
         JournalTypes'
  PROVE  SerialInv'
<1> DEFINE qty == txn[c].qty
<1> DEFINE unit == txn[c].unit
<1> DEFINE plan == SalePlan(qty)
<1> DEFINE taken == Consumed(Queue(lots), qty)
<1> DEFINE cost == CostOfSale(Queue(lots), UnitCost(lots), qty, lotSeq)
<1>1. /\ pc[c] = "commit" /\ lots' = Visible(c) /\ lotSeq' = lotSeq /\ Ends(c)
      /\ position' = Incremented(c) /\ history' = Booked(txn[c], Signed(c))
  BY DEF Commit, Ends
<1>2. /\ lotSeq \in Nat /\ LotTable(lots, lotSeq) /\ JournalTypes
      /\ qty \in Nat /\ qty > 0 /\ unit \in Nat
  BY <1>1 DEF JournalInv, JournalTypes, TxnSound
<1>3. /\ \A d \in Connection : pc[d] # "idle" => d = c
      /\ LotsInOrder(lots) /\ position.quantity = SharesIn(lots)
      /\ position.realized_pnl = history.cash + CostIn(lots)
      /\ history.resold \/ position.total_cost = CostIn(lots)
      /\ Enough(qty) /\ txn[c].plan = Sale(qty, unit).plan
      /\ txn[c].charge = Sale(qty, unit).charge /\ txn[c].gain = Sale(qty, unit).gain
  BY <1>1 DEF JournalInv, SerialInv, InProgress
<1>4. /\ txn[c].plan = [l \in Dirty(plan) |-> plan[l]] /\ txn[c].charge = CostConsumed(plan)
      /\ txn[c].gain = qty * unit - cost
  BY <1>3 DEF Sale
<1>5. /\ DOMAIN plan = OpenLots(lots) /\ OpenLots(lots) \subseteq DOMAIN lots
      /\ taken \in [Nat -> Nat]
      /\ \A l \in OpenLots(lots) : /\ taken[l] <= lots[l].remaining
                                   /\ plan[l] = Consume(lots[l], taken[l])
  BY <1>2, PlannedRows
<1>6. \A l \in DOMAIN lots : /\ l \in Nat /\ lots[l].remaining \in Nat /\ lots[l].original \in Nat
                             /\ lots[l].cost \in Nat /\ lots[l] \in LotRow
                             /\ lots[l].exhausted <=> lots[l].remaining = 0
  BY <1>2, <1>3, LotColumns DEF LotTable, LotsInOrder
<1>7. \A l \in DOMAIN lots : lots[l].exhausted => taken[l] = 0
  <2>1. Queue(lots) \in [Nat -> Nat]
    BY <1>2, LotColumns
  <2>2. \A i \in Nat : taken[i] <= Queue(lots)[i]
    BY <1>2, <2>1, ConsumedBounds
  <2>3. \A l \in DOMAIN lots : lots[l].exhausted => Queue(lots)[l] = 0
    BY <1>6 DEF Queue, OpenLots
  <2> HIDE DEF taken
  <2> QED BY <1>5, <1>6, <2>2, <2>3
<1>8. /\ DOMAIN lots' = DOMAIN lots /\ DOMAIN txn[c].wrote = DOMAIN txn[c].plan
      /\ \A l \in DOMAIN lots :
           lots'[l] = IF l \in DOMAIN txn[c].plan THEN Written(c, l) ELSE lots[l]
  BY <1>1, CommittedRows
<1>9. /\ DOMAIN txn[c].plan = Dirty(plan) /\ \A l \in Dirty(plan) : txn[c].plan[l] = plan[l]
      /\ \A l \in OpenLots(lots) : l \in Dirty(plan) <=> plan[l] # lots[l]
      /\ Dirty(plan) \subseteq OpenLots(lots)
  BY <1>4, <1>5 DEF Dirty
<1> HIDE DEF plan, taken, cost, qty, unit
<1>10. ASSUME NEW l \in DOMAIN lots
       PROVE  /\ lots'[l].original = lots[l].original /\ lots'[l].cost = lots[l].cost
              /\ lots'[l].remaining = lots[l].remaining - taken[l]
              /\ lots'[l].exhausted <=> lots'[l].remaining = 0
              /\ lots'[l] \in LotRow
  <2>1. CASE lots[l].exhausted
    <3>1. lots'[l] = lots[l]
      BY <1>8, <1>9, <2>1 DEF OpenLots
    <3> QED BY <1>6, <1>7, <2>1, <3>1
  <2>2. CASE ~ lots[l].exhausted /\ l \in Dirty(plan)
    <3>1. /\ l \in OpenLots(lots) /\ plan[l] = Consume(lots[l], taken[l])
          /\ taken[l] \in Nat /\ taken[l] <= lots[l].remaining
      BY <1>5, <1>6, <2>2 DEF OpenLots
    <3>2. lots'[l] = Written(c, l) /\ txn[c].plan[l] = plan[l]
      BY <1>8, <1>9, <2>2
    <3>3. /\ lots'[l].original = lots[l].original /\ lots'[l].cost = lots[l].cost
          /\ lots'[l].remaining = lots[l].remaining - taken[l]
          /\ lots'[l].exhausted <=> taken[l] > 0 /\ lots[l].remaining = taken[l]
      <4>1. lots'[l].original = lots[l].original /\ lots'[l].cost = lots[l].cost
        BY <3>2 DEF Written
      <4>2. lots'[l].remaining = lots[l].remaining - taken[l]
        BY <3>1, <3>2 DEF Written, Consume
      <4>3. lots'[l].exhausted <=> lots[l].exhausted \/ plan[l].exhausted
        BY <3>2, WrittenFlag
      <4>4. plan[l].exhausted <=> taken[l] > 0 /\ lots[l].remaining = taken[l]
        BY <3>1, ConsumedFlag
      <4> QED BY <2>2, <4>1, <4>2, <4>3, <4>4
    <3>4. lots'[l] \in LotRow
      BY <1>1, <1>2, <1>8, <1>9, <2>2, <3>2, WrittenRow
    <3> QED BY <1>6, <2>2, <3>1, <3>3, <3>4
  <2>3. CASE ~ lots[l].exhausted /\ l \notin Dirty(plan)
    <3>1. /\ l \in OpenLots(lots) /\ plan[l] = Consume(lots[l], taken[l]) /\ taken[l] \in Nat
      BY <1>5, <1>6, <2>3 DEF OpenLots
    <3>2. plan[l] = lots[l] /\ lots'[l] = lots[l]
      BY <1>8, <1>9, <2>3, <3>1
    <3>3. lots[l].remaining = lots[l].remaining - taken[l]
      BY <3>1, <3>2 DEF Consume
    <3> QED BY <1>6, <3>2, <3>3
  <2> QED BY <2>1, <2>2, <2>3
<1>11. SoldFrom(lots, lots', qty)
  BY <1>8, <1>10 DEF SoldFrom, taken
<1>12. qty <= Available(Queue(lots), lotSeq)
  BY <1>3 DEF Enough, SharesIn
<1>13. /\ LotsInOrder(lots')
       /\ Available(Queue(lots'), lotSeq) = Available(Queue(lots), lotSeq) - qty
       /\ cost \in Nat
       /\ RunningSum(Basis(lots'))[lotSeq] = RunningSum(Basis(lots))[lotSeq] - cost
  <2> DEFINE after == lots'
  <2>1. SoldFrom(lots, after, qty)
    BY <1>11
  <2> HIDE DEF after
  <2>2. /\ LotsInOrder(after)
        /\ Available(Queue(after), lotSeq) = Available(Queue(lots), lotSeq) - qty
        /\ cost \in Nat
        /\ RunningSum(Basis(after))[lotSeq] = RunningSum(Basis(lots))[lotSeq] - cost
    BY <1>2, <1>3, <1>12, <2>1, SaleLeaves DEF cost
  <2> QED BY <2>2 DEF after
<1>14. /\ SharesIn(lots)' = SharesIn(lots) - qty /\ CostIn(lots)' = CostIn(lots) - cost
       /\ SharesIn(lots) \in Nat /\ CostIn(lots) \in Nat /\ SharesIn(lots)' \in Nat
  <2>1. /\ SharesIn(lots)' = Available(Queue(lots'), lotSeq)
        /\ CostIn(lots)' = RunningSum(Basis(lots'))[lotSeq]
    BY <1>1 DEF SharesIn, CostIn, Basis
  <2>2. /\ SharesIn(lots) = Available(Queue(lots), lotSeq)
        /\ CostIn(lots) = RunningSum(Basis(lots))[lotSeq]
        /\ SharesIn(lots) \in Nat /\ CostIn(lots) \in Nat
    BY <1>2, SerialTotals
  <2> QED BY <1>2, <1>12, <1>13, <2>1, <2>2
<1>15. /\ position'.quantity = position.quantity - qty
       /\ position'.total_cost = position.total_cost - txn[c].charge
       /\ position'.realized_pnl = position.realized_pnl + txn[c].gain
       /\ position'.is_closed <=> position.quantity - qty <= 0
  <2>1. Signed(c) = -qty
    BY DEF Signed, qty
  <2>2. position.quantity + -qty = position.quantity - qty
    BY <1>2, SomeTypes
  <2> QED BY <1>1, <2>1, <2>2 DEF Incremented
<1>16. /\ history'.cash = history.cash + qty * unit
       /\ history'.resold <=> history.resold \/ Resells(txn[c])
       /\ history'.overlapped = history.overlapped
  <2>1. Signed(c) = -qty
    BY DEF Signed, qty
  <2>2. history.cash - (-qty) * unit = history.cash + qty * unit
    BY <1>2, SomeTypes
  <2> QED BY <1>1, <2>1, <2>2 DEF Booked, unit
<1>17. \A d \in Connection : pc'[d] = "idle"
  <2>1. pc'[c] = "idle" /\ \A d \in Connection : d # c => pc'[d] = pc[d]
    BY <1>1, <1>2, EndedSound DEF Visible
  <2> QED BY <1>3, <2>1
<1>18. history'.resold \/ txn[c].charge = cost
  <2>1. ASSUME ~ history'.resold PROVE CostConsumed(SalePlan(qty)) = cost
    <3>1. \A l \in Dirty(SalePlan(qty)) : ~ (lots[l].remaining < lots[l].original)
      BY <1>8, <1>9, <1>16, <2>1 DEF Resells, plan
    <3>2. \A l \in Dirty(SalePlan(qty)) : lots[l].remaining >= lots[l].original
      BY <1>5, <1>6, <1>9, <3>1 DEF plan
    <3> QED BY <1>2, <1>3, <3>2, FreshChargeIsCost DEF cost
  <2> QED BY <1>4, <2>1 DEF plan
<1>19. /\ position.quantity \in Int /\ position.total_cost \in Int /\ position.realized_pnl \in Int
       /\ history.cash \in Int
  BY <1>2, SomeTypes
<1>20. /\ position'.quantity = SharesIn(lots)'
       /\ position'.is_closed <=> position'.quantity = 0
       /\ position'.realized_pnl = history'.cash + CostIn(lots)'
       /\ history'.resold \/ position'.total_cost = CostIn(lots)'
  <2> DEFINE worth == qty * unit
  <2>1. worth \in Int /\ txn[c].gain = worth - cost /\ history'.cash = history.cash + worth
    BY <1>2, <1>4, <1>16
  <2> HIDE DEF worth
  <2>2. position'.quantity = SharesIn(lots)'
    BY <1>3, <1>14, <1>15
  <2>3. position'.is_closed <=> position'.quantity = 0
    <3>1. position'.quantity = position.quantity - qty /\ position'.quantity \in Nat
      BY <1>14, <1>15, <2>2
    <3> QED BY <1>15, <3>1
  <2>4. position'.realized_pnl = history'.cash + CostIn(lots)'
    BY <1>3, <1>13, <1>14, <1>15, <1>19, <2>1
  <2>5. history'.resold \/ position'.total_cost = CostIn(lots)'
    BY <1>3, <1>14, <1>15, <1>16, <1>18, <1>19
  <2> QED BY <2>2, <2>3, <2>4, <2>5
<1> QED BY <1>13, <1>17, <1>20 DEF SerialInv, LotsInOrder

(* Committing a SPLIT.                                                     *)
LEMMA CommitSplitKeepsBooks ==
  ASSUME JournalInv, ~ history.overlapped, NEW c \in Connection, Commit(c), txn[c].action = "SPLIT",
         JournalTypes'
  PROVE  SerialInv'
<1> DEFINE s == txn[c].qty
<1> DEFINE plan == SplitPlan(s)
<1>1. /\ pc[c] = "commit" /\ lots' = Visible(c) /\ lotSeq' = lotSeq /\ Ends(c)
      /\ position' = Multiplied(c) /\ history' = Booked(txn[c], Signed(c))
  BY DEF Commit, Ends
<1>2. /\ lotSeq \in Nat /\ LotTable(lots, lotSeq) /\ JournalTypes
      /\ s \in Nat /\ s > 0
  BY <1>1 DEF JournalInv, JournalTypes, TxnSound
<1>3. /\ \A d \in Connection : pc[d] # "idle" => d = c
      /\ LotsInOrder(lots) /\ position.quantity = SharesIn(lots)
      /\ position.is_closed <=> position.quantity = 0
      /\ position.realized_pnl = history.cash + CostIn(lots)
      /\ history.resold \/ position.total_cost = CostIn(lots)
      /\ ExactSplit(s) /\ txn[c].plan = Splitting(s).plan
  BY <1>1 DEF JournalInv, SerialInv, InProgress
<1>4. txn[c].seen = position.quantity
  BY <1>1 DEF JournalInv, QuantityInv
<1>5. txn[c].plan = [l \in Dirty(plan) |-> plan[l]]
  BY <1>3 DEF Splitting
<1>6. /\ DOMAIN plan = OpenLots(lots) /\ OpenLots(lots) \subseteq DOMAIN lots
      /\ \A l \in OpenLots(lots) : plan[l] = Split(lots[l], s)
  BY <1>2, PlannedRows
<1>7. \A l \in DOMAIN lots : /\ l \in Nat /\ lots[l].remaining \in Nat /\ lots[l].original \in Nat
                             /\ lots[l].cost \in Nat /\ lots[l] \in LotRow
  BY <1>2, <1>3, LotColumns DEF LotTable
<1>8. /\ DOMAIN lots' = DOMAIN lots
      /\ \A l \in DOMAIN lots :
           lots'[l] = IF l \in DOMAIN txn[c].plan THEN Written(c, l) ELSE lots[l]
  BY <1>1, CommittedRows
<1>9. /\ DOMAIN txn[c].plan = Dirty(plan) /\ \A l \in Dirty(plan) : txn[c].plan[l] = plan[l]
      /\ \A l \in OpenLots(lots) : l \in Dirty(plan) <=> plan[l] # lots[l]
      /\ Dirty(plan) \subseteq OpenLots(lots)
  BY <1>5, <1>6 DEF Dirty
<1> HIDE DEF plan, s
<1>10. ASSUME NEW l \in DOMAIN lots
       PROVE  /\ lots'[l] \in LotRow
              /\ lots'[l].exhausted <=> lots[l].exhausted
              /\ lots[l].exhausted => lots'[l] = lots[l]
              /\ ~ lots[l].exhausted =>
                   /\ lots'[l].original = lots[l].original * s
                   /\ lots'[l].remaining = lots[l].remaining * s
                   /\ lots'[l].cost * s = lots[l].cost
  <2>1. CASE lots[l].exhausted
    <3>1. lots'[l] = lots[l]
      BY <1>8, <1>9, <2>1 DEF OpenLots
    <3> QED BY <1>7, <2>1, <3>1
  <2>2. CASE ~ lots[l].exhausted
    <3>1. /\ l \in OpenLots(lots) /\ plan[l] = Split(lots[l], s) /\ lots[l].cost % s = 0
          /\ lots[l].cost \in Nat
      BY <1>3, <1>6, <1>7, <2>2 DEF OpenLots, ExactSplit
    <3>2. (lots[l].cost \div s) * s = lots[l].cost
      BY <1>2, <3>1
    <3>3. CASE l \in Dirty(plan)
      <4>1. lots'[l] = Written(c, l) /\ txn[c].plan[l] = plan[l] /\ l \in DOMAIN txn[c].plan
        BY <1>8, <1>9, <3>3
      <4>2. /\ lots'[l].original = lots[l].original * s /\ lots'[l].remaining = lots[l].remaining * s
            /\ lots'[l].cost = lots[l].cost \div s /\ (lots'[l].exhausted <=> lots[l].exhausted)
        <5>1. /\ lots'[l].original = plan[l].original /\ lots'[l].remaining = plan[l].remaining
              /\ lots'[l].cost = plan[l].cost
          BY <4>1 DEF Written
        <5>2. lots'[l].exhausted <=> lots[l].exhausted
          BY <4>1, WrittenFlag
        <5>3. /\ plan[l].original = lots[l].original * s /\ plan[l].remaining = lots[l].remaining * s
              /\ plan[l].cost = lots[l].cost \div s
          BY <3>1 DEF Split
        <5> QED BY <5>1, <5>2, <5>3
      <4>3. lots'[l] \in LotRow
        BY <1>2, <4>1, WrittenRow
      <4> QED BY <2>2, <3>2, <4>2, <4>3
    <3>4. CASE l \notin Dirty(plan)
      <4>1. plan[l] = lots[l] /\ lots'[l] = lots[l]
        BY <1>8, <1>9, <3>1, <3>4
      <4>2. /\ lots[l].original = lots[l].original * s /\ lots[l].remaining = lots[l].remaining * s
            /\ lots[l].cost = lots[l].cost \div s
        BY <3>1, <4>1 DEF Split
      <4> QED BY <1>7, <2>2, <3>2, <4>1, <4>2
    <3> QED BY <3>3, <3>4
  <2> QED BY <2>1, <2>2
<1>11. SplitInto(lots, lots', s)
  BY <1>8, <1>10 DEF SplitInto
<1>12. /\ LotsInOrder(lots')
       /\ Available(Queue(lots'), lotSeq) = Available(Queue(lots), lotSeq) * s
       /\ RunningSum(Basis(lots'))[lotSeq] = RunningSum(Basis(lots))[lotSeq]
  <2> DEFINE after == lots'
  <2>1. SplitInto(lots, after, s)
    BY <1>11
  <2> HIDE DEF after
  <2>2. /\ LotsInOrder(after)
        /\ Available(Queue(after), lotSeq) = Available(Queue(lots), lotSeq) * s
        /\ RunningSum(Basis(after))[lotSeq] = RunningSum(Basis(lots))[lotSeq]
    BY <1>2, <1>3, <2>1, SplitLeaves
  <2> QED BY <2>2 DEF after
<1>13. /\ SharesIn(lots)' = SharesIn(lots) * s /\ CostIn(lots)' = CostIn(lots)
       /\ SharesIn(lots) \in Nat /\ CostIn(lots) \in Nat
  <2>1. /\ SharesIn(lots)' = Available(Queue(lots'), lotSeq)
        /\ CostIn(lots)' = RunningSum(Basis(lots'))[lotSeq]
    BY <1>1 DEF SharesIn, CostIn, Basis
  <2>2. /\ SharesIn(lots) = Available(Queue(lots), lotSeq)
        /\ CostIn(lots) = RunningSum(Basis(lots))[lotSeq]
        /\ SharesIn(lots) \in Nat /\ CostIn(lots) \in Nat
    BY <1>2, SerialTotals
  <2> QED BY <1>12, <2>1, <2>2
<1>14. /\ position'.quantity = position.quantity * s
       /\ position'.total_cost = position.total_cost
       /\ position'.realized_pnl = position.realized_pnl
       /\ position'.is_closed = position.is_closed
  BY <1>1, <1>4 DEF Multiplied, s
<1>15. /\ history'.cash = history.cash /\ (history.resold => history'.resold)
       /\ history'.overlapped = history.overlapped
  BY <1>1 DEF Booked
<1>16. \A d \in Connection : pc'[d] = "idle"
  <2>1. pc'[c] = "idle" /\ \A d \in Connection : d # c => pc'[d] = pc[d]
    BY <1>1, <1>2, EndedSound DEF Visible
  <2> QED BY <1>3, <2>1
<1>17. position'.is_closed <=> position'.quantity = 0
  <2>1. SharesIn(lots) * s = 0 <=> SharesIn(lots) = 0
    BY <1>2, <1>13
  <2> QED BY <1>3, <1>14, <2>1
<1> QED BY <1>3, <1>12, <1>13, <1>14, <1>15, <1>16, <1>17 DEF SerialInv, LotsInOrder

(* A trade at work stays in line with the lots while nothing changes but   *)
(* the rows it writes, and those it writes as planned.                     *)
LEMMA ProgressStands ==
  ASSUME lots' = lots, lotSeq' = lotSeq, NEW d \in Connection, InProgress(d),
         \A f \in {"action", "qty", "unit", "plan", "charge", "gain"} : txn'[d][f] = txn[d][f],
         txn[d].action = "BUY" => txn'[d] = txn[d],
         txn[d].action # "BUY" => \A l \in DOMAIN txn'[d].wrote : txn'[d].wrote[l] = Written(d, l)
  PROVE  InProgress(d)'
<1>1. /\ txn'[d].action = txn[d].action /\ txn'[d].qty = txn[d].qty /\ txn'[d].unit = txn[d].unit
      /\ txn'[d].plan = txn[d].plan /\ txn'[d].charge = txn[d].charge /\ txn'[d].gain = txn[d].gain
  OBVIOUS
<1>2. \A l : Written(d, l)' = Written(d, l)
  BY <1>1 DEF Written
<1>3. /\ Sale(txn[d].qty, txn[d].unit)' = Sale(txn[d].qty, txn[d].unit)
      /\ Enough(txn[d].qty)' = Enough(txn[d].qty)
  BY <1>1 DEF Sale, SalePlan, Dirty, CostConsumed, Enough, SharesIn
<1>4. /\ Splitting(txn[d].qty)' = Splitting(txn[d].qty)
      /\ ExactSplit(txn[d].qty)' = ExactSplit(txn[d].qty)
  BY <1>1 DEF Splitting, SplitPlan, ExactSplit, Dirty
<1>5. Purchase(lotSeq, txn[d].qty, txn[d].unit)' = Purchase(lotSeq, txn[d].qty, txn[d].unit)
  BY <1>1 DEF Purchase
<1> QED BY <1>1, <1>2, <1>3, <1>4, <1>5 DEF InProgress

LEMMA BeginBuyKeepsBooks ==
  ASSUME JournalTypes, SerialInv, NEW c \in Connection, NEW qty \in Qty, NEW unit \in Unit,
         BeginBuy(c, qty, unit)
  PROVE  SerialInv'
<1>1. /\ Begin(c, "commit", Purchase(lotSeq + 1, qty, unit)) /\ lotSeq' = lotSeq + 1
  BY DEF BeginBuy
<1>2. txn'[c] = Purchase(lotSeq', qty, unit) /\ lots' = lots
  BY <1>1, BeginsOne
<1>3. txn'[c].action = "BUY" /\ txn'[c].qty = qty /\ txn'[c].unit = unit
  BY <1>2 DEF Purchase
<1>4. lotSeq' \notin DOMAIN lots
  BY <1>1, SomeTypes DEF LotTable
<1>5. InProgress(c)'
  BY <1>2, <1>3, <1>4 DEF InProgress
<1> QED BY <1>1, <1>5, BeginKeepsBooks

LEMMA BeginSellKeepsBooks ==
  ASSUME JournalTypes, SerialInv, NEW c \in Connection, NEW qty \in Qty, NEW unit \in Unit,
         BeginSell(c, qty, unit)
  PROVE  SerialInv'
<1>1. Begin(c, "lots", Sale(qty, unit)) /\ lotSeq' = lotSeq /\ Enough(qty)
  BY DEF BeginSell
<1>2. txn'[c] = Sale(qty, unit) /\ lots' = lots
  BY <1>1, BeginsOne
<1>3. /\ txn'[c].action = "SELL" /\ txn'[c].qty = qty /\ txn'[c].unit = unit
      /\ DOMAIN txn'[c].wrote = {}
  BY <1>2 DEF Sale
<1>4. Sale(qty, unit)' = Sale(qty, unit) /\ Enough(qty)' = Enough(qty)
  BY <1>1, <1>2, SameLotsSamePlans
<1>5. InProgress(c)'
  BY <1>1, <1>2, <1>3, <1>4 DEF InProgress
<1> QED BY <1>1, <1>5, BeginKeepsBooks

LEMMA BeginSplitKeepsBooks ==
  ASSUME JournalTypes, SerialInv, NEW c \in Connection, NEW ratio \in Ratio, BeginSplit(c, ratio)
  PROVE  SerialInv'
<1>1. Begin(c, "lots", Splitting(ratio)) /\ lotSeq' = lotSeq /\ ExactSplit(ratio)
  BY DEF BeginSplit
<1>2. txn'[c] = Splitting(ratio) /\ lots' = lots
  BY <1>1, BeginsOne
<1>3. txn'[c].action = "SPLIT" /\ txn'[c].qty = ratio /\ DOMAIN txn'[c].wrote = {}
  BY <1>2 DEF Splitting
<1>4. Splitting(ratio)' = Splitting(ratio) /\ ExactSplit(ratio)' = ExactSplit(ratio)
  BY <1>1, <1>2, SameLotsSamePlans
<1>5. InProgress(c)'
  BY <1>1, <1>2, <1>3, <1>4 DEF InProgress
<1> QED BY <1>1, <1>5, BeginKeepsBooks

LEMMA UpdateLotKeepsBooks ==
  ASSUME JournalTypes, SerialInv, NEW c \in Connection, UpdateLot(c)
  PROVE  SerialInv'
<1>1. /\ pc[c] = "lots" /\ pc' = pc /\ lots' = lots /\ lotSeq' = lotSeq
      /\ position' = position /\ history' = history
      /\ \A d \in Connection : d # c => txn'[d] = txn[d]
      /\ \A f \in Columns : f # "wrote" => txn'[c][f] = txn[c][f]
  BY WritesOne
<1>2. PICK l \in DOMAIN txn[c].plan : txn'[c].wrote = Put(txn[c].wrote, l, Written(c, l))
  BY WritesOne
<1>3. txn[c].action # "BUY"
  BY <1>1 DEF JournalTypes, TxnSound
<1>4. ASSUME ~ history.overlapped, NEW d \in Connection, pc'[d] # "idle" PROVE InProgress(d)'
  <2>1. InProgress(d)
    BY <1>1, <1>4 DEF SerialInv
  <2>2. CASE d # c
    <3>1. \A m \in DOMAIN txn'[d].wrote :
            txn[d].action # "BUY" => txn'[d].wrote[m] = Written(d, m)
      BY <1>1, <2>1, <2>2 DEF InProgress
    <3> QED BY <1>1, <2>1, <2>2, <3>1, ProgressStands
  <2>3. CASE d = c
    <3>1. \A m \in DOMAIN txn[c].wrote : txn[c].wrote[m] = Written(c, m)
      BY <1>3, <2>1, <2>3 DEF InProgress
    <3>2. \A m \in DOMAIN txn'[c].wrote : txn'[c].wrote[m] = Written(c, m)
      BY <1>2, <3>1 DEF Put
    <3>3. \A f \in {"action", "qty", "unit", "plan", "charge", "gain"} : txn'[c][f] = txn[c][f]
      BY <1>1 DEF Columns
    <3> QED BY <1>1, <1>3, <2>1, <2>3, <3>2, <3>3, ProgressStands
  <2> QED BY <2>2, <2>3
<1> QED BY <1>1, <1>4, QuietStepKeepsBooks

LEMMA SerialStep == JournalInv /\ JournalTypes' /\ [JournalNext]_journalVars => SerialInv'
<1> SUFFICES ASSUME JournalInv, JournalTypes', [JournalNext]_journalVars PROVE SerialInv'
  OBVIOUS
<1> USE DEF JournalInv
<1>1. ASSUME NEW c \in Connection, NEW qty \in Qty, RefuseSell(c, qty) PROVE SerialInv'
  <2>1. /\ lots' = lots /\ position' = position /\ lotSeq' = lotSeq /\ pc' = pc /\ txn' = txn
        /\ history' = Meets("SELL")
    BY <1>1 DEF RefuseSell
  <2>2. /\ history'.cash = history.cash /\ history'.resold = history.resold
        /\ ~ history'.overlapped => ~ history.overlapped
    BY <2>1, Meeting
  <2>3. ASSUME ~ history.overlapped, NEW d \in Connection, pc'[d] # "idle" PROVE InProgress(d)'
    <3>1. InProgress(d)
      BY <2>1, <2>3 DEF SerialInv
    <3>2. txn[d].action # "BUY" => \A l \in DOMAIN txn'[d].wrote : txn'[d].wrote[l] = Written(d, l)
      BY <2>1, <3>1 DEF InProgress
    <3> QED BY <2>1, <3>1, <3>2, ProgressStands
  <2> QED BY <2>1, <2>2, <2>3, QuietStepKeepsBooks
<1>2. ASSUME NEW c \in Connection, LotsWritten(c) PROVE SerialInv'
  <2>1. /\ pc[c] = "lots" /\ pc'[c] = "commit" /\ lots' = lots /\ lotSeq' = lotSeq
        /\ position' = position /\ history' = history
        /\ \A d \in Connection : d # c => txn'[d] = txn[d] /\ pc'[d] = pc[d]
        /\ \A f \in Columns : f # "seen" => txn'[c][f] = txn[c][f]
        /\ txn[c].action \in {"SELL", "SPLIT"}
    BY <1>2, GoesToCommit
  <2>2. \A d \in Connection : /\ pc'[d] # "idle" => pc[d] # "idle"
                              /\ \A f \in Columns : f # "seen" => txn'[d][f] = txn[d][f]
                              /\ txn[d].action = "BUY" => txn'[d] = txn[d]
    BY <2>1
  <2>3. ASSUME ~ history.overlapped, NEW d \in Connection, pc'[d] # "idle" PROVE InProgress(d)'
    <3>1. InProgress(d)
      BY <2>2, <2>3 DEF SerialInv
    <3>2. txn'[d].wrote = txn[d].wrote
      BY <2>2 DEF Columns
    <3>3. txn[d].action # "BUY" => \A l \in DOMAIN txn'[d].wrote : txn'[d].wrote[l] = Written(d, l)
      BY <3>1, <3>2 DEF InProgress
    <3>4. \A f \in {"action", "qty", "unit", "plan", "charge", "gain"} : txn'[d][f] = txn[d][f]
      BY <2>2 DEF Columns
    <3> QED BY <2>1, <2>2, <3>1, <3>3, <3>4, ProgressStands
  <2> QED BY <2>1, <2>2, <2>3, QuietStepKeepsBooks
<1>3. ASSUME NEW c \in Connection, Commit(c) PROVE SerialInv'
  <2>1. history'.overlapped = history.overlapped
    BY <1>3 DEF Commit, Booked
  <2>2. CASE history.overlapped
    BY <2>1, <2>2 DEF SerialInv
  <2>3. CASE ~ history.overlapped
    <3>1. txn[c].action \in {"BUY", "SELL", "SPLIT"}
      BY <1>3 DEF Commit, JournalTypes, TxnSound
    <3> QED BY <1>3, <2>3, <3>1, CommitBuyKeepsBooks, CommitSellKeepsBooks, CommitSplitKeepsBooks
  <2> QED BY <2>2, <2>3
<1>4. ASSUME NEW c \in Connection, Lose(c) PROVE SerialInv'
  <2>1. /\ lots' = lots /\ position' = position /\ history' = history /\ Ends(c) /\ lotSeq' = lotSeq
    BY <1>4 DEF Lose, Ends
  <2>2. pc'[c] = "idle" /\ \A d \in Connection : d # c => txn'[d] = txn[d] /\ pc'[d] = pc[d]
    BY <2>1, EndedSound
  <2>3. ASSUME ~ history.overlapped, NEW d \in Connection, pc'[d] # "idle" PROVE InProgress(d)'
    <3>1. InProgress(d) /\ txn'[d] = txn[d]
      BY <2>2, <2>3 DEF SerialInv
    <3>2. txn[d].action # "BUY" => \A l \in DOMAIN txn'[d].wrote : txn'[d].wrote[l] = Written(d, l)
      BY <3>1 DEF InProgress
    <3> QED BY <2>1, <3>1, <3>2, ProgressStands
  <2> QED BY <2>1, <2>2, <2>3, QuietStepKeepsBooks
<1>5. CASE UNCHANGED journalVars
  <2>1. /\ lots' = lots /\ position' = position /\ lotSeq' = lotSeq /\ pc' = pc /\ txn' = txn
        /\ history' = history
    BY <1>5 DEF journalVars
  <2>3. ASSUME ~ history.overlapped, NEW d \in Connection, pc'[d] # "idle" PROVE InProgress(d)'
    <3>1. InProgress(d)
      BY <2>1, <2>3 DEF SerialInv
    <3>2. txn[d].action # "BUY" => \A l \in DOMAIN txn'[d].wrote : txn'[d].wrote[l] = Written(d, l)
      BY <2>1, <3>1 DEF InProgress
    <3> QED BY <2>1, <3>1, <3>2, ProgressStands
  <2> QED BY <2>1, <2>3, QuietStepKeepsBooks
<1> QED
  BY <1>1, <1>2, <1>3, <1>4, <1>5, BeginBuyKeepsBooks, BeginSellKeepsBooks, BeginSplitKeepsBooks,
     UpdateLotKeepsBooks DEF JournalNext

(* The journal keeps JournalInv, for any quantities, prices and ratios,    *)
(* any number of connections and of trades.                                *)
THEOREM JournalInvariant == JournalSpec => []JournalInv
<1>1. InitJournal => JournalInv
  BY InitTypes DEF JournalInv
<1>2. JournalInv /\ [JournalNext]_journalVars => JournalInv'
  <2> SUFFICES ASSUME JournalInv, [JournalNext]_journalVars PROVE JournalInv'
    OBVIOUS
  <2>1. JournalTypes'
    BY TypesStep DEF JournalInv
  <2>2. QuantityInv' /\ SerialInv'
    BY <2>1, QuantityStep, SerialStep DEF JournalInv
  <2> QED BY <2>1, <2>2 DEF JournalInv
<1> QED BY <1>1, <1>2, PTL DEF JournalSpec

(* A journal position's quantity is what the committed trades add up to,   *)
(* unless a split met another trade.                                       *)
THEOREM JournalQuantityFollowsLog == JournalSpec => []QuantityFollowsLog
<1>1. JournalInv => QuantityFollowsLog
  BY DEF JournalInv, QuantityInv, QuantityFollowsLog
<1> QED BY <1>1, JournalInvariant, PTL

(* Journal trades that never overlapped keep the quantity, the lots, the   *)
(* flags and the realised money together.                                  *)
THEOREM JournalSerialTradesAgree == JournalSpec => []SerialTradesAgree
<1>1. JournalInv => SerialTradesAgree
  BY DEF JournalInv, SerialInv, LotsInOrder, SerialTradesAgree
<1> QED BY <1>1, JournalInvariant, PTL

(* While no journal lot was sold from twice and no trades overlapped, the  *)
(* position's total cost is what its open lots cost.                       *)
THEOREM JournalFirstSalesKeepCost == JournalSpec => []FirstSalesKeepCost
<1>1. JournalInv => FirstSalesKeepCost
  BY DEF JournalInv, SerialInv, FirstSalesKeepCost, CostOfLots
<1> QED BY <1>1, JournalInvariant, PTL
================================================================================
