------------------------- MODULE PortfolioLedgerProofs -------------------------
(***************************************************************************)
(* The ledger keeps its books, recording, with dividends and through       *)
(* edits, for every set of accounts, symbols, dates, quantities and prices.*)
(*                                                                         *)
(* LedgerInv is the inductive invariant: the types, the roll-up of every   *)
(* position, and a balance for every key, whether it has a position or     *)
(* not, of what its open lots cost against what was paid and realised.     *)
(* QuotaInv adds the quotas, and that the positions are finitely many.     *)
(* ChainInv relates the lots to the BUYs of the log, place by place.       *)
(* BookInv carries types and roll-ups past the dividends, and under it     *)
(* every step is a step of the queues of single shares (ShareQueue).       *)
(* ReplayInv says that the lots are those of the log whatever was edited;  *)
(* Doing is what every round of a replay keeps, and DoneBooks, which it    *)
(* implies at the last round, what an accepted edit leaves.                *)
(* The report on the log is one loop, drained twice.  Counted says after   *)
(* every round what every BUY, taker and pair of them has given and taken, *)
(* Placed and Pair where in the two queues of a form the loop stands; on   *)
(* LedgerInv and ChainInv the form ends with every SELL paired, and what   *)
(* it leaves of the BUYs is what the open lots hold.                       *)
(***************************************************************************)
EXTENDS LedgerShares, LedgerReplay, TaxReport, FifoEngineProofs, SequenceTheorems

--------------------------------------------------------------------------------
(* Tables. *)

LotTable(table, last) ==
  /\ DOMAIN table \subseteq 1..last
  /\ table \in [DOMAIN table -> LotRow]

(* The columns of a table of lots are natural.                             *)
LEMMA LotColumns ==
  ASSUME NEW table, NEW last \in Nat, LotTable(table, last), NEW k
  PROVE  /\ Queue(table, k) \in [Nat -> Nat]
         /\ UnitCost(table, k) \in [Nat -> Nat]
         /\ Basis(table, k) \in [Nat -> Nat]
         /\ \A l \in Nat : l \notin DOMAIN table =>
              Queue(table, k)[l] = 0 /\ UnitCost(table, k)[l] = 0 /\ Basis(table, k)[l] = 0
<1>1. \A l \in OpenLots(table, k) : table[l].remaining \in Nat /\ table[l].cost \in Nat
  BY DEF LotTable, LotRow, OpenLots
<1>2. \A l \in Nat : l \notin DOMAIN table => l \notin OpenLots(table, k)
  BY DEF OpenLots
<1>3. Queue(table, k) \in [Nat -> Nat] /\ UnitCost(table, k) \in [Nat -> Nat]
  BY <1>1 DEF Queue, UnitCost
<1>4. \A l \in Nat : l \notin DOMAIN table => Queue(table, k)[l] = 0 /\ UnitCost(table, k)[l] = 0
  BY <1>2 DEF Queue, UnitCost
<1>5. \A l \in Nat : /\ Queue(table, k)[l] * UnitCost(table, k)[l] \in Nat
                     /\ Basis(table, k)[l] = Queue(table, k)[l] * UnitCost(table, k)[l]
  BY <1>3 DEF Basis
<1>6. Basis(table, k) \in [Nat -> Nat]
  BY <1>5 DEF Basis
<1> QED BY <1>3, <1>4, <1>5, <1>6

(* Two tables that agree on the open lots of k have the same columns.      *)
LEMMA SameColumns ==
  ASSUME NEW one, NEW two, NEW k, OpenLots(one, k) = OpenLots(two, k),
         \A l \in OpenLots(one, k) : one[l] = two[l]
  PROVE  /\ Queue(one, k) = Queue(two, k)
         /\ UnitCost(one, k) = UnitCost(two, k)
         /\ Basis(one, k) = Basis(two, k)
<1>1. Queue(one, k) = Queue(two, k)
  BY DEF Queue
<1>2. UnitCost(one, k) = UnitCost(two, k)
  BY DEF UnitCost
<1> QED BY <1>1, <1>2 DEF Basis

(* A roll-up is a well-typed position.                                     *)
LEMMA RollUpType ==
  ASSUME NEW table, NEW last \in Nat, LotTable(table, last), NEW k, NEW realized \in Int
  PROVE  /\ RollUp(table, k, last, realized) \in PositionRow
         /\ RollUp(table, k, last, realized).total_cost = RunningSum(Basis(table, k))[last]
         /\ RollUp(table, k, last, realized).realized_pnl = realized
<1>1. Queue(table, k) \in [Nat -> Nat] /\ Basis(table, k) \in [Nat -> Nat]
  BY LotColumns
<1>2. Available(Queue(table, k), last) \in Nat /\ RunningSum(Basis(table, k))[last] \in Nat
  BY <1>1, SumNatural DEF Available
<1>3. (Available(Queue(table, k), last) = 0) \in BOOLEAN
  OBVIOUS
<1> QED BY <1>2, <1>3 DEF RollUp, PositionRow

(* A sale that the check lets through: the lots keep their type, and the   *)
(* open lots of k lose in value exactly the cost of the sale.              *)
LEMMA SaleTakesCost ==
  ASSUME NEW table, NEW last \in Nat, LotTable(table, last), NEW k, NEW qty \in Nat
  PROVE  /\ LotTable(AfterSale(table, k, qty), last)
         /\ CostOfSale(Queue(table, k), UnitCost(table, k), qty, last) \in Nat
         /\ RunningSum(Basis(AfterSale(table, k, qty), k))[last]
              = RunningSum(Basis(table, k))[last]
                  - CostOfSale(Queue(table, k), UnitCost(table, k), qty, last)
<1> DEFINE taken == Consumed(Queue(table, k), qty)
<1> DEFINE after == AfterSale(table, k, qty)
<1> DEFINE value == [i \in Nat |-> taken[i] * UnitCost(table, k)[i]]
<1>1. /\ Queue(table, k) \in [Nat -> Nat] /\ UnitCost(table, k) \in [Nat -> Nat]
      /\ Basis(table, k) \in [Nat -> Nat]
  BY LotColumns
<1>2. taken \in [Nat -> Nat] /\ \A i \in Nat : taken[i] <= Queue(table, k)[i]
  BY <1>1, ConsumedBounds
<1>3. after = [l \in DOMAIN table |-> IF l \in OpenLots(table, k)
                 THEN LotLess(table[l], taken[l]) ELSE table[l]]
  BY DEF AfterSale
<1>4. CostOfSale(Queue(table, k), UnitCost(table, k), qty, last) = RunningSum(value)[last]
  BY DEF CostOfSale
<1> HIDE DEF taken
<1>5. ASSUME NEW l \in OpenLots(table, k)
      PROVE  /\ l \in DOMAIN table /\ l \in Nat /\ table[l] \in LotRow
             /\ Queue(table, k)[l] = table[l].remaining /\ UnitCost(table, k)[l] = table[l].cost
             /\ table[l].key = k
             /\ taken[l] \in Nat /\ taken[l] <= table[l].remaining
             /\ LotLess(table[l], taken[l]) \in LotRow
  <2>1. l \in DOMAIN table /\ l \in Nat /\ table[l] \in LotRow /\ table[l].key = k
    BY DEF LotTable, OpenLots
  <2>2. Queue(table, k)[l] = table[l].remaining /\ UnitCost(table, k)[l] = table[l].cost
    BY <2>1 DEF Queue, UnitCost
  <2>3. taken[l] \in Nat /\ taken[l] <= table[l].remaining /\ table[l].remaining \in Nat
    BY <1>2, <2>1, <2>2 DEF LotRow
  <2>4. (taken[l] > 0 /\ table[l].remaining = taken[l]) \in BOOLEAN /\ table[l].remaining - taken[l] \in Nat
    BY <2>3
  <2>5. LotLess(table[l], taken[l]) \in LotRow
    BY <2>1, <2>4 DEF LotLess, LotRow
  <2> QED BY <2>1, <2>2, <2>3, <2>5
<1> HIDE DEF after
<1>6. /\ DOMAIN after = DOMAIN table
      /\ \A l \in OpenLots(table, k) : after[l] = LotLess(table[l], taken[l])
      /\ \A l \in DOMAIN table : l \notin OpenLots(table, k) => after[l] = table[l]
      /\ \A l \in DOMAIN table : after[l] \in LotRow
  <2>1. \A l \in DOMAIN table : table[l] \in LotRow
    BY DEF LotTable
  <2>2. OpenLots(table, k) \subseteq DOMAIN table
    BY DEF OpenLots
  <2> QED BY <1>3, <1>5, <2>1, <2>2
<1>7. LotTable(after, last)
  <2>1. after \in [DOMAIN after -> LotRow]
    BY <1>3, <1>6
  <2> QED BY <1>6, <2>1 DEF LotTable
<1>8. value \in [Nat -> Nat]
  <2>1. \A i \in Nat : taken[i] * UnitCost(table, k)[i] \in Nat
    BY <1>1, <1>2
  <2> QED BY <2>1
<1>9. \A i \in Nat : value[i] = taken[i] * UnitCost(table, k)[i]
  OBVIOUS
<1> HIDE DEF value
<1>10. ASSUME NEW l \in Nat PROVE Basis(after, k)[l] = Basis(table, k)[l] - value[l]
  <2>1. /\ Basis(after, k)[l] = Queue(after, k)[l] * UnitCost(after, k)[l]
        /\ Basis(table, k)[l] = Queue(table, k)[l] * UnitCost(table, k)[l]
    BY DEF Basis
  <2>2. CASE l \in OpenLots(table, k)
    <3>1. after[l] = LotLess(table[l], taken[l]) /\ l \in DOMAIN after
      BY <1>5, <1>6, <2>2
    <3>2. /\ after[l].key = k /\ after[l].remaining = table[l].remaining - taken[l]
          /\ after[l].cost = table[l].cost
          /\ after[l].exhausted = (taken[l] > 0 /\ table[l].remaining = taken[l])
      BY <1>5, <2>2, <3>1 DEF LotLess
    <3>3. /\ table[l].remaining \in Nat /\ table[l].cost \in Nat /\ taken[l] \in Nat
      BY <1>5, <2>2 DEF LotRow
    <3>4. (table[l].remaining - taken[l]) * table[l].cost
            = table[l].remaining * table[l].cost - taken[l] * table[l].cost
      BY <3>3
    <3>5. CASE after[l].exhausted
      <4>1. l \notin OpenLots(after, k) /\ table[l].remaining = taken[l]
        BY <3>2, <3>5 DEF OpenLots
      <4>2. Basis(after, k)[l] = 0
        BY <2>1, <4>1 DEF Queue, UnitCost
      <4>3. Basis(table, k)[l] = taken[l] * table[l].cost /\ taken[l] * table[l].cost \in Nat
        BY <2>1, <2>2, <1>5, <3>3, <4>1
      <4>4. value[l] = taken[l] * table[l].cost
        BY <1>5, <1>9, <2>2
      <4> QED BY <4>2, <4>3, <4>4
    <3>6. CASE ~ after[l].exhausted
      <4>1. l \in OpenLots(after, k)
        BY <3>1, <3>2, <3>6 DEF OpenLots
      <4>2. Queue(after, k)[l] = table[l].remaining - taken[l] /\ UnitCost(after, k)[l] = table[l].cost
        BY <3>2, <4>1 DEF Queue, UnitCost
      <4>3. Basis(table, k)[l] = table[l].remaining * table[l].cost
            /\ value[l] = taken[l] * table[l].cost
        BY <1>5, <1>9, <2>1, <2>2
      <4> QED BY <2>1, <3>4, <4>2, <4>3
    <3> QED BY <3>5, <3>6
  <2>3. CASE l \notin OpenLots(table, k)
    <3>1. l \notin OpenLots(after, k)
      BY <1>6, <2>3 DEF OpenLots
    <3>2. /\ Queue(after, k)[l] = 0 /\ UnitCost(after, k)[l] = 0
          /\ Queue(table, k)[l] = 0 /\ UnitCost(table, k)[l] = 0
      BY <2>3, <3>1 DEF Queue, UnitCost
    <3>3. taken[l] = 0
      BY <1>2, <3>2
    <3> QED BY <2>1, <3>2, <3>3, <1>9
  <2> QED BY <2>2, <2>3
<1>11. Basis(after, k) \in [Nat -> Nat]
  BY <1>7, LotColumns
<1>12. /\ Basis(after, k) \in [Nat -> Int] /\ Basis(table, k) \in [Nat -> Int] /\ value \in [Nat -> Int]
  BY <1>1, <1>8, <1>11
<1>13. RunningSum(Basis(after, k))[last] = RunningSum(Basis(table, k))[last] - RunningSum(value)[last]
  BY <1>10, <1>12, SumDifference
<1>14. RunningSum(value)[last] \in Nat
  BY <1>8, SumNatural
<1> QED BY <1>4, <1>7, <1>13, <1>14 DEF after

(* What a sale of k, or a new lot of k, leaves alone: the open lots of any *)
(* other key, and so their roll-up and their value.                        *)
LEMMA OtherKeys ==
  ASSUME NEW one, NEW two, NEW n \in Nat, LotTable(one, n), NEW m \in {n, n + 1}, NEW j,
         OpenLots(one, j) = OpenLots(two, j), \A l \in OpenLots(one, j) : one[l] = two[l]
  PROVE  /\ \A r : RollUp(two, j, m, r) = RollUp(one, j, n, r)
         /\ RunningSum(Basis(two, j))[m] = RunningSum(Basis(one, j))[n]
<1>1. Queue(one, j) = Queue(two, j) /\ Basis(one, j) = Basis(two, j)
  BY SameColumns
<1>2. /\ Queue(one, j) \in [Nat -> Int] /\ Basis(one, j) \in [Nat -> Int]
      /\ Queue(one, j)[n + 1] = 0 /\ Basis(one, j)[n + 1] = 0
  <2>1. n + 1 \in Nat /\ n + 1 \notin DOMAIN one
    BY DEF LotTable
  <2>2. Queue(one, j) \in [Nat -> Nat] /\ Basis(one, j) \in [Nat -> Nat]
    BY LotColumns
  <2>3. Queue(one, j)[n + 1] = 0 /\ Basis(one, j)[n + 1] = 0
    BY <2>1, LotColumns
  <2> QED BY <2>2, <2>3
<1>3. RunningSum(Queue(one, j))[m] = RunningSum(Queue(one, j))[n]
  BY <1>2, TotalStays
<1>4. RunningSum(Basis(one, j))[m] = RunningSum(Basis(one, j))[n]
  BY <1>2, TotalStays
<1> QED BY <1>1, <1>3, <1>4 DEF RollUp, Available

(* A sale of k leaves the open lots of other keys alone.                   *)
LEMMA SaleKeepsOthers ==
  ASSUME NEW table, NEW k, NEW qty, NEW j, j # k
  PROVE  /\ OpenLots(table, j) = OpenLots(AfterSale(table, k, qty), j)
         /\ \A l \in OpenLots(table, j) : table[l] = AfterSale(table, k, qty)[l]
<1> DEFINE taken == Consumed(Queue(table, k), qty)
<1> DEFINE after == AfterSale(table, k, qty)
<1>1. after = [l \in DOMAIN table |-> IF l \in OpenLots(table, k)
                 THEN LotLess(table[l], taken[l]) ELSE table[l]]
  BY DEF AfterSale
<1> HIDE DEF after, taken
<1>2. \A l \in DOMAIN table : l \notin OpenLots(table, k) => after[l] = table[l]
  BY <1>1
<1>3. \A l \in OpenLots(table, k) : l \in DOMAIN table /\ table[l].key = k
  BY DEF OpenLots
<1>4. \A l \in OpenLots(table, k) : after[l].key = k
  BY <1>1, <1>3 DEF LotLess
<1>5. DOMAIN after = DOMAIN table
  BY <1>1
<1> QED BY <1>2, <1>3, <1>4, <1>5 DEF OpenLots, after

(* A new lot of k: the table keeps its type, the value of k grows by what  *)
(* the lot cost, and other keys do not notice.                             *)
LEMMA LotAdded ==
  ASSUME NEW table, NEW n \in Nat, LotTable(table, n), NEW k,
         NEW row \in LotRow, row.key = k, ~ row.exhausted
  PROVE  /\ LotTable(Put(table, n + 1, row), n + 1)
         /\ RunningSum(Basis(Put(table, n + 1, row), k))[n + 1]
              = RunningSum(Basis(table, k))[n] + row.remaining * row.cost
         /\ RunningSum(Basis(table, k))[n] \in Int
         /\ \A j : j # k => /\ OpenLots(table, j) = OpenLots(Put(table, n + 1, row), j)
                            /\ \A l \in OpenLots(table, j) : table[l] = Put(table, n + 1, row)[l]
<1> DEFINE more == Put(table, n + 1, row)
<1>1. table \in [DOMAIN table -> LotRow] /\ n + 1 \notin DOMAIN table
  BY DEF LotTable
<1>2. /\ more \in [DOMAIN more -> LotRow] /\ DOMAIN more = DOMAIN table \cup {n + 1}
      /\ more[n + 1] = row
      /\ \A x \in DOMAIN table : x # n + 1 => more[x] = table[x]
  BY <1>1 DEF Put
<1> HIDE DEF more
<1>3. LotTable(more, n + 1)
  <2>1. DOMAIN more \subseteq 1..(n + 1)
    BY <1>2 DEF LotTable
  <2> QED BY <1>2, <2>1 DEF LotTable
<1>4. OpenLots(more, k) = OpenLots(table, k) \cup {n + 1}
  BY <1>1, <1>2 DEF OpenLots
<1>5. \A j : j # k => /\ OpenLots(table, j) = OpenLots(more, j)
                     /\ \A l \in OpenLots(table, j) : table[l] = more[l]
  BY <1>1, <1>2 DEF OpenLots
<1>6. \A l \in OpenLots(table, k) : more[l] = table[l]
  BY <1>1, <1>2 DEF OpenLots
<1>7. n + 1 \in Nat
  OBVIOUS
<1>8. Basis(more, k)[n + 1] = row.remaining * row.cost
  <2>1. Queue(more, k)[n + 1] = row.remaining /\ UnitCost(more, k)[n + 1] = row.cost
    BY <1>2, <1>4, <1>7 DEF Queue, UnitCost
  <2> QED BY <1>7, <2>1 DEF Basis
<1>9. \A i \in 1..n : Basis(table, k)[i] = Basis(more, k)[i]
  <2>1. SUFFICES ASSUME NEW i \in 1..n PROVE Basis(table, k)[i] = Basis(more, k)[i]
    OBVIOUS
  <2>2. i \in Nat /\ (i \in OpenLots(more, k) <=> i \in OpenLots(table, k))
    BY <1>4
  <2>3. Queue(table, k)[i] = Queue(more, k)[i] /\ UnitCost(table, k)[i] = UnitCost(more, k)[i]
    BY <1>6, <2>2 DEF Queue, UnitCost
  <2> QED BY <2>2, <2>3 DEF Basis
<1>10. Basis(table, k) \in [Nat -> Int] /\ Basis(more, k) \in [Nat -> Int]
  <2>1. Basis(table, k) \in [Nat -> Nat] /\ Basis(more, k) \in [Nat -> Nat]
    BY <1>3, <1>7, LotColumns
  <2> QED BY <2>1
<1>11. /\ RunningSum(Basis(more, k))[n + 1] = RunningSum(Basis(table, k))[n] + Basis(more, k)[n + 1]
       /\ RunningSum(Basis(table, k))[n] \in Int
  BY <1>9, <1>10, TotalGrows
<1> QED BY <1>3, <1>5, <1>8, <1>11 DEF more

--------------------------------------------------------------------------------
(* The cash column of a log. *)

LogTable(log, last) ==
  /\ DOMAIN log \subseteq 1..last
  /\ log \in [DOMAIN log -> TradeRow]

Cash(row) == IF row.action = "BUY" THEN row.qty * row.unit ELSE -(row.qty * row.unit)

CashOf(log, k) ==
  [t \in Nat |-> IF t \in DOMAIN log /\ log[t].key = k THEN Cash(log[t]) ELSE 0]

(* The cash of a trade is an integer.                                      *)
LEMMA CashType ==
  ASSUME NEW row \in TradeRow
  PROVE  Cash(row) \in Int
<1>1. row.qty \in Nat /\ row.unit \in Nat
  BY LedgerAssumption DEF TradeRow
<1> QED BY <1>1 DEF Cash

(* Nothing is beyond the last id.                                          *)
LEMMA CashColumnType ==
  ASSUME NEW log, NEW n \in Nat, LogTable(log, n), NEW k
  PROVE  CashOf(log, k) \in [Nat -> Int] /\ CashOf(log, k)[n + 1] = 0
<1>1. \A t \in DOMAIN log : Cash(log[t]) \in Int
  BY CashType DEF LogTable
<1>2. n + 1 \in Nat /\ n + 1 \notin DOMAIN log
  BY DEF LogTable
<1> QED BY <1>1, <1>2 DEF CashOf

(* One more trade in the log adds its cash to its own key only.            *)
LEMMA CashGrows ==
  ASSUME NEW log, NEW n \in Nat, LogTable(log, n), NEW row \in TradeRow
  PROVE  /\ LogTable(Put(log, n + 1, row), n + 1)
         /\ \A j : /\ RunningSum(CashOf(log, j))[n] \in Int
                   /\ RunningSum(CashOf(Put(log, n + 1, row), j))[n + 1]
                        = RunningSum(CashOf(log, j))[n] + (IF row.key = j THEN Cash(row) ELSE 0)
<1> DEFINE more == Put(log, n + 1, row)
<1>1. log \in [DOMAIN log -> TradeRow] /\ n + 1 \notin DOMAIN log /\ n + 1 \in Nat
  BY DEF LogTable
<1>2. /\ more \in [DOMAIN more -> TradeRow] /\ DOMAIN more = DOMAIN log \cup {n + 1}
      /\ more[n + 1] = row
      /\ \A x \in DOMAIN log : x # n + 1 => more[x] = log[x]
  BY <1>1 DEF Put
<1> HIDE DEF more
<1>3. LogTable(more, n + 1)
  <2>1. DOMAIN more \subseteq 1..(n + 1)
    BY <1>2 DEF LogTable
  <2> QED BY <1>2, <2>1 DEF LogTable
<1>4. ASSUME NEW j
      PROVE  /\ RunningSum(CashOf(log, j))[n] \in Int
             /\ RunningSum(CashOf(more, j))[n + 1]
                  = RunningSum(CashOf(log, j))[n] + (IF row.key = j THEN Cash(row) ELSE 0)
  <2>1. CashOf(log, j) \in [Nat -> Int] /\ CashOf(more, j) \in [Nat -> Int]
    BY <1>1, <1>3, CashColumnType
  <2>2. CashOf(more, j)[n + 1] = IF row.key = j THEN Cash(row) ELSE 0
    BY <1>1, <1>2 DEF CashOf
  <2>3. \A i \in 1..n : CashOf(log, j)[i] = CashOf(more, j)[i]
    BY <1>2 DEF CashOf
  <2> QED BY <2>1, <2>2, <2>3, TotalGrows
<1> QED BY <1>3, <1>4 DEF more

--------------------------------------------------------------------------------
(* The inductive invariant. *)

(* What the open lots of k cost is what was paid for k and not realised.   *)
Balanced(k) ==
  RunningSum(Basis(lots, k))[lotSeq] - PriorRealized(k) = RunningSum(CashOf(trades, k))[tradeSeq]

LedgerInv == TypeOK /\ PositionsRollUpLots /\ \A k \in Key : Balanced(k)

(* A transaction on k that leaves the log and the lots well-typed and      *)
(* other keys alone, and rolls k up, keeps types and roll-ups.             *)
LEMMA UpsertRolls ==
  ASSUME TypeOK, PositionsRollUpLots, NEW k \in Key, NEW realized \in Int,
         tradeSeq' \in Nat, LogTable(trades', tradeSeq'),
         lotSeq' \in Nat, LotTable(lots', lotSeq'),
         positions' = Put(positions, k, RollUp(lots', k, lotSeq', realized)),
         \A j \in Key : j # k =>
           /\ \A r : RollUp(lots', j, lotSeq', r) = RollUp(lots, j, lotSeq, r)
           /\ OpenLots(lots, j) = OpenLots(lots', j)
  PROVE  /\ TypeOK' /\ PositionsRollUpLots'
         /\ k \in DOMAIN positions' /\ positions'[k].realized_pnl = realized
         /\ \A j : j # k => /\ j \in DOMAIN positions' <=> j \in DOMAIN positions
                            /\ j \in DOMAIN positions => positions'[j] = positions[j]
<1> DEFINE row == RollUp(lots', k, lotSeq', realized)
<1>1. row \in PositionRow /\ row.realized_pnl = realized
  BY RollUpType
<1> HIDE DEF row
<1>2. positions' = Put(positions, k, row)
  BY DEF row
<1>3. DOMAIN positions \subseteq Key /\ positions \in [DOMAIN positions -> PositionRow]
  BY DEF TypeOK
<1>4. /\ DOMAIN positions' = DOMAIN positions \cup {k}
      /\ positions' \in [DOMAIN positions' -> PositionRow]
      /\ positions'[k] = row
      /\ \A j \in DOMAIN positions : j # k => positions'[j] = positions[j]
  BY <1>1, <1>2, <1>3 DEF Put
<1>5. TypeOK'
  <2>1. DOMAIN positions' \subseteq Key
    BY <1>3, <1>4
  <2> QED BY <1>4, <2>1 DEF TypeOK, LotTable, LogTable
<1>6. PositionsRollUpLots'
  <2>1. SUFFICES ASSUME NEW j \in Key
                 PROVE  IF j \in DOMAIN positions'
                        THEN positions'[j] = RollUp(lots', j, lotSeq', positions'[j].realized_pnl)
                        ELSE OpenLots(lots', j) = {}
    BY DEF PositionsRollUpLots
  <2>2. CASE j = k
    BY <1>1, <1>4, <2>2 DEF row
  <2>3. CASE j # k
    <3>1. IF j \in DOMAIN positions
          THEN positions[j] = RollUp(lots, j, lotSeq, positions[j].realized_pnl)
          ELSE OpenLots(lots, j) = {}
      BY DEF PositionsRollUpLots
    <3>2. CASE j \in DOMAIN positions
      <4>1. positions'[j] = positions[j] /\ j \in DOMAIN positions'
        BY <1>4, <2>3, <3>2
      <4>2. RollUp(lots', j, lotSeq', positions[j].realized_pnl)
              = RollUp(lots, j, lotSeq, positions[j].realized_pnl)
        BY <2>3
      <4> QED BY <3>1, <3>2, <4>1, <4>2
    <3>3. CASE j \notin DOMAIN positions
      <4>1. j \notin DOMAIN positions'
        BY <1>4, <2>3, <3>3
      <4> QED BY <2>3, <3>1, <3>3, <4>1
    <3> QED BY <3>2, <3>3
  <2> QED BY <2>2, <2>3
<1>7. \A j : j # k => /\ j \in DOMAIN positions' <=> j \in DOMAIN positions
                      /\ j \in DOMAIN positions => positions'[j] = positions[j]
  BY <1>4
<1> QED BY <1>1, <1>4, <1>5, <1>6, <1>7

(* If it leaves k in balance as well, it keeps the invariant.              *)
LEMMA UpsertKeeps ==
  ASSUME LedgerInv, NEW k \in Key, NEW realized \in Int,
         tradeSeq' \in Nat, LogTable(trades', tradeSeq'),
         lotSeq' \in Nat, LotTable(lots', lotSeq'),
         positions' = Put(positions, k, RollUp(lots', k, lotSeq', realized)),
         \A j \in Key : j # k =>
           /\ \A r : RollUp(lots', j, lotSeq', r) = RollUp(lots, j, lotSeq, r)
           /\ RunningSum(Basis(lots', j))[lotSeq'] = RunningSum(Basis(lots, j))[lotSeq]
           /\ OpenLots(lots, j) = OpenLots(lots', j)
           /\ RunningSum(CashOf(trades', j))[tradeSeq'] = RunningSum(CashOf(trades, j))[tradeSeq],
         RunningSum(Basis(lots', k))[lotSeq'] - realized = RunningSum(CashOf(trades', k))[tradeSeq']
  PROVE  LedgerInv'
<1>1. /\ TypeOK' /\ PositionsRollUpLots'
      /\ k \in DOMAIN positions' /\ positions'[k].realized_pnl = realized
      /\ \A j : j # k => /\ j \in DOMAIN positions' <=> j \in DOMAIN positions
                         /\ j \in DOMAIN positions => positions'[j] = positions[j]
  <2>1. TypeOK /\ PositionsRollUpLots
    BY DEF LedgerInv
  <2>2. \A j \in Key : j # k =>
           /\ \A r : RollUp(lots', j, lotSeq', r) = RollUp(lots, j, lotSeq, r)
           /\ OpenLots(lots, j) = OpenLots(lots', j)
    OBVIOUS
  <2> QED BY <2>1, <2>2, UpsertRolls
<1>2. \A j \in Key : Balanced(j)'
  <2>1. SUFFICES ASSUME NEW j \in Key
                 PROVE  RunningSum(Basis(lots', j))[lotSeq']
                          - (IF j \in DOMAIN positions' THEN positions'[j].realized_pnl ELSE 0)
                          = RunningSum(CashOf(trades', j))[tradeSeq']
    BY DEF Balanced, PriorRealized
  <2>2. CASE j = k
    BY <1>1, <2>2
  <2>3. CASE j # k
    <3>1. (IF j \in DOMAIN positions' THEN positions'[j].realized_pnl ELSE 0) = PriorRealized(j)
      BY <1>1, <2>3 DEF PriorRealized
    <3>2. Balanced(j)
      BY DEF LedgerInv
    <3> QED BY <2>3, <3>1, <3>2 DEF Balanced
  <2> QED BY <2>2, <2>3
<1> QED BY <1>1, <1>2 DEF LedgerInv

(* The realised total of a key is an integer.                              *)
LEMMA PriorType ==
  ASSUME TypeOK, NEW k \in Key
  PROVE  PriorRealized(k) \in Int
BY DEF TypeOK, PositionRow, PriorRealized

(* What a BUY does: the lot it inserts is worth what it paid.              *)
LEMMA BuyEffects ==
  ASSUME TypeOK, NEW k \in Key, NEW date \in Date, NEW qty \in Qty, NEW unit \in Unit,
         RecordBuy(k, date, qty, unit)
  PROVE  /\ positions' = Put(positions, k, RollUp(lots', k, lotSeq', PriorRealized(k)))
         /\ PriorRealized(k) \in Int /\ qty * unit \in Int
         /\ tradeSeq' \in Nat /\ LogTable(trades', tradeSeq')
         /\ lotSeq' \in Nat /\ LotTable(lots', lotSeq')
         /\ \A j \in Key : j # k =>
              /\ \A r : RollUp(lots', j, lotSeq', r) = RollUp(lots, j, lotSeq, r)
              /\ RunningSum(Basis(lots', j))[lotSeq'] = RunningSum(Basis(lots, j))[lotSeq]
              /\ OpenLots(lots, j) = OpenLots(lots', j)
              /\ RunningSum(CashOf(trades', j))[tradeSeq'] = RunningSum(CashOf(trades, j))[tradeSeq]
         /\ RunningSum(CashOf(trades, k))[tradeSeq] \in Int
         /\ RunningSum(Basis(lots, k))[lotSeq] \in Int
         /\ RunningSum(Basis(lots', k))[lotSeq'] = RunningSum(Basis(lots, k))[lotSeq] + qty * unit
         /\ RunningSum(CashOf(trades', k))[tradeSeq']
              = RunningSum(CashOf(trades, k))[tradeSeq] + qty * unit
<1> DEFINE row == Trade(k, "BUY", date, qty, unit)
<1> DEFINE lot == NewLot(tradeSeq + 1, k, qty, unit)
<1>1. /\ tradeSeq \in Nat /\ lotSeq \in Nat /\ LogTable(trades, tradeSeq) /\ LotTable(lots, lotSeq)
      /\ PriorRealized(k) \in Int
  BY PriorType DEF TypeOK, LogTable, LotTable
<1>2. /\ tradeSeq' = tradeSeq + 1 /\ lotSeq' = lotSeq + 1
      /\ trades' = Put(trades, tradeSeq + 1, row)
      /\ lots' = Put(lots, lotSeq + 1, lot)
      /\ positions' = Put(positions, k, RollUp(lots', k, lotSeq', PriorRealized(k)))
  BY DEF RecordBuy
<1>3. qty \in Nat /\ unit \in Nat
  BY LedgerAssumption
<1>4. row \in TradeRow /\ row.key = k /\ Cash(row) = qty * unit
  BY DEF Trade, TradeRow, Cash
<1>5. lot \in LotRow /\ lot.key = k /\ ~ lot.exhausted /\ lot.remaining = qty /\ lot.cost = unit
  BY <1>1, <1>3 DEF NewLot, LotRow
<1> HIDE DEF row, lot
<1>6. /\ LogTable(trades', tradeSeq')
      /\ \A j : /\ RunningSum(CashOf(trades, j))[tradeSeq] \in Int
                /\ RunningSum(CashOf(trades', j))[tradeSeq']
                     = RunningSum(CashOf(trades, j))[tradeSeq] + (IF row.key = j THEN Cash(row) ELSE 0)
  BY <1>1, <1>2, <1>4, CashGrows
<1>7. /\ LotTable(lots', lotSeq')
      /\ RunningSum(Basis(lots', k))[lotSeq'] = RunningSum(Basis(lots, k))[lotSeq] + qty * unit
      /\ RunningSum(Basis(lots, k))[lotSeq] \in Int
      /\ \A j : j # k => /\ OpenLots(lots, j) = OpenLots(lots', j)
                         /\ \A l \in OpenLots(lots, j) : lots[l] = lots'[l]
  <2> DEFINE more == Put(lots, lotSeq + 1, lot)
  <2>1. /\ LotTable(more, lotSeq + 1)
        /\ RunningSum(Basis(more, k))[lotSeq + 1] = RunningSum(Basis(lots, k))[lotSeq] + lot.remaining * lot.cost
        /\ RunningSum(Basis(lots, k))[lotSeq] \in Int
        /\ \A j : j # k => /\ OpenLots(lots, j) = OpenLots(more, j)
                           /\ \A l \in OpenLots(lots, j) : lots[l] = more[l]
    BY <1>1, <1>5, LotAdded
  <2> HIDE DEF more
  <2>2. lots' = more /\ lotSeq' = lotSeq + 1
    BY <1>2 DEF more
  <2>3. lot.remaining * lot.cost = qty * unit
    BY <1>5
  <2> QED BY <2>1, <2>2, <2>3
<1>8. qty * unit \in Int
  BY <1>3
<1>9. /\ RunningSum(CashOf(trades', k))[tradeSeq'] = RunningSum(CashOf(trades, k))[tradeSeq] + qty * unit
      /\ RunningSum(CashOf(trades, k))[tradeSeq] \in Int
  BY <1>4, <1>6
<1>10. ASSUME NEW j \in Key, j # k
       PROVE  /\ \A r : RollUp(lots', j, lotSeq', r) = RollUp(lots, j, lotSeq, r)
              /\ RunningSum(Basis(lots', j))[lotSeq'] = RunningSum(Basis(lots, j))[lotSeq]
              /\ OpenLots(lots, j) = OpenLots(lots', j)
              /\ RunningSum(CashOf(trades', j))[tradeSeq'] = RunningSum(CashOf(trades, j))[tradeSeq]
  <2>1. OpenLots(lots, j) = OpenLots(lots', j) /\ \A l \in OpenLots(lots, j) : lots[l] = lots'[l]
    BY <1>7, <1>10
  <2>2. /\ \A r : RollUp(lots', j, lotSeq', r) = RollUp(lots, j, lotSeq, r)
        /\ RunningSum(Basis(lots', j))[lotSeq'] = RunningSum(Basis(lots, j))[lotSeq]
    BY <1>1, <1>2, <2>1, OtherKeys
  <2>3. RunningSum(CashOf(trades', j))[tradeSeq'] = RunningSum(CashOf(trades, j))[tradeSeq]
    BY <1>4, <1>6, <1>10
  <2> QED BY <2>1, <2>2, <2>3
<1>11. tradeSeq' \in Nat /\ lotSeq' \in Nat
  BY <1>1, <1>2
<1> QED BY <1>1, <1>2, <1>6, <1>7, <1>8, <1>9, <1>10, <1>11

(* A BUY keeps the invariant.                                              *)
LEMMA BuyKeeps ==
  ASSUME LedgerInv, NEW k \in Key, NEW date \in Date, NEW qty \in Qty, NEW unit \in Unit,
         RecordBuy(k, date, qty, unit)
  PROVE  LedgerInv'
<1>1. TypeOK /\ RunningSum(Basis(lots, k))[lotSeq] - PriorRealized(k) = RunningSum(CashOf(trades, k))[tradeSeq]
  BY DEF LedgerInv, Balanced
<1> DEFINE worth == qty * unit
<1>2. /\ positions' = Put(positions, k, RollUp(lots', k, lotSeq', PriorRealized(k)))
      /\ PriorRealized(k) \in Int /\ worth \in Int
      /\ tradeSeq' \in Nat /\ LogTable(trades', tradeSeq')
      /\ lotSeq' \in Nat /\ LotTable(lots', lotSeq')
      /\ \A j \in Key : j # k =>
           /\ \A r : RollUp(lots', j, lotSeq', r) = RollUp(lots, j, lotSeq, r)
           /\ RunningSum(Basis(lots', j))[lotSeq'] = RunningSum(Basis(lots, j))[lotSeq]
           /\ OpenLots(lots, j) = OpenLots(lots', j)
           /\ RunningSum(CashOf(trades', j))[tradeSeq'] = RunningSum(CashOf(trades, j))[tradeSeq]
      /\ RunningSum(CashOf(trades, k))[tradeSeq] \in Int
      /\ RunningSum(Basis(lots, k))[lotSeq] \in Int
      /\ RunningSum(Basis(lots', k))[lotSeq'] = RunningSum(Basis(lots, k))[lotSeq] + worth
      /\ RunningSum(CashOf(trades', k))[tradeSeq'] = RunningSum(CashOf(trades, k))[tradeSeq] + worth
  BY <1>1, BuyEffects
<1> HIDE DEF worth
<1>3. RunningSum(Basis(lots', k))[lotSeq'] - PriorRealized(k) = RunningSum(CashOf(trades', k))[tradeSeq']
  BY <1>1, <1>2
<1> QED BY <1>2, <1>3, UpsertKeeps

(* What a SELL does: the cost it takes from the lots and the gain it books *)
(* add up to what it received.                                             *)
LEMMA SellEffects ==
  ASSUME TypeOK, NEW k \in Key, NEW date \in Date, NEW qty \in Qty, NEW unit \in Unit,
         RecordSell(k, date, qty, unit)
  PROVE  \E cost \in Nat :
         /\ positions' = Put(positions, k, RollUp(lots', k, lotSeq', PriorRealized(k) + (qty * unit - cost)))
         /\ PriorRealized(k) \in Int /\ qty * unit \in Int
         /\ tradeSeq' \in Nat /\ LogTable(trades', tradeSeq')
         /\ lotSeq' \in Nat /\ LotTable(lots', lotSeq')
         /\ \A j \in Key : j # k =>
              /\ \A r : RollUp(lots', j, lotSeq', r) = RollUp(lots, j, lotSeq, r)
              /\ RunningSum(Basis(lots', j))[lotSeq'] = RunningSum(Basis(lots, j))[lotSeq]
              /\ OpenLots(lots, j) = OpenLots(lots', j)
              /\ RunningSum(CashOf(trades', j))[tradeSeq'] = RunningSum(CashOf(trades, j))[tradeSeq]
         /\ RunningSum(CashOf(trades, k))[tradeSeq] \in Int
         /\ RunningSum(Basis(lots, k))[lotSeq] \in Int
         /\ RunningSum(Basis(lots', k))[lotSeq'] = RunningSum(Basis(lots, k))[lotSeq] - cost
         /\ RunningSum(CashOf(trades', k))[tradeSeq']
              = RunningSum(CashOf(trades, k))[tradeSeq] - qty * unit
<1> DEFINE row == Trade(k, "SELL", date, qty, unit)
<1> DEFINE cost == CostOfSale(Queue(lots, k), UnitCost(lots, k), qty, lotSeq)
<1>1. /\ tradeSeq \in Nat /\ lotSeq \in Nat /\ LogTable(trades, tradeSeq) /\ LotTable(lots, lotSeq)
      /\ PriorRealized(k) \in Int
  BY PriorType DEF TypeOK, LogTable, LotTable
<1>2. /\ tradeSeq' = tradeSeq + 1 /\ lotSeq' = lotSeq
      /\ trades' = Put(trades, tradeSeq + 1, row)
      /\ lots' = AfterSale(lots, k, qty)
      /\ positions' = Put(positions, k, RollUp(lots', k, lotSeq', PriorRealized(k) + (qty * unit - cost)))
  BY DEF RecordSell
<1>3. qty \in Nat /\ unit \in Nat /\ qty * unit \in Int
  <2>1. qty \in Nat /\ unit \in Nat
    BY LedgerAssumption
  <2> QED BY <2>1
<1>4. row \in TradeRow /\ row.key = k /\ Cash(row) = -(qty * unit)
  BY DEF Trade, TradeRow, Cash
<1> HIDE DEF row
<1>5. /\ LogTable(trades', tradeSeq')
      /\ \A j : /\ RunningSum(CashOf(trades, j))[tradeSeq] \in Int
                /\ RunningSum(CashOf(trades', j))[tradeSeq']
                     = RunningSum(CashOf(trades, j))[tradeSeq] + (IF row.key = j THEN Cash(row) ELSE 0)
  BY <1>1, <1>2, <1>4, CashGrows
<1>6. /\ LotTable(lots', lotSeq') /\ cost \in Nat
      /\ RunningSum(Basis(lots', k))[lotSeq'] = RunningSum(Basis(lots, k))[lotSeq] - cost
  BY <1>1, <1>2, <1>3, SaleTakesCost
<1> HIDE DEF cost
<1>7. RunningSum(Basis(lots, k))[lotSeq] \in Int
  <2>1. Basis(lots, k) \in [Nat -> Nat]
    BY <1>1, LotColumns
  <2>2. RunningSum(Basis(lots, k)) \in [Nat -> Nat]
    BY <2>1, SumNatural
  <2> QED BY <1>1, <2>2
<1>9. /\ RunningSum(CashOf(trades', k))[tradeSeq'] = RunningSum(CashOf(trades, k))[tradeSeq] - qty * unit
      /\ RunningSum(CashOf(trades, k))[tradeSeq] \in Int
  BY <1>3, <1>4, <1>5
<1>10. ASSUME NEW j \in Key, j # k
       PROVE  /\ \A r : RollUp(lots', j, lotSeq', r) = RollUp(lots, j, lotSeq, r)
              /\ RunningSum(Basis(lots', j))[lotSeq'] = RunningSum(Basis(lots, j))[lotSeq]
              /\ OpenLots(lots, j) = OpenLots(lots', j)
              /\ RunningSum(CashOf(trades', j))[tradeSeq'] = RunningSum(CashOf(trades, j))[tradeSeq]
  <2>1. OpenLots(lots, j) = OpenLots(lots', j) /\ \A l \in OpenLots(lots, j) : lots[l] = lots'[l]
    BY <1>2, <1>10, SaleKeepsOthers
  <2>2. /\ \A r : RollUp(lots', j, lotSeq', r) = RollUp(lots, j, lotSeq, r)
        /\ RunningSum(Basis(lots', j))[lotSeq'] = RunningSum(Basis(lots, j))[lotSeq]
    BY <1>1, <1>2, <2>1, OtherKeys
  <2>3. RunningSum(CashOf(trades', j))[tradeSeq'] = RunningSum(CashOf(trades, j))[tradeSeq]
    BY <1>4, <1>5, <1>10
  <2> QED BY <2>1, <2>2, <2>3
<1>11. tradeSeq' \in Nat /\ lotSeq' \in Nat
  BY <1>1, <1>2
<1> QED BY <1>1, <1>2, <1>3, <1>5, <1>6, <1>7, <1>9, <1>10, <1>11

(* A SELL keeps the invariant.                                             *)
LEMMA SellKeeps ==
  ASSUME LedgerInv, NEW k \in Key, NEW date \in Date, NEW qty \in Qty, NEW unit \in Unit,
         RecordSell(k, date, qty, unit)
  PROVE  LedgerInv'
<1>1. TypeOK /\ RunningSum(Basis(lots, k))[lotSeq] - PriorRealized(k) = RunningSum(CashOf(trades, k))[tradeSeq]
  BY DEF LedgerInv, Balanced
<1> DEFINE worth == qty * unit
<1>2. PICK cost \in Nat :
      /\ positions' = Put(positions, k, RollUp(lots', k, lotSeq', PriorRealized(k) + (worth - cost)))
      /\ PriorRealized(k) \in Int /\ worth \in Int
      /\ tradeSeq' \in Nat /\ LogTable(trades', tradeSeq')
      /\ lotSeq' \in Nat /\ LotTable(lots', lotSeq')
      /\ \A j \in Key : j # k =>
           /\ \A r : RollUp(lots', j, lotSeq', r) = RollUp(lots, j, lotSeq, r)
           /\ RunningSum(Basis(lots', j))[lotSeq'] = RunningSum(Basis(lots, j))[lotSeq]
           /\ OpenLots(lots, j) = OpenLots(lots', j)
           /\ RunningSum(CashOf(trades', j))[tradeSeq'] = RunningSum(CashOf(trades, j))[tradeSeq]
      /\ RunningSum(CashOf(trades, k))[tradeSeq] \in Int
      /\ RunningSum(Basis(lots, k))[lotSeq] \in Int
      /\ RunningSum(Basis(lots', k))[lotSeq'] = RunningSum(Basis(lots, k))[lotSeq] - cost
      /\ RunningSum(CashOf(trades', k))[tradeSeq'] = RunningSum(CashOf(trades, k))[tradeSeq] - worth
  BY <1>1, SellEffects
<1> HIDE DEF worth
<1> DEFINE realized == PriorRealized(k) + (worth - cost)
<1>3. realized \in Int
  BY <1>2
<1>4. RunningSum(Basis(lots', k))[lotSeq'] - realized = RunningSum(CashOf(trades', k))[tradeSeq']
  BY <1>1, <1>2
<1>5. positions' = Put(positions, k, RollUp(lots', k, lotSeq', realized))
  BY <1>2
<1> HIDE DEF realized
<1> QED BY <1>2, <1>3, <1>4, <1>5, UpsertKeeps

(* A refused SELL only draws a trade id.                                   *)
LEMMA RejectKeeps ==
  ASSUME LedgerInv, NEW k \in Key, NEW qty \in Qty, RejectSell(k, qty)
  PROVE  LedgerInv'
<1>1. /\ tradeSeq \in Nat /\ tradeSeq' = tradeSeq + 1
      /\ trades' = trades /\ lots' = lots /\ positions' = positions /\ lotSeq' = lotSeq
  BY DEF LedgerInv, TypeOK, RejectSell
<1>2. LogTable(trades, tradeSeq)
  BY DEF LedgerInv, TypeOK, LogTable
<1>3. TypeOK'
  <2>1. 1..tradeSeq \subseteq 1..tradeSeq'
    BY <1>1
  <2> QED BY <1>1, <2>1 DEF LedgerInv, TypeOK
<1>4. PositionsRollUpLots'
  BY <1>1 DEF LedgerInv, PositionsRollUpLots
<1>5. \A j \in Key : Balanced(j)'
  <2>1. SUFFICES ASSUME NEW j \in Key PROVE Balanced(j)'
    OBVIOUS
  <2>2. CashOf(trades, j) \in [Nat -> Int] /\ CashOf(trades, j)[tradeSeq + 1] = 0
    BY <1>1, <1>2, CashColumnType
  <2>3. RunningSum(CashOf(trades, j))[tradeSeq + 1] = RunningSum(CashOf(trades, j))[tradeSeq]
    BY <1>1, <2>2, TotalStays
  <2>4. Balanced(j)
    BY DEF LedgerInv
  <2> QED BY <1>1, <2>3, <2>4 DEF Balanced, PriorRealized
<1> QED BY <1>3, <1>4, <1>5 DEF LedgerInv

(* The empty ledger.                                                       *)
LEMMA InitLedger == Init => LedgerInv
<1>1. SUFFICES ASSUME Init PROVE LedgerInv
  OBVIOUS
<1>2. /\ trades = <<>> /\ lots = <<>> /\ positions = <<>> /\ tradeSeq = 0 /\ lotSeq = 0
      /\ DOMAIN trades = {} /\ DOMAIN lots = {} /\ DOMAIN positions = {}
  BY <1>1 DEF Init
<1>3. TypeOK
  BY <1>2 DEF TypeOK
<1>4. PositionsRollUpLots
  BY <1>2 DEF PositionsRollUpLots, OpenLots
<1>5. ASSUME NEW k \in Key PROVE Balanced(k)
  <2>1. CashOf(trades, k) \in [Nat -> Int] /\ Basis(lots, k) \in [Nat -> Int]
    <3>1. LogTable(trades, tradeSeq) /\ LotTable(lots, lotSeq) /\ tradeSeq \in Nat /\ lotSeq \in Nat
      BY <1>3 DEF TypeOK, LogTable, LotTable
    <3>2. CashOf(trades, k) \in [Nat -> Int]
      BY <3>1, CashColumnType
    <3>3. Basis(lots, k) \in [Nat -> Nat]
      BY <3>1, LotColumns
    <3> QED BY <3>2, <3>3
  <2>2. RunningSum(CashOf(trades, k))[0] = 0 /\ RunningSum(Basis(lots, k))[0] = 0
    BY <2>1, RunningSumDef
  <2>3. PriorRealized(k) = 0
    BY <1>2 DEF PriorRealized
  <2> QED BY <1>2, <2>2, <2>3 DEF Balanced
<1> QED BY <1>3, <1>4, <1>5 DEF LedgerInv

(* Every step keeps the invariant.                                         *)
LEMMA StepLedger == LedgerInv /\ [RecordNext]_ledgerVars => LedgerInv'
<1>1. SUFFICES ASSUME LedgerInv, [RecordNext]_ledgerVars PROVE LedgerInv'
  OBVIOUS
<1>2. CASE RecordNext
  <2>1. PICK k \in Key, qty \in Qty :
          \/ \E date \in Date, unit \in Unit : RecordBuy(k, date, qty, unit)
          \/ \E date \in Date, unit \in Unit : RecordSell(k, date, qty, unit)
          \/ RejectSell(k, qty)
    BY <1>2 DEF RecordNext
  <2>2. CASE \E date \in Date, unit \in Unit : RecordBuy(k, date, qty, unit)
    BY <1>1, <2>2, BuyKeeps
  <2>3. CASE \E date \in Date, unit \in Unit : RecordSell(k, date, qty, unit)
    BY <1>1, <2>3, SellKeeps
  <2>4. CASE RejectSell(k, qty)
    BY <1>1, <2>4, RejectKeeps
  <2> QED BY <2>1, <2>2, <2>3, <2>4
<1>3. CASE UNCHANGED ledgerVars
  BY <1>1, <1>3 DEF ledgerVars, LedgerInv, TypeOK, PositionsRollUpLots, Balanced, PriorRealized
<1> QED BY <1>1, <1>2, <1>3

(* The invariant holds in every state.                                     *)
THEOREM LedgerInvariant == LedgerSpec => []LedgerInv
BY InitLedger, StepLedger, PTL DEF LedgerSpec

--------------------------------------------------------------------------------
(* What follows from it. *)

(* The tables of the ledger keep their types.                              *)
THEOREM LedgerTypes == LedgerSpec => []TypeOK
<1>1. LedgerInv => TypeOK
  BY DEF LedgerInv
<1> QED BY <1>1, LedgerInvariant, PTL

(* Every position is the roll-up of its open lots.                         *)
THEOREM LedgerRollsUp == LedgerSpec => []PositionsRollUpLots
<1>1. LedgerInv => PositionsRollUpLots
  BY DEF LedgerInv
<1> QED BY <1>1, LedgerInvariant, PTL

(* No money appears or vanishes in the books of a position.                *)
THEOREM LedgerConservesMoney == LedgerSpec => []MoneyConserved
<1>1. LedgerInv => MoneyConserved
  <2>1. SUFFICES ASSUME LedgerInv, NEW k \in DOMAIN positions
                 PROVE  positions[k].total_cost - positions[k].realized_pnl
                          = RunningSum(CashColumn(k))[tradeSeq]
    BY DEF MoneyConserved
  <2>2. k \in Key /\ lotSeq \in Nat /\ LotTable(lots, lotSeq) /\ positions[k].realized_pnl \in Int
    BY <2>1 DEF LedgerInv, TypeOK, LotTable, PositionRow
  <2>3. positions[k] = RollUp(lots, k, lotSeq, positions[k].realized_pnl)
    BY <2>1, <2>2 DEF LedgerInv, PositionsRollUpLots
  <2>4. positions[k].total_cost = RunningSum(Basis(lots, k))[lotSeq]
    BY <2>2, <2>3, RollUpType
  <2>5. CashColumn(k) = CashOf(trades, k)
    BY DEF CashColumn, CashOf, Cash
  <2>6. Balanced(k) /\ PriorRealized(k) = positions[k].realized_pnl
    BY <2>1, <2>2 DEF LedgerInv, PriorRealized
  <2> QED BY <2>4, <2>5, <2>6 DEF Balanced
<1> QED BY <1>1, LedgerInvariant, PTL

--------------------------------------------------------------------------------
(* Quotas: each BUY and each SELL is counted before it is inserted, and a  *)
(* SELL, whose position quota the code does not check, only ever rewrites  *)
(* a position row that is already there.                                   *)

(* Adding at most one element to a set with room for one.                  *)
LEMMA RoomForOne ==
  ASSUME NEW S, IsFiniteSet(S), NEW T, NEW x, T \subseteq S \cup {x},
         NEW limit \in Nat, Cardinality(S) < limit
  PROVE  Cardinality(T) <= limit
<1>1. /\ IsFiniteSet(S \cup {x}) /\ Cardinality(S) \in Nat
      /\ Cardinality(S \cup {x}) \in {Cardinality(S), Cardinality(S) + 1}
  BY FS_AddElement, FS_CardinalityType
<1>2. IsFiniteSet(T) /\ Cardinality(T) <= Cardinality(S \cup {x})
  BY <1>1, FS_Subset
<1>3. Cardinality(T) \in Nat /\ Cardinality(S \cup {x}) \in Nat
  BY <1>1, <1>2, FS_CardinalityType
<1> QED BY <1>1, <1>2, <1>3

(* A key with shares to sell has a position row.                           *)
LEMMA SellerHasRow ==
  ASSUME LedgerInv, NEW k \in Key, NEW qty \in Qty, qty <= Available(Queue(lots, k), lotSeq)
  PROVE  k \in DOMAIN positions
<1>1. SUFFICES ASSUME k \notin DOMAIN positions PROVE FALSE
  OBVIOUS
<1>2. OpenLots(lots, k) = {}
  BY <1>1 DEF LedgerInv, PositionsRollUpLots
<1>3. lotSeq \in Nat /\ qty \in Nat /\ qty > 0
  BY LedgerAssumption DEF LedgerInv, TypeOK
<1> DEFINE none == Queue(lots, k)
<1>4. none \in [Nat -> Int] /\ \A i \in Nat : none[i] = none[i] - none[i]
  <2>1. none = [i \in Nat |-> 0]
    BY <1>2 DEF Queue
  <2> HIDE DEF none
  <2> QED BY <2>1
<1> HIDE DEF none
<1>5. RunningSum(none)[lotSeq] = RunningSum(none)[lotSeq] - RunningSum(none)[lotSeq]
  BY <1>3, <1>4, SumDifference
<1>6. RunningSum(none)[lotSeq] \in Int
  BY <1>3, <1>4, RunningSumDef
<1> QED BY <1>3, <1>5, <1>6 DEF none, Available

--------------------------------------------------------------------------------
QuotaInv == LedgerInv /\ IsFiniteSet(DOMAIN positions) /\ QuotasHeld

(* The trades of this month are finitely many.                             *)
LEMMA TradesFinite ==
  ASSUME TypeOK, NEW u
  PROVE  IsFiniteSet(TradesThisMonth(u))
<1>1. IsFiniteSet(1..tradeSeq)
  <2>1. 1 \in Int /\ tradeSeq \in Int
    BY DEF TypeOK
  <2> QED BY <2>1, FS_Interval
<1>2. TradesThisMonth(u) \subseteq 1..tradeSeq
  BY DEF TypeOK, TradesThisMonth
<1> QED BY <1>1, <1>2, FS_Subset

(* A trade recorded with room left in its owner's month keeps everybody's  *)
(* trades within the quota.                                                *)
LEMMA TradeKeepsQuota ==
  ASSUME QuotaInv, NEW k \in Key, NEW row, row.key = k, TradesQuotaLeft(Owner[k[1]]),
         trades' = Put(trades, tradeSeq + 1, row), NEW a \in Account
  PROVE  Cardinality(TradesThisMonth(Owner[a])') <= TradesPerMonth
<1>1. \A t \in DOMAIN trades : t # tradeSeq + 1
  BY DEF QuotaInv, LedgerInv, TypeOK
<1>2. /\ DOMAIN trades' = DOMAIN trades \cup {tradeSeq + 1} /\ trades'[tradeSeq + 1] = row
      /\ \A t \in DOMAIN trades : trades'[t] = trades[t]
  BY <1>1 DEF Put
<1>3. IsFiniteSet(TradesThisMonth(Owner[a]))
  BY TradesFinite DEF QuotaInv, LedgerInv
<1>4. CASE Owner[a] = Owner[k[1]]
  <2>1. Cardinality(TradesThisMonth(Owner[a])) < TradesPerMonth
    BY <1>4 DEF TradesQuotaLeft
  <2>2. TradesThisMonth(Owner[a])' \subseteq TradesThisMonth(Owner[a]) \cup {tradeSeq + 1}
    BY <1>2 DEF TradesThisMonth
  <2> QED BY <1>3, <2>1, <2>2, RoomForOne, LedgerAssumption
<1>5. CASE Owner[a] # Owner[k[1]]
  <2>1. TradesThisMonth(Owner[a])' = TradesThisMonth(Owner[a])
    BY <1>1, <1>2, <1>5 DEF TradesThisMonth
  <2> QED BY <2>1 DEF QuotaInv, QuotasHeld
<1> QED BY <1>4, <1>5

(* A BUY keeps the quotas.                                                 *)
LEMMA BuyKeepsQuota ==
  ASSUME QuotaInv, NEW k \in Key, NEW date \in Date, NEW qty \in Qty, NEW unit \in Unit,
         RecordBuy(k, date, qty, unit)
  PROVE  QuotaInv'
<1>1. LedgerInv'
  BY BuyKeeps DEF QuotaInv
<1>2. \A a \in Account : Cardinality(TradesThisMonth(Owner[a])') <= TradesPerMonth
  <2>1. /\ trades' = Put(trades, tradeSeq + 1, Trade(k, "BUY", date, qty, unit))
        /\ TradesQuotaLeft(Owner[k[1]])
    BY DEF RecordBuy
  <2>2. Trade(k, "BUY", date, qty, unit).key = k
    BY DEF Trade
  <2> QED BY <2>1, <2>2, TradeKeepsQuota
<1>3. DOMAIN positions' = DOMAIN positions \cup {k}
  BY DEF RecordBuy, Put
<1>4. IsFiniteSet(DOMAIN positions')
  BY <1>3, FS_AddElement DEF QuotaInv
<1>5. ASSUME NEW a \in Account PROVE Cardinality(PositionsOf(Owner[a])') <= MaxPositions
  <2>1. IsFiniteSet(PositionsOf(Owner[a]))
    <3>1. PositionsOf(Owner[a]) \subseteq DOMAIN positions
      BY DEF PositionsOf
    <3> QED BY <3>1, FS_Subset DEF QuotaInv
  <2>2. CASE k \in DOMAIN positions \/ Owner[a] # Owner[k[1]]
    <3>1. PositionsOf(Owner[a])' = PositionsOf(Owner[a])
      BY <1>3, <2>2 DEF PositionsOf
    <3> QED BY <3>1 DEF QuotaInv, QuotasHeld
  <2>3. CASE k \notin DOMAIN positions /\ Owner[a] = Owner[k[1]]
    <3>1. Cardinality(PositionsOf(Owner[a])) < MaxPositions
      BY <2>3 DEF RecordBuy, PositionsQuotaLeft
    <3>2. PositionsOf(Owner[a])' \subseteq PositionsOf(Owner[a]) \cup {k}
      BY <1>3 DEF PositionsOf
    <3> QED BY <2>1, <3>1, <3>2, RoomForOne, LedgerAssumption
  <2> QED BY <2>2, <2>3
<1> QED BY <1>1, <1>2, <1>4, <1>5 DEF QuotaInv, QuotasHeld

(* A SELL keeps the quotas: it adds a trade and no position.               *)
LEMMA SellKeepsQuota ==
  ASSUME QuotaInv, NEW k \in Key, NEW date \in Date, NEW qty \in Qty, NEW unit \in Unit,
         RecordSell(k, date, qty, unit)
  PROVE  QuotaInv'
<1>1. LedgerInv'
  BY SellKeeps DEF QuotaInv
<1>2. \A a \in Account : Cardinality(TradesThisMonth(Owner[a])') <= TradesPerMonth
  <2>1. /\ trades' = Put(trades, tradeSeq + 1, Trade(k, "SELL", date, qty, unit))
        /\ TradesQuotaLeft(Owner[k[1]])
    BY DEF RecordSell
  <2>2. Trade(k, "SELL", date, qty, unit).key = k
    BY DEF Trade
  <2> QED BY <2>1, <2>2, TradeKeepsQuota
<1>3. k \in DOMAIN positions
  BY SellerHasRow DEF QuotaInv, RecordSell
<1>4. DOMAIN positions' = DOMAIN positions
  BY <1>3 DEF RecordSell, Put
<1>5. \A a \in Account : PositionsOf(Owner[a])' = PositionsOf(Owner[a])
  BY <1>4 DEF PositionsOf
<1> QED BY <1>1, <1>2, <1>4, <1>5 DEF QuotaInv, QuotasHeld

(* Recording trades one request at a time exceeds neither the monthly      *)
(* trades nor the positions of the tier.                                   *)
THEOREM LedgerKeepsQuotas == LedgerSpec => []QuotasHeld
<1>1. Init => QuotaInv
  <2>1. SUFFICES ASSUME Init PROVE QuotaInv
    OBVIOUS
  <2>2. LedgerInv
    BY <2>1, InitLedger
  <2>3. DOMAIN trades = {} /\ DOMAIN positions = {}
    BY <2>1 DEF Init
  <2>4. \A u : TradesThisMonth(u) = {} /\ PositionsOf(u) = {}
    BY <2>3 DEF TradesThisMonth, PositionsOf
  <2>5. IsFiniteSet({}) /\ Cardinality({}) = 0
    BY FS_EmptySet
  <2>6. QuotasHeld
    BY <2>4, <2>5, LedgerAssumption DEF QuotasHeld
  <2> QED BY <2>2, <2>3, <2>5, <2>6 DEF QuotaInv
<1>2. QuotaInv /\ [RecordNext]_ledgerVars => QuotaInv'
  <2>1. SUFFICES ASSUME QuotaInv, [RecordNext]_ledgerVars PROVE QuotaInv'
    OBVIOUS
  <2>2. ASSUME NEW k \in Key, NEW qty \in Qty, NEW date \in Date, NEW unit \in Unit,
               RecordBuy(k, date, qty, unit)
        PROVE  QuotaInv'
    BY <2>1, <2>2, BuyKeepsQuota
  <2>3. ASSUME NEW k \in Key, NEW qty \in Qty, NEW date \in Date, NEW unit \in Unit,
               RecordSell(k, date, qty, unit)
        PROVE  QuotaInv'
    BY <2>1, <2>3, SellKeepsQuota
  <2>4. ASSUME trades' = trades, positions' = positions PROVE QuotaInv'
    <3>1. LedgerInv'
      BY <2>1, StepLedger DEF QuotaInv
    <3> QED BY <2>1, <2>4, <3>1 DEF QuotaInv, QuotasHeld, TradesThisMonth, PositionsOf
  <2> QED BY <2>1, <2>2, <2>3, <2>4 DEF RecordNext, RejectSell, ledgerVars
<1>3. QuotaInv => QuotasHeld
  BY DEF QuotaInv
<1> QED BY <1>1, <1>2, <1>3, PTL DEF LedgerSpec

--------------------------------------------------------------------------------
(* Lots and the log.  The queue of a key and the column of its BUYs run    *)
(* side by side: up to a lot the queue holds what the BUYs up to its own   *)
(* have left once everything sold came off their head.  Held at both ends  *)
(* of every lot, that is inductive, and gives what is left of each lot.    *)

Rest(x) == IF x <= 0 THEN 0 ELSE x

(* The quantities of one kind of trade of k in a log. *)
QtyOf(log, k, action) ==
  [t \in Nat |-> IF t \in DOMAIN log /\ log[t].key = k /\ log[t].action = action
                 THEN log[t].qty ELSE 0]

Bought(log, k) == RunningSum(QtyOf(log, k, "BUY"))
SoldOf(log, k) == RunningSum(QtyOf(log, k, "SELL"))

Chain(table, last, log, n, k) ==
  /\ Available(Queue(table, k), last) = Bought(log, k)[n] - SoldOf(log, k)[n]
  /\ \A l \in DOMAIN table : table[l].key = k =>
       /\ RunningSum(Queue(table, k))[l] = Rest(Bought(log, k)[table[l].trade] - SoldOf(log, k)[n])
       /\ RunningSum(Queue(table, k))[l - 1]
            = Rest(Bought(log, k)[table[l].trade - 1] - SoldOf(log, k)[n])

LotOf(lot, log) ==
  /\ lot.trade \in DOMAIN log /\ log[lot.trade].action = "BUY" /\ log[lot.trade].key = lot.key
  /\ lot.original = log[lot.trade].qty /\ lot.cost = log[lot.trade].unit
  /\ lot.exhausted <=> lot.remaining = 0

Listed(table, log) ==
  \A t \in DOMAIN log : log[t].action = "BUY" => \E l \in DOMAIN table : table[l].trade = t

ChainInv ==
  /\ \A l \in DOMAIN lots : LotOf(lots[l], trades)
  /\ Listed(lots, trades)
  /\ \A k \in Key : Chain(lots, lotSeq, trades, tradeSeq, k)

(* A column of quantities is natural and ends with the log.                *)
LEMMA QtyColumn ==
  ASSUME NEW log, NEW n \in Nat, LogTable(log, n), NEW k, NEW action
  PROVE  /\ QtyOf(log, k, action) \in [Nat -> Nat]
         /\ QtyOf(log, k, action) \in [Nat -> Int]
         /\ RunningSum(QtyOf(log, k, action)) \in [Nat -> Nat]
         /\ RunningSum(QtyOf(log, k, action))[n + 1] = RunningSum(QtyOf(log, k, action))[n]
<1>1. \A t \in DOMAIN log : log[t].qty \in Nat
  BY LedgerAssumption DEF LogTable, TradeRow
<1>2. QtyOf(log, k, action) \in [Nat -> Nat]
  BY <1>1 DEF QtyOf
<1>3. n + 1 \in Nat /\ n + 1 \notin DOMAIN log
  BY DEF LogTable
<1>4. QtyOf(log, k, action)[n + 1] = 0
  BY <1>3 DEF QtyOf
<1>5. QtyOf(log, k, action) \in [Nat -> Int]
  BY <1>2
<1>6. RunningSum(QtyOf(log, k, action))[n + 1] = RunningSum(QtyOf(log, k, action))[n]
  BY <1>4, <1>5, TotalStays
<1>7. RunningSum(QtyOf(log, k, action)) \in [Nat -> Nat]
  BY <1>2, SumNatural
<1> QED BY <1>2, <1>5, <1>6, <1>7

(* One more trade adds its quantity to its own column only.                *)
LEMMA QtyGrows ==
  ASSUME NEW log, NEW n \in Nat, LogTable(log, n), NEW row \in TradeRow, NEW k, NEW action
  PROVE  /\ \A m \in 0..n : RunningSum(QtyOf(Put(log, n + 1, row), k, action))[m]
                              = RunningSum(QtyOf(log, k, action))[m]
         /\ RunningSum(QtyOf(Put(log, n + 1, row), k, action))[n + 1]
              = RunningSum(QtyOf(log, k, action))[n]
                  + (IF row.key = k /\ row.action = action THEN row.qty ELSE 0)
<1> DEFINE more == Put(log, n + 1, row)
<1> DEFINE f == QtyOf(log, k, action)
<1> DEFINE g == QtyOf(more, k, action)
<1>1. log \in [DOMAIN log -> TradeRow] /\ n + 1 \notin DOMAIN log /\ n + 1 \in Nat
  BY DEF LogTable
<1>2. /\ DOMAIN more = DOMAIN log \cup {n + 1} /\ more[n + 1] = row
      /\ \A x \in DOMAIN log : x # n + 1 => more[x] = log[x]
  BY <1>1 DEF Put
<1>3. LogTable(more, n + 1)
  BY CashGrows
<1> HIDE DEF more
<1>4. f \in [Nat -> Int] /\ g \in [Nat -> Int]
  BY <1>1, <1>3, QtyColumn
<1>5. g[n + 1] = IF row.key = k /\ row.action = action THEN row.qty ELSE 0
  BY <1>1, <1>2 DEF QtyOf
<1>6. \A i \in 1..n : f[i] = g[i]
  BY <1>2 DEF QtyOf
<1> HIDE DEF f, g
<1>7. RunningSum(g)[n + 1] = RunningSum(f)[n] + g[n + 1]
  BY <1>4, <1>6, TotalGrows
<1>8. ASSUME NEW m \in 0..n PROVE RunningSum(g)[m] = RunningSum(f)[m]
  <2>1. m \in Nat /\ \A i \in 1..m : g[i] = f[i]
    BY <1>6
  <2> QED BY <1>4, <2>1, SumEqual
<1> QED BY <1>5, <1>7, <1>8 DEF f, g, more

(* One more lot adds its shares to its own queue only.                     *)
LEMMA QueueGrows ==
  ASSUME NEW table, NEW n \in Nat, LotTable(table, n), NEW row \in LotRow, ~ row.exhausted, NEW k
  PROVE  /\ \A m \in 0..n : RunningSum(Queue(Put(table, n + 1, row), k))[m]
                              = RunningSum(Queue(table, k))[m]
         /\ RunningSum(Queue(Put(table, n + 1, row), k))[n + 1]
              = RunningSum(Queue(table, k))[n] + (IF row.key = k THEN row.remaining ELSE 0)
<1> DEFINE more == Put(table, n + 1, row)
<1> DEFINE f == Queue(table, k)
<1> DEFINE g == Queue(more, k)
<1>1. table \in [DOMAIN table -> LotRow] /\ n + 1 \notin DOMAIN table /\ n + 1 \in Nat
  BY DEF LotTable
<1>2. /\ DOMAIN more = DOMAIN table \cup {n + 1} /\ more[n + 1] = row
      /\ \A x \in DOMAIN table : x # n + 1 => more[x] = table[x]
  BY <1>1 DEF Put
<1>3. LotTable(more, n + 1)
  BY LotAdded
<1> HIDE DEF more
<1>4. f \in [Nat -> Int] /\ g \in [Nat -> Int]
  <2>1. f \in [Nat -> Nat] /\ g \in [Nat -> Nat]
    BY <1>1, <1>3, LotColumns
  <2> QED BY <2>1
<1>5. g[n + 1] = IF row.key = k THEN row.remaining ELSE 0
  BY <1>1, <1>2 DEF Queue, OpenLots
<1>6. \A i \in 1..n : f[i] = g[i]
  BY <1>2 DEF Queue, OpenLots
<1> HIDE DEF f, g
<1>7. RunningSum(g)[n + 1] = RunningSum(f)[n] + g[n + 1]
  BY <1>4, <1>6, TotalGrows
<1>8. ASSUME NEW m \in 0..n PROVE RunningSum(g)[m] = RunningSum(f)[m]
  <2>1. m \in Nat /\ \A i \in 1..m : g[i] = f[i]
    BY <1>6
  <2> QED BY <1>4, <2>1, SumEqual
<1> QED BY <1>5, <1>7, <1>8 DEF f, g, more

(* A sale takes from the head of its queue: up to any place it takes what  *)
(* it wants or what there is, and it leaves the queues of other keys alone.*)
LEMMA QueueSold ==
  ASSUME NEW table, NEW n \in Nat, LotTable(table, n), NEW k, NEW qty \in Nat
  PROVE  /\ \A m \in Nat : RunningSum(Queue(AfterSale(table, k, qty), k))[m]
              = RunningSum(Queue(table, k))[m] - Smaller(qty, RunningSum(Queue(table, k))[m])
         /\ \A j : j # k => Queue(AfterSale(table, k, qty), j) = Queue(table, j)
         /\ DOMAIN AfterSale(table, k, qty) = DOMAIN table
         /\ \A l \in DOMAIN table :
              /\ AfterSale(table, k, qty)[l].key = table[l].key
              /\ AfterSale(table, k, qty)[l].trade = table[l].trade
              /\ AfterSale(table, k, qty)[l].original = table[l].original
              /\ AfterSale(table, k, qty)[l].cost = table[l].cost
              /\ (table[l].exhausted <=> table[l].remaining = 0) =>
                   (AfterSale(table, k, qty)[l].exhausted <=> AfterSale(table, k, qty)[l].remaining = 0)
<1> DEFINE taken == Consumed(Queue(table, k), qty)
<1> DEFINE after == AfterSale(table, k, qty)
<1>1. Queue(table, k) \in [Nat -> Nat]
  BY LotColumns
<1>2. taken \in [Nat -> Nat] /\ \A i \in Nat : taken[i] <= Queue(table, k)[i]
  BY <1>1, ConsumedBounds
<1>3. \A m \in Nat : RunningSum(taken)[m] = Smaller(qty, Available(Queue(table, k), m))
  BY <1>1, ConsumedTotal
<1>4. after = [l \in DOMAIN table |-> IF l \in OpenLots(table, k)
                 THEN LotLess(table[l], taken[l]) ELSE table[l]]
  BY DEF AfterSale
<1>5. LotTable(after, n)
  BY SaleTakesCost
<1> HIDE DEF taken
<1>6. ASSUME NEW l \in OpenLots(table, k)
      PROVE  /\ l \in DOMAIN table /\ l \in Nat /\ table[l] \in LotRow
             /\ table[l].key = k /\ ~ table[l].exhausted
             /\ Queue(table, k)[l] = table[l].remaining
             /\ taken[l] \in Nat /\ taken[l] <= table[l].remaining /\ table[l].remaining \in Nat
  <2>1. l \in DOMAIN table /\ l \in Nat /\ table[l] \in LotRow /\ table[l].key = k /\ ~ table[l].exhausted
    BY DEF LotTable, OpenLots
  <2>2. Queue(table, k)[l] = table[l].remaining
    BY <2>1 DEF Queue
  <2>3. taken[l] \in Nat /\ taken[l] <= table[l].remaining /\ table[l].remaining \in Nat
    BY <1>2, <2>1, <2>2 DEF LotRow
  <2> QED BY <2>1, <2>2, <2>3
<1> HIDE DEF after
<1>7. /\ DOMAIN after = DOMAIN table
      /\ \A l \in OpenLots(table, k) : after[l] = LotLess(table[l], taken[l])
      /\ \A l \in DOMAIN table : l \notin OpenLots(table, k) => after[l] = table[l]
  <2>1. OpenLots(table, k) \subseteq DOMAIN table
    BY DEF OpenLots
  <2> QED BY <1>4, <2>1
<1>8. ASSUME NEW l \in OpenLots(table, k)
      PROVE  /\ after[l].key = k /\ after[l].trade = table[l].trade
             /\ after[l].original = table[l].original /\ after[l].cost = table[l].cost
             /\ after[l].remaining = table[l].remaining - taken[l]
             /\ after[l].exhausted = (taken[l] > 0 /\ table[l].remaining = taken[l])
  <2>1. after[l] = LotLess(table[l], taken[l]) /\ table[l].key = k
    BY <1>6, <1>7
  <2>2. /\ after[l].key = table[l].key /\ after[l].trade = table[l].trade
        /\ after[l].original = table[l].original /\ after[l].cost = table[l].cost
        /\ after[l].remaining = table[l].remaining - taken[l]
        /\ after[l].exhausted = (taken[l] > 0 /\ table[l].remaining = taken[l])
    BY <2>1 DEF LotLess
  <2> QED BY <2>1, <2>2
<1>9. ASSUME NEW l \in DOMAIN table
      PROVE  /\ after[l].key = table[l].key /\ after[l].trade = table[l].trade
             /\ after[l].original = table[l].original /\ after[l].cost = table[l].cost
             /\ (table[l].exhausted <=> table[l].remaining = 0) =>
                  (after[l].exhausted <=> after[l].remaining = 0)
  <2>1. CASE l \in OpenLots(table, k)
    <3>1. /\ after[l].remaining = table[l].remaining - taken[l]
          /\ after[l].exhausted = (taken[l] > 0 /\ table[l].remaining = taken[l])
      BY <1>8, <2>1
    <3>2. taken[l] \in Nat /\ taken[l] <= table[l].remaining /\ table[l].remaining \in Nat /\ ~ table[l].exhausted
      BY <1>6, <2>1
    <3>3. after[l].exhausted => after[l].remaining = 0
      <4>1. after[l].exhausted => table[l].remaining = taken[l]
        BY <3>1
      <4> QED BY <3>1, <3>2, <4>1
    <3>4. table[l].remaining # 0 /\ after[l].remaining = 0 => after[l].exhausted
      <4>1. table[l].remaining # 0 /\ after[l].remaining = 0
              => taken[l] > 0 /\ table[l].remaining = taken[l]
        BY <3>1, <3>2
      <4> QED BY <3>1, <4>1
    <3> QED BY <1>6, <1>8, <2>1, <3>2, <3>3, <3>4
  <2>2. CASE l \notin OpenLots(table, k)
    BY <1>7, <2>2
  <2> QED BY <2>1, <2>2
<1>10. ASSUME NEW l \in Nat PROVE Queue(after, k)[l] = Queue(table, k)[l] - taken[l]
  <2>1. CASE l \in OpenLots(table, k)
    <3>1. Queue(after, k)[l] = IF after[l].exhausted THEN 0 ELSE after[l].remaining
      BY <1>6, <1>7, <1>8, <2>1 DEF Queue, OpenLots
    <3>2. /\ after[l].remaining = table[l].remaining - taken[l]
          /\ after[l].exhausted => table[l].remaining = taken[l]
      BY <1>8, <2>1
    <3> QED BY <1>6, <2>1, <3>1, <3>2
  <2>2. CASE l \notin OpenLots(table, k)
    <3>1. l \notin OpenLots(after, k)
      BY <1>7, <2>2 DEF OpenLots
    <3>2. Queue(after, k)[l] = 0 /\ Queue(table, k)[l] = 0
      BY <2>2, <3>1 DEF Queue
    <3> QED BY <1>2, <3>2
  <2> QED BY <2>1, <2>2
<1>11. \A m \in Nat : RunningSum(Queue(after, k))[m] = RunningSum(Queue(table, k))[m] - RunningSum(taken)[m]
  <2>1. Queue(after, k) \in [Nat -> Nat]
    BY <1>5, LotColumns
  <2>2. Queue(after, k) \in [Nat -> Int] /\ Queue(table, k) \in [Nat -> Int] /\ taken \in [Nat -> Int]
    BY <1>1, <1>2, <2>1
  <2> QED BY <1>10, <2>2, SumDifference
<1>12. ASSUME NEW j, j # k PROVE Queue(after, j) = Queue(table, j)
  <2>1. OpenLots(table, j) = OpenLots(AfterSale(table, k, qty), j)
    BY <1>12, SaleKeepsOthers
  <2>2. ASSUME NEW l \in OpenLots(table, j) PROVE table[l] = AfterSale(table, k, qty)[l]
    <3>1. l \in DOMAIN table /\ l \notin OpenLots(table, k)
      BY <1>12 DEF OpenLots
    <3> QED BY <1>7, <3>1 DEF after
  <2>3. Queue(table, j) = Queue(AfterSale(table, k, qty), j)
    BY <2>1, <2>2, SameColumns
  <2> QED BY <2>3 DEF after
<1> QED BY <1>3, <1>7, <1>9, <1>11, <1>12 DEF Available, after

(* A BUY and its lot extend the chain of their key; other keys keep theirs.*)
LEMMA BuyChains ==
  ASSUME NEW table, NEW last \in Nat, LotTable(table, last),
         NEW log, NEW n \in Nat, LogTable(log, n),
         \A l \in DOMAIN table : table[l].trade \in DOMAIN log,
         NEW row \in TradeRow, row.action = "BUY",
         NEW lot \in LotRow, lot.trade = n + 1, lot.key = row.key,
         lot.remaining = row.qty, ~ lot.exhausted,
         NEW j, Chain(table, last, log, n, j)
  PROVE  Chain(Put(table, last + 1, lot), last + 1, Put(log, n + 1, row), n + 1, j)
<1> DEFINE wide == Put(table, last + 1, lot)
<1> DEFINE long == Put(log, n + 1, row)
<1> DEFINE q == RunningSum(Queue(table, j))
<1> DEFINE q2 == RunningSum(Queue(wide, j))
<1> DEFINE b == Bought(log, j)
<1> DEFINE b2 == Bought(long, j)
<1> DEFINE s == SoldOf(log, j)
<1> DEFINE s2 == SoldOf(long, j)
<1>1. /\ \A m \in 0..last : q2[m] = q[m]
      /\ q2[last + 1] = q[last] + (IF lot.key = j THEN lot.remaining ELSE 0)
  BY QueueGrows
<1>2. /\ \A m \in 0..n : b2[m] = b[m]
      /\ b2[n + 1] = b[n] + (IF row.key = j THEN row.qty ELSE 0)
  BY QtyGrows DEF Bought
<1>3. s2[n + 1] = s[n] + (IF row.key = j /\ row.action = "SELL" THEN row.qty ELSE 0)
  BY QtyGrows DEF SoldOf
<1>4. b[n] \in Nat /\ s[n] \in Nat
  BY QtyColumn DEF Bought, SoldOf
<1>5. q[last] \in Nat
  <2>1. Queue(table, j) \in [Nat -> Nat]
    BY LotColumns
  <2> QED BY <2>1, SumNatural
<1>6. /\ q[last] = b[n] - s[n]
      /\ \A l \in DOMAIN table : table[l].key = j =>
           q[l] = Rest(b[table[l].trade] - s[n]) /\ q[l - 1] = Rest(b[table[l].trade - 1] - s[n])
  BY DEF Chain, Available
<1>7. /\ DOMAIN wide = DOMAIN table \cup {last + 1} /\ wide[last + 1] = lot
      /\ \A l \in DOMAIN table : wide[l] = table[l] /\ l \in 1..last
  <2>1. DOMAIN table \subseteq 1..last /\ last + 1 \notin 1..last
    BY DEF LotTable
  <2> QED BY <2>1 DEF Put
<1>8. \A l \in DOMAIN table : table[l].trade \in 1..n
  BY DEF LogTable
<1>9. row.qty \in Nat
  BY LedgerAssumption DEF TradeRow
<1> HIDE DEF wide, long, q, q2, b, b2, s, s2
<1>10. s2[n + 1] = s[n] /\ b2[n] = b[n] /\ q2[last] = q[last]
  BY <1>1, <1>2, <1>3, <1>4
<1>11. q2[last + 1] = b2[n + 1] - s2[n + 1]
  BY <1>1, <1>2, <1>4, <1>6, <1>9, <1>10
<1>12. ASSUME NEW l \in DOMAIN wide, wide[l].key = j
       PROVE  /\ q2[l] = Rest(b2[wide[l].trade] - s2[n + 1])
              /\ q2[l - 1] = Rest(b2[wide[l].trade - 1] - s2[n + 1])
  <2>1. CASE l \in DOMAIN table
    <3>1. wide[l] = table[l] /\ l \in 0..last /\ l - 1 \in 0..last
      BY <1>7, <2>1
    <3> DEFINE t == table[l].trade
    <3>2. t \in 0..n /\ t - 1 \in 0..n /\ wide[l].trade = t
      BY <1>8, <2>1, <3>1
    <3>3. q[l] = Rest(b[t] - s[n]) /\ q[l - 1] = Rest(b[t - 1] - s[n])
      BY <1>6, <1>12, <2>1, <3>1
    <3> HIDE DEF t
    <3>4. q2[l] = q[l] /\ q2[l - 1] = q[l - 1] /\ b2[t] = b[t] /\ b2[t - 1] = b[t - 1]
      BY <1>1, <1>2, <3>1, <3>2
    <3> QED BY <1>10, <3>2, <3>3, <3>4
  <2>2. CASE l = last + 1
    <3>1. wide[l].trade = n + 1 /\ l - 1 = last /\ n + 1 - 1 = n /\ row.key = j
      BY <1>7, <1>12, <2>2
    <3>2. q2[l] = b2[n + 1] - s2[n + 1] /\ q2[l] \in Nat
      BY <1>1, <1>5, <1>9, <1>11, <2>2, <3>1
    <3>3. q2[last] = b2[n] - s2[n + 1] /\ q2[last] \in Nat
      BY <1>5, <1>6, <1>10
    <3>4. \A x : x \in Nat => Rest(x) = x
      BY DEF Rest
    <3> QED BY <3>1, <3>2, <3>3, <3>4
  <2> QED BY <1>7, <2>1, <2>2
<1> QED BY <1>11, <1>12 DEF Chain, Available, q2, b2, s2, wide, long

(* A SELL takes from the head of the chain of its key what it sells.       *)
LEMMA SaleChains ==
  ASSUME NEW table, NEW last \in Nat, LotTable(table, last),
         NEW log, NEW n \in Nat, LogTable(log, n),
         \A l \in DOMAIN table : table[l].trade \in DOMAIN log,
         NEW row \in TradeRow, row.action = "SELL",
         row.qty <= Available(Queue(table, row.key), last),
         NEW j, Chain(table, last, log, n, j)
  PROVE  Chain(AfterSale(table, row.key, row.qty), last, Put(log, n + 1, row), n + 1, j)
<1> DEFINE k == row.key
<1> DEFINE qty == row.qty
<1> DEFINE after == AfterSale(table, k, qty)
<1> DEFINE long == Put(log, n + 1, row)
<1> DEFINE q == RunningSum(Queue(table, j))
<1> DEFINE q2 == RunningSum(Queue(after, j))
<1> DEFINE b == Bought(log, j)
<1> DEFINE b2 == Bought(long, j)
<1> DEFINE s == SoldOf(log, j)
<1> DEFINE s2 == SoldOf(long, j)
<1>1. qty \in Nat
  BY LedgerAssumption DEF TradeRow
<1>2. /\ k = j => \A m \in Nat : q2[m] = q[m] - Smaller(qty, q[m])
      /\ k # j => q2 = q
      /\ DOMAIN after = DOMAIN table
      /\ \A l \in DOMAIN table : after[l].key = table[l].key /\ after[l].trade = table[l].trade
  BY <1>1, QueueSold
<1>3. /\ \A m \in 0..n : b2[m] = b[m]
      /\ b2[n + 1] = b[n] + (IF row.key = j /\ row.action = "BUY" THEN row.qty ELSE 0)
  BY QtyGrows DEF Bought
<1>4. s2[n + 1] = s[n] + (IF k = j THEN qty ELSE 0)
  BY QtyGrows DEF SoldOf
<1>5. b \in [Nat -> Nat] /\ s[n] \in Nat /\ n \in Nat
  BY QtyColumn DEF Bought, SoldOf
<1>6. q \in [Nat -> Nat]
  <2>1. Queue(table, j) \in [Nat -> Nat]
    BY LotColumns
  <2> QED BY <2>1, SumNatural
<1>7. /\ q[last] = b[n] - s[n]
      /\ \A l \in DOMAIN table : table[l].key = j =>
           q[l] = Rest(b[table[l].trade] - s[n]) /\ q[l - 1] = Rest(b[table[l].trade - 1] - s[n])
  BY DEF Chain, Available
<1>8. k = j => qty <= q[last]
  BY DEF Available
<1>9. \A l \in DOMAIN table : table[l].trade \in 1..n /\ l \in 1..last
  BY DEF LogTable, LotTable
<1> HIDE DEF k, qty, after, long, q, q2, b, b2, s, s2
<1>10. b2[n + 1] = b[n]
  BY <1>3, <1>5
<1>11. q2[last] = b2[n + 1] - s2[n + 1]
  BY <1>1, <1>2, <1>4, <1>5, <1>6, <1>7, <1>8, <1>10 DEF Smaller
<1>12. ASSUME NEW m \in Nat, NEW t \in 0..n, q[m] = Rest(b[t] - s[n])
       PROVE  q2[m] = Rest(b2[t] - s2[n + 1])
  <2>1. b2[t] = b[t] /\ b[t] \in Nat /\ q[m] \in Nat /\ t \in Nat
    BY <1>3, <1>5, <1>6
  <2>2. CASE k = j
    <3>1. q2[m] = q[m] - Smaller(qty, q[m]) /\ s2[n + 1] = s[n] + qty
      BY <1>2, <1>4, <2>2
    <3> QED BY <1>1, <1>5, <1>12, <2>1, <3>1 DEF Smaller, Rest
  <2>3. CASE k # j
    BY <1>2, <1>4, <1>5, <1>12, <2>1, <2>3
  <2> QED BY <2>2, <2>3
<1>13. ASSUME NEW l \in DOMAIN after, after[l].key = j
       PROVE  /\ q2[l] = Rest(b2[after[l].trade] - s2[n + 1])
              /\ q2[l - 1] = Rest(b2[after[l].trade - 1] - s2[n + 1])
  <2> DEFINE t == table[l].trade
  <2>1. l \in Nat /\ l - 1 \in Nat /\ t \in 0..n /\ t - 1 \in 0..n /\ after[l].trade = t
    BY <1>2, <1>9
  <2>2. q[l] = Rest(b[t] - s[n]) /\ q[l - 1] = Rest(b[t - 1] - s[n])
    BY <1>2, <1>7, <1>13
  <2> HIDE DEF t
  <2>3. q2[l] = Rest(b2[t] - s2[n + 1])
    BY <1>12, <2>1, <2>2
  <2>4. q2[l - 1] = Rest(b2[t - 1] - s2[n + 1])
    BY <1>12, <2>1, <2>2
  <2> QED BY <2>1, <2>3, <2>4
<1> QED BY <1>11, <1>13 DEF Chain, Available, q2, b2, s2, after, long, k, qty

(* A trade id that is drawn and not used changes no chain.                 *)
LEMMA GapChains ==
  ASSUME NEW table, NEW last, NEW log, NEW n \in Nat, LogTable(log, n),
         NEW j, Chain(table, last, log, n, j)
  PROVE  Chain(table, last, log, n + 1, j)
<1>1. Bought(log, j)[n + 1] = Bought(log, j)[n] /\ SoldOf(log, j)[n + 1] = SoldOf(log, j)[n]
  BY QtyColumn DEF Bought, SoldOf
<1> QED BY <1>1 DEF Chain

(* A lot stays what its trade says when the log grows.                     *)
LEMMA LotOfLonger ==
  ASSUME NEW log, NEW id, id \notin DOMAIN log, NEW row, NEW lot, LotOf(lot, log)
  PROVE  LotOf(lot, Put(log, id, row))
<1>1. lot.trade \in DOMAIN log /\ lot.trade # id
  BY DEF LotOf
<1>2. lot.trade \in DOMAIN Put(log, id, row) /\ Put(log, id, row)[lot.trade] = log[lot.trade]
  BY <1>1 DEF Put
<1> QED BY <1>2 DEF LotOf

(* A BUY keeps the chains and adds the lot of its trade.                   *)
LEMMA BuyKeepsChains ==
  ASSUME LedgerInv, ChainInv, NEW k \in Key, NEW date \in Date, NEW qty \in Qty, NEW unit \in Unit,
         RecordBuy(k, date, qty, unit)
  PROVE  ChainInv'
<1> DEFINE row == Trade(k, "BUY", date, qty, unit)
<1> DEFINE lot == NewLot(tradeSeq + 1, k, qty, unit)
<1>1. /\ tradeSeq \in Nat /\ lotSeq \in Nat /\ LogTable(trades, tradeSeq) /\ LotTable(lots, lotSeq)
  BY DEF LedgerInv, TypeOK, LogTable, LotTable
<1>2. /\ tradeSeq' = tradeSeq + 1 /\ lotSeq' = lotSeq + 1
      /\ trades' = Put(trades, tradeSeq + 1, row)
      /\ lots' = Put(lots, lotSeq + 1, lot)
  BY DEF RecordBuy
<1>3. qty \in Nat \ {0} /\ unit \in Nat
  BY LedgerAssumption
<1>4. row \in TradeRow /\ row.key = k /\ row.action = "BUY" /\ row.qty = qty /\ row.unit = unit
  BY DEF Trade, TradeRow
<1>5. /\ lot \in LotRow /\ lot.trade = tradeSeq + 1 /\ lot.key = k /\ lot.original = qty
      /\ lot.remaining = qty /\ lot.cost = unit /\ ~ lot.exhausted
  BY <1>1, <1>3 DEF NewLot, LotRow
<1> HIDE DEF row, lot
<1>6. tradeSeq + 1 \notin DOMAIN trades /\ lotSeq + 1 \notin DOMAIN lots
  BY <1>1 DEF LogTable, LotTable
<1>7. /\ DOMAIN trades' = DOMAIN trades \cup {tradeSeq + 1} /\ trades'[tradeSeq + 1] = row
      /\ DOMAIN lots' = DOMAIN lots \cup {lotSeq + 1} /\ lots'[lotSeq + 1] = lot
      /\ \A l \in DOMAIN lots : lots'[l] = lots[l]
      /\ \A t \in DOMAIN trades : trades'[t] = trades[t]
  BY <1>2, <1>6 DEF Put
<1>8. ASSUME NEW l \in DOMAIN lots' PROVE LotOf(lots'[l], trades')
  <2>1. CASE l \in DOMAIN lots
    <3>1. LotOf(lots[l], trades)
      BY <2>1 DEF ChainInv
    <3> QED BY <1>2, <1>6, <1>7, <2>1, <3>1, LotOfLonger
  <2>2. CASE l = lotSeq + 1
    <3>1. LotOf(lot, trades')
      BY <1>3, <1>4, <1>5, <1>7 DEF LotOf
    <3> QED BY <1>7, <2>2, <3>1
  <2> QED BY <1>7, <2>1, <2>2
<1>9. Listed(lots', trades')
  <2>1. SUFFICES ASSUME NEW t \in DOMAIN trades', trades'[t].action = "BUY"
                 PROVE  \E l \in DOMAIN lots' : lots'[l].trade = t
    BY DEF Listed
  <2>2. CASE t \in DOMAIN trades
    <3>1. PICK l \in DOMAIN lots : lots[l].trade = t
      BY <1>7, <2>1, <2>2 DEF ChainInv, Listed
    <3> QED BY <1>7, <3>1
  <2>3. CASE t = tradeSeq + 1
    BY <1>5, <1>7, <2>3
  <2> QED BY <1>7, <2>2, <2>3
<1>10. ASSUME NEW j \in Key PROVE Chain(lots', lotSeq', trades', tradeSeq', j)
  <2>1. Chain(lots, lotSeq, trades, tradeSeq, j) /\ \A l \in DOMAIN lots : lots[l].trade \in DOMAIN trades
    BY DEF ChainInv, LotOf
  <2>2. Chain(Put(lots, lotSeq + 1, lot), lotSeq + 1, Put(trades, tradeSeq + 1, row), tradeSeq + 1, j)
    BY <1>1, <1>4, <1>5, <2>1, BuyChains
  <2> QED BY <1>2, <2>2
<1> QED BY <1>8, <1>9, <1>10 DEF ChainInv

(* A SELL keeps the chains, and every lot stays the lot of its BUY.        *)
LEMMA SellKeepsChains ==
  ASSUME LedgerInv, ChainInv, NEW k \in Key, NEW date \in Date, NEW qty \in Qty, NEW unit \in Unit,
         RecordSell(k, date, qty, unit)
  PROVE  ChainInv'
<1> DEFINE row == Trade(k, "SELL", date, qty, unit)
<1>1. /\ tradeSeq \in Nat /\ lotSeq \in Nat /\ LogTable(trades, tradeSeq) /\ LotTable(lots, lotSeq)
  BY DEF LedgerInv, TypeOK, LogTable, LotTable
<1>2. /\ tradeSeq' = tradeSeq + 1 /\ lotSeq' = lotSeq
      /\ trades' = Put(trades, tradeSeq + 1, row)
      /\ lots' = AfterSale(lots, k, qty)
      /\ qty <= Available(Queue(lots, k), lotSeq)
  BY DEF RecordSell
<1>3. qty \in Nat
  BY LedgerAssumption
<1>4. row \in TradeRow /\ row.key = k /\ row.action = "SELL" /\ row.qty = qty
  BY DEF Trade, TradeRow
<1> HIDE DEF row
<1>5. tradeSeq + 1 \notin DOMAIN trades
  BY <1>1 DEF LogTable
<1>6. /\ DOMAIN trades' = DOMAIN trades \cup {tradeSeq + 1} /\ trades'[tradeSeq + 1] = row
      /\ \A t \in DOMAIN trades : trades'[t] = trades[t]
  BY <1>2, <1>5 DEF Put
<1>7. /\ DOMAIN lots' = DOMAIN lots
      /\ \A l \in DOMAIN lots :
           /\ lots'[l].key = lots[l].key /\ lots'[l].trade = lots[l].trade
           /\ lots'[l].original = lots[l].original /\ lots'[l].cost = lots[l].cost
           /\ (lots[l].exhausted <=> lots[l].remaining = 0) =>
                (lots'[l].exhausted <=> lots'[l].remaining = 0)
  BY <1>1, <1>2, <1>3, QueueSold
<1>8. ASSUME NEW l \in DOMAIN lots' PROVE LotOf(lots'[l], trades')
  <2>1. LotOf(lots[l], trades') /\ l \in DOMAIN lots
    BY <1>2, <1>5, <1>7, LotOfLonger DEF ChainInv
  <2> QED BY <1>7, <2>1 DEF LotOf
<1>9. Listed(lots', trades')
  <2>1. SUFFICES ASSUME NEW t \in DOMAIN trades', trades'[t].action = "BUY"
                 PROVE  \E l \in DOMAIN lots' : lots'[l].trade = t
    BY DEF Listed
  <2>2. t \in DOMAIN trades
    BY <1>4, <1>6, <2>1
  <2>3. PICK l \in DOMAIN lots : lots[l].trade = t
    BY <1>6, <2>1, <2>2 DEF ChainInv, Listed
  <2> QED BY <1>7, <2>3
<1>10. ASSUME NEW j \in Key PROVE Chain(lots', lotSeq', trades', tradeSeq', j)
  <2>1. Chain(lots, lotSeq, trades, tradeSeq, j) /\ \A l \in DOMAIN lots : lots[l].trade \in DOMAIN trades
    BY DEF ChainInv, LotOf
  <2>2. row.qty <= Available(Queue(lots, row.key), lotSeq)
    BY <1>2, <1>4
  <2>3. Chain(AfterSale(lots, row.key, row.qty), lotSeq, Put(trades, tradeSeq + 1, row), tradeSeq + 1, j)
    BY <1>1, <1>4, <2>1, <2>2, SaleChains
  <2> QED BY <1>2, <1>4, <2>3
<1> QED BY <1>8, <1>9, <1>10 DEF ChainInv

(* The chains of the empty ledger are empty.                               *)
LEMMA InitChains == Init => ChainInv
<1>1. SUFFICES ASSUME Init PROVE ChainInv
  OBVIOUS
<1>2. /\ tradeSeq = 0 /\ lotSeq = 0 /\ DOMAIN trades = {} /\ DOMAIN lots = {}
      /\ LogTable(trades, 0) /\ LotTable(lots, 0)
  BY <1>1 DEF Init, LogTable, LotTable
<1>3. ASSUME NEW k \in Key PROVE Chain(lots, lotSeq, trades, tradeSeq, k)
  <2>1. /\ Queue(lots, k) \in [Nat -> Nat]
        /\ QtyOf(trades, k, "BUY") \in [Nat -> Nat] /\ QtyOf(trades, k, "SELL") \in [Nat -> Nat]
    BY <1>2, LotColumns, QtyColumn
  <2>2. Available(Queue(lots, k), 0) = 0 /\ Bought(trades, k)[0] = 0 /\ SoldOf(trades, k)[0] = 0
    BY <2>1, SumNatural DEF Available, Bought, SoldOf
  <2> QED BY <1>2, <2>2 DEF Chain
<1> QED BY <1>2, <1>3 DEF ChainInv, Listed

(* Every step keeps the chains.                                            *)
LEMMA StepChains == LedgerInv /\ ChainInv /\ [RecordNext]_ledgerVars => ChainInv'
<1>1. SUFFICES ASSUME LedgerInv, ChainInv, [RecordNext]_ledgerVars PROVE ChainInv'
  OBVIOUS
<1>2. CASE RecordNext
  <2>1. PICK k \in Key, qty \in Qty :
          \/ \E date \in Date, unit \in Unit : RecordBuy(k, date, qty, unit)
          \/ \E date \in Date, unit \in Unit : RecordSell(k, date, qty, unit)
          \/ RejectSell(k, qty)
    BY <1>2 DEF RecordNext
  <2>2. CASE \E date \in Date, unit \in Unit : RecordBuy(k, date, qty, unit)
    BY <1>1, <2>2, BuyKeepsChains
  <2>3. CASE \E date \in Date, unit \in Unit : RecordSell(k, date, qty, unit)
    BY <1>1, <2>3, SellKeepsChains
  <2>4. CASE RejectSell(k, qty)
    <3>1. /\ tradeSeq \in Nat /\ tradeSeq' = tradeSeq + 1 /\ LogTable(trades, tradeSeq)
          /\ trades' = trades /\ lots' = lots /\ lotSeq' = lotSeq
      BY <1>1, <2>4 DEF RejectSell, LedgerInv, TypeOK, LogTable
    <3>2. ASSUME NEW j \in Key PROVE Chain(lots, lotSeq, trades, tradeSeq + 1, j)
      <4>1. Chain(lots, lotSeq, trades, tradeSeq, j)
        BY <1>1 DEF ChainInv
      <4>2. tradeSeq \in Nat /\ LogTable(trades, tradeSeq)
        BY <3>1
      <4> QED BY <4>1, <4>2, GapChains
    <3> QED BY <1>1, <3>1, <3>2 DEF ChainInv
  <2> QED BY <2>1, <2>2, <2>3, <2>4
<1>3. CASE UNCHANGED ledgerVars
  BY <1>1, <1>3 DEF ledgerVars, ChainInv
<1> QED BY <1>1, <1>2, <1>3

(* The two ends of a lot in the chain say what is left of its BUY.         *)
LEMMA ChainsTell ==
  ASSUME LedgerInv, ChainInv, NEW l \in DOMAIN lots
  PROVE  lots[l].remaining = LeftAfter(BuyColumn(lots[l].key), Sold(lots[l].key), lots[l].trade)
<1> DEFINE k == lots[l].key
<1> DEFINE t == lots[l].trade
<1> DEFINE q == RunningSum(Queue(lots, k))
<1> DEFINE b == RunningSum(BuyColumn(k))
<1> DEFINE s == Sold(k)
<1>1. /\ tradeSeq \in Nat /\ lotSeq \in Nat /\ LogTable(trades, tradeSeq) /\ LotTable(lots, lotSeq)
  BY DEF LedgerInv, TypeOK, LogTable, LotTable
<1>2. /\ l \in Nat \ {0} /\ k \in Key /\ lots[l].remaining \in Nat
      /\ t \in DOMAIN trades /\ t \in Nat \ {0} /\ trades[t].key = k /\ trades[t].action = "BUY"
      /\ lots[l].exhausted => lots[l].remaining = 0
  <2>1. l \in Nat \ {0} /\ lots[l] \in LotRow /\ LotOf(lots[l], trades)
    BY <1>1 DEF LotTable, ChainInv
  <2>2. t \in DOMAIN trades /\ t \in Nat \ {0}
    BY <1>1, <2>1 DEF LotOf, LogTable
  <2> QED BY <2>1, <2>2 DEF LotOf, LotRow
<1>3. Queue(lots, k)[l] = lots[l].remaining
  BY <1>2 DEF Queue, OpenLots
<1>4. BuyColumn(k) = QtyOf(trades, k, "BUY") /\ SellColumn(k) = QtyOf(trades, k, "SELL")
  BY DEF BuyColumn, SellColumn, QtyOf
<1>5. b = Bought(trades, k) /\ s = SoldOf(trades, k)[tradeSeq]
  BY <1>4 DEF Bought, SoldOf, Sold
<1>6. q[l] = Rest(b[t] - s) /\ q[l - 1] = Rest(b[t - 1] - s)
  BY <1>2, <1>5 DEF ChainInv, Chain
<1>7. q[l] = q[l - 1] + Queue(lots, k)[l] /\ q[l - 1] \in Nat
  <2>1. Queue(lots, k) \in [Nat -> Nat] /\ l - 1 \in Nat /\ l - 1 + 1 = l
    BY <1>1, <1>2, LotColumns
  <2>2. /\ q \in [Nat -> Nat] /\ \A n \in Nat : q[n + 1] = q[n] + Queue(lots, k)[n + 1]
    BY <2>1, SumNatural
  <2> HIDE DEF q
  <2>3. q[l - 1 + 1] = q[l - 1] + Queue(lots, k)[l - 1 + 1]
    BY <2>1, <2>2
  <2> QED BY <2>1, <2>2, <2>3
<1>8. b[t] = b[t - 1] + BuyColumn(k)[t] /\ b[t - 1] \in Nat /\ BuyColumn(k)[t] \in Nat /\ s \in Nat
  <2>1. BuyColumn(k) \in [Nat -> Nat] /\ t - 1 \in Nat /\ t - 1 + 1 = t /\ t \in Nat
    BY <1>1, <1>2, <1>4, QtyColumn
  <2>2. /\ b \in [Nat -> Nat] /\ \A n \in Nat : b[n + 1] = b[n] + BuyColumn(k)[n + 1]
    BY <2>1, SumNatural
  <2>3. s \in Nat
    BY <1>1, <1>5, QtyColumn DEF SoldOf
  <2> HIDE DEF b, t, s
  <2>4. b[t - 1 + 1] = b[t - 1] + BuyColumn(k)[t - 1 + 1]
    BY <2>1, <2>2
  <2> QED BY <2>1, <2>2, <2>3, <2>4
<1>9. LeftAfter(BuyColumn(k), s, t)
        = IF b[t] - s <= 0 THEN 0 ELSE Smaller(b[t] - s, BuyColumn(k)[t])
  BY DEF LeftAfter
<1> DEFINE c == BuyColumn(k)[t]
<1> DEFINE upTo == b[t]
<1> DEFINE before == b[t - 1]
<1> DEFINE head == q[l - 1]
<1> DEFINE left == lots[l].remaining
<1>10. /\ head + left = Rest(upTo - s) /\ head = Rest(before - s) /\ upTo = before + c
       /\ head \in Nat /\ left \in Nat /\ before \in Nat /\ c \in Nat /\ s \in Nat
  BY <1>2, <1>3, <1>6, <1>7, <1>8
<1>11. LeftAfter(BuyColumn(k), s, t) = IF upTo - s <= 0 THEN 0 ELSE Smaller(upTo - s, c)
  BY <1>9
<1> HIDE DEF c, upTo, before, head, left, s, t, k
<1>12. left = IF upTo - s <= 0 THEN 0 ELSE Smaller(upTo - s, c)
  BY <1>10 DEF Rest, Smaller
<1> QED BY <1>11, <1>12 DEF left, s, t, k

(* One lot per BUY, and what is left of it is what a first-in-first-out    *)
(* seller of everything that was sold would have left of that BUY: the     *)
(* lots of record_trade can always be derived from the log.                *)
THEOREM LedgerLotsDerivable == LedgerSpec => []LotsDerivable
<1>1. Init => LedgerInv /\ ChainInv
  BY InitLedger, InitChains
<1>2. LedgerInv /\ ChainInv /\ [RecordNext]_ledgerVars => (LedgerInv /\ ChainInv)'
  BY StepLedger, StepChains
<1>3. LedgerInv /\ ChainInv => LotsDerivable
  <2>1. SUFFICES ASSUME LedgerInv, ChainInv PROVE LotsDerivable
    OBVIOUS
  <2>2. \A t \in DOMAIN trades : trades[t].action = "BUY" => \E l \in DOMAIN lots : lots[l].trade = t
    BY <2>1 DEF ChainInv, Listed
  <2>3. ASSUME NEW l \in DOMAIN lots
        PROVE  /\ LotOf(lots[l], trades)
               /\ lots[l].remaining = LeftAfter(BuyColumn(lots[l].key), Sold(lots[l].key), lots[l].trade)
    BY <2>1, ChainsTell DEF ChainInv
  <2> QED BY <2>2, <2>3 DEF LotsDerivable, LotOf
<1> QED BY <1>1, <1>2, <1>3, PTL DEF LedgerSpec

--------------------------------------------------------------------------------
(* Dividends. *)

BookInv == TypeOK /\ PositionsRollUpLots /\ dividendSeq \in Nat

(* Division without remainder.                                             *)
LEMMA ExactDivision ==
  ASSUME NEW c \in Nat, NEW s \in Nat \ {0}, c % s = 0
  PROVE  c \div s \in Nat /\ s * (c \div s) = c
OBVIOUS

(* Scaling the open lots of k at costs the scale divides leaves what each  *)
(* of them cost in all, and the lots of other keys.                        *)
LEMMA ScaledKeepsBasis ==
  ASSUME NEW table, NEW last \in Nat, LotTable(table, last), NEW k, NEW s \in Nat \ {0},
         \A l \in OpenLots(table, k) : table[l].cost % s = 0
  PROVE  /\ LotTable(Scaled(table, k, s), last)
         /\ Basis(Scaled(table, k, s), k) = Basis(table, k)
         /\ \A j : j # k => /\ OpenLots(table, j) = OpenLots(Scaled(table, k, s), j)
                            /\ \A l \in OpenLots(table, j) : table[l] = Scaled(table, k, s)[l]
<1> DEFINE after == Scaled(table, k, s)
<1>1. after = [l \in DOMAIN table |-> IF l \in OpenLots(table, k)
                 THEN LotScaled(table[l], s) ELSE table[l]]
  BY DEF Scaled
<1> HIDE DEF after
<1>2. ASSUME NEW l \in OpenLots(table, k)
      PROVE  /\ l \in DOMAIN table /\ l \in Nat /\ table[l] \in LotRow /\ table[l].key = k
             /\ ~ table[l].exhausted
             /\ table[l].cost \in Nat /\ table[l].remaining \in Nat
             /\ LotScaled(table[l], s) \in LotRow
  <2>1. l \in DOMAIN table /\ l \in Nat /\ table[l] \in LotRow /\ table[l].key = k /\ ~ table[l].exhausted
    BY DEF LotTable, OpenLots
  <2>2. table[l].cost \in Nat /\ table[l].remaining \in Nat /\ table[l].original \in Nat
    BY <2>1 DEF LotRow
  <2>3. table[l].cost \div s \in Nat
    BY <2>2, ExactDivision
  <2>4. table[l].remaining * s \in Nat /\ table[l].original * s \in Nat
    BY <2>2
  <2>5. LotScaled(table[l], s) \in LotRow
    BY <2>1, <2>3, <2>4 DEF LotScaled, LotRow
  <2> QED BY <2>1, <2>2, <2>5
<1>3. /\ DOMAIN after = DOMAIN table
      /\ \A l \in OpenLots(table, k) : after[l] = LotScaled(table[l], s)
      /\ \A l \in DOMAIN table : l \notin OpenLots(table, k) => after[l] = table[l]
      /\ \A l \in DOMAIN table : after[l] \in LotRow
  <2>1. \A l \in DOMAIN table : table[l] \in LotRow
    BY DEF LotTable
  <2> QED BY <1>1, <1>2, <2>1
<1>4. LotTable(after, last)
  <2>1. after \in [DOMAIN after -> LotRow]
    BY <1>1, <1>3
  <2> QED BY <1>3, <2>1 DEF LotTable
<1>5. ASSUME NEW l \in OpenLots(table, k)
      PROVE  /\ after[l].key = k /\ ~ after[l].exhausted
             /\ after[l].remaining = table[l].remaining * s
             /\ after[l].cost = table[l].cost \div s
  <2>1. after[l] = LotScaled(table[l], s) /\ table[l].key = k /\ ~ table[l].exhausted
    BY <1>2, <1>3
  <2> QED BY <2>1 DEF LotScaled
<1>6. OpenLots(after, k) = OpenLots(table, k)
  BY <1>2, <1>3, <1>5 DEF OpenLots
<1>7. ASSUME NEW l \in Nat PROVE Basis(after, k)[l] = Basis(table, k)[l]
  <2>1. /\ Basis(after, k)[l] = Queue(after, k)[l] * UnitCost(after, k)[l]
        /\ Basis(table, k)[l] = Queue(table, k)[l] * UnitCost(table, k)[l]
    BY DEF Basis
  <2>2. CASE l \in OpenLots(table, k)
    <3> DEFINE r == table[l].remaining
    <3> DEFINE c == table[l].cost
    <3> DEFINE d == table[l].cost \div s
    <3>1. /\ Queue(after, k)[l] = r * s /\ UnitCost(after, k)[l] = d
          /\ Queue(table, k)[l] = r /\ UnitCost(table, k)[l] = c
      BY <1>5, <1>6, <2>2 DEF Queue, UnitCost
    <3>2. c \in Nat /\ r \in Nat /\ c % s = 0
      BY <1>2, <2>2
    <3>3. d \in Nat /\ s * d = c
      BY <3>2, ExactDivision
    <3> HIDE DEF r, c, d
    <3>4. (r * s) * d = r * (s * d)
      BY <3>2, <3>3
    <3> QED BY <2>1, <3>1, <3>3, <3>4
  <2>3. CASE l \notin OpenLots(table, k)
    BY <1>6, <2>1, <2>3 DEF Queue, UnitCost
  <2> QED BY <2>2, <2>3
<1>8. Basis(after, k) = Basis(table, k)
  <2>1. Basis(after, k) \in [Nat -> Nat] /\ Basis(table, k) \in [Nat -> Nat]
    BY <1>4, LotColumns
  <2> QED BY <1>7, <2>1
<1>9. ASSUME NEW j, j # k
      PROVE  /\ OpenLots(table, j) = OpenLots(after, j)
             /\ \A l \in OpenLots(table, j) : table[l] = after[l]
  <2>1. \A l \in OpenLots(table, j) : l \in DOMAIN table /\ l \notin OpenLots(table, k)
    BY <1>9 DEF OpenLots
  <2>2. \A l \in OpenLots(after, j) : l \notin OpenLots(table, k)
    BY <1>5, <1>9 DEF OpenLots
  <2>3. OpenLots(table, j) = OpenLots(after, j)
    BY <1>3, <2>1, <2>2 DEF OpenLots
  <2> QED BY <1>3, <2>1, <2>3
<1> QED BY <1>4, <1>8, <1>9 DEF after

(* A key without open lots holds nothing.                                  *)
LEMMA NothingHeld ==
  ASSUME NEW table, NEW last \in Nat, LotTable(table, last), NEW k, OpenLots(table, k) = {}
  PROVE  Available(Queue(table, k), last) = 0 /\ RunningSum(Basis(table, k))[last] = 0
<1>1. \A i \in Nat : Queue(table, k)[i] = 0 /\ Basis(table, k)[i] = 0
  BY DEF Queue, UnitCost, Basis
<1>2. Queue(table, k) \in [Nat -> Int] /\ Basis(table, k) \in [Nat -> Int]
  <2>1. Queue(table, k) \in [Nat -> Nat] /\ Basis(table, k) \in [Nat -> Nat]
    BY LotColumns
  <2> QED BY <2>1
<1> QED BY <1>1, <1>2, SumZero DEF Available

(* What a position says its shares cost is what its open lots cost.        *)
LEMMA CostRead ==
  ASSUME NEW table, NEW last \in Nat, LotTable(table, last), NEW rows, NEW k,
         IF k \in DOMAIN rows THEN rows[k] = RollUp(table, k, last, rows[k].realized_pnl)
                              ELSE OpenLots(table, k) = {}
  PROVE  CostAt(rows, k) = RunningSum(Basis(table, k))[last]
<1>1. CASE k \in DOMAIN rows
  <2>1. \A r : RollUp(table, k, last, r).total_cost = RunningSum(Basis(table, k))[last]
    BY DEF RollUp
  <2> QED BY <1>1, <2>1 DEF CostAt
<1>2. CASE k \notin DOMAIN rows
  BY <1>2, NothingHeld DEF CostAt
<1> QED BY <1>1, <1>2

(* What DividendsKeepCost asks of one key.                                 *)
Kept(j) ==
  /\ CostAt(positions', j) = CostAt(positions, j)
  /\ RealizedAt(positions', j) = RealizedAt(positions, j) + NewCash(j)

(* A position that rolls up lots of the same cost says the same cost.      *)
LEMMA KeptBySameBasis ==
  ASSUME TypeOK, PositionsRollUpLots, TypeOK', PositionsRollUpLots', NEW j \in Key,
         RunningSum(Basis(lots', j))[lotSeq'] = RunningSum(Basis(lots, j))[lotSeq]
  PROVE  CostAt(positions', j) = CostAt(positions, j)
<1>1. /\ LotTable(lots, lotSeq) /\ lotSeq \in Nat
      /\ IF j \in DOMAIN positions
         THEN positions[j] = RollUp(lots, j, lotSeq, positions[j].realized_pnl)
         ELSE OpenLots(lots, j) = {}
  BY DEF TypeOK, LotTable, PositionsRollUpLots
<1>2. /\ LotTable(lots', lotSeq') /\ lotSeq' \in Nat
      /\ IF j \in DOMAIN positions'
         THEN positions'[j] = RollUp(lots', j, lotSeq', positions'[j].realized_pnl)
         ELSE OpenLots(lots', j) = {}
  BY DEF TypeOK, LotTable, PositionsRollUpLots
<1>3. CostAt(positions, j) = RunningSum(Basis(lots, j))[lotSeq]
  BY <1>1, CostRead
<1>4. CostAt(positions', j) = RunningSum(Basis(lots', j))[lotSeq']
  BY <1>2, CostRead
<1> QED BY <1>3, <1>4

(* The row of a new dividend, read back.                                   *)
LEMMA NewDividend ==
  ASSUME dividendSeq \in Nat, NEW k, NEW kind, NEW net, InsertDividend(k, kind, net), NEW j
  PROVE  /\ dividendSeq' \in Nat
         /\ NewCash(j) = IF j = k THEN net ELSE 0
<1> DEFINE row == [key |-> k, kind |-> kind, net |-> net]
<1>1. dividendSeq' = dividendSeq + 1 /\ dividends' = Put(dividends, dividendSeq', row)
  BY DEF InsertDividend
<1>2. row.key = k /\ row.net = net
  OBVIOUS
<1> HIDE DEF row
<1>3. dividends'[dividendSeq'] = row
  BY <1>1 DEF Put
<1> QED BY <1>1, <1>2, <1>3 DEF NewCash

(* A cash dividend realises its net amount and nothing else.               *)
LEMMA CashKeepsCost ==
  ASSUME BookInv, NEW k \in Key, NEW net \in Net, RecordCash(k, net)
  PROVE  BookInv' /\ \A j \in Key : Kept(j)
<1> DEFINE realized == PriorRealized(k) + net
<1>1. /\ TypeOK /\ PositionsRollUpLots /\ dividendSeq \in Nat
      /\ lotSeq \in Nat /\ LotTable(lots, lotSeq) /\ tradeSeq \in Nat /\ LogTable(trades, tradeSeq)
  BY DEF BookInv, TypeOK, LotTable, LogTable
<1>2. /\ trades' = trades /\ lots' = lots /\ tradeSeq' = tradeSeq /\ lotSeq' = lotSeq
      /\ InsertDividend(k, "CASH", net)
      /\ positions' = Put(positions, k, IF k \in DOMAIN positions
                                        THEN [positions[k] EXCEPT !.realized_pnl = @ + net]
                                        ELSE CashOnlyRow(net))
  BY DEF RecordCash
<1>3. net \in Int /\ PriorRealized(k) \in Int /\ realized \in Int
  <2>1. PriorRealized(k) \in Int
    BY <1>1, PriorType
  <2> QED BY <2>1, DividendAssumption
<1>4. positions' = Put(positions, k, RollUp(lots', k, lotSeq', realized))
  <2>1. CASE k \in DOMAIN positions
    <3>1. positions[k] = RollUp(lots, k, lotSeq, positions[k].realized_pnl)
      BY <1>1, <2>1 DEF PositionsRollUpLots
    <3>2. realized = positions[k].realized_pnl + net
      BY <2>1 DEF PriorRealized
    <3>3. [RollUp(lots, k, lotSeq, positions[k].realized_pnl) EXCEPT !.realized_pnl = @ + net]
            = RollUp(lots, k, lotSeq, positions[k].realized_pnl + net)
      BY DEF RollUp
    <3> QED BY <1>2, <2>1, <3>1, <3>2, <3>3
  <2>2. CASE k \notin DOMAIN positions
    <3>1. OpenLots(lots, k) = {}
      BY <1>1, <2>2 DEF PositionsRollUpLots
    <3>2. Available(Queue(lots, k), lotSeq) = 0 /\ RunningSum(Basis(lots, k))[lotSeq] = 0
      BY <1>1, <3>1, NothingHeld
    <3>3. realized = net
      BY <1>3, <2>2 DEF PriorRealized
    <3>4. CashOnlyRow(net) = RollUp(lots, k, lotSeq, net)
      BY <3>2 DEF CashOnlyRow, RollUp
    <3> QED BY <1>2, <2>2, <3>3, <3>4
  <2> QED BY <2>1, <2>2
<1> HIDE DEF realized
<1>5. /\ TypeOK' /\ PositionsRollUpLots'
      /\ k \in DOMAIN positions' /\ positions'[k].realized_pnl = realized
      /\ \A j : j # k => /\ j \in DOMAIN positions' <=> j \in DOMAIN positions
                         /\ j \in DOMAIN positions => positions'[j] = positions[j]
  <2>1. /\ tradeSeq' \in Nat /\ LogTable(trades', tradeSeq')
        /\ lotSeq' \in Nat /\ LotTable(lots', lotSeq')
    BY <1>1, <1>2
  <2>2. \A j \in Key : j # k =>
           /\ \A r : RollUp(lots', j, lotSeq', r) = RollUp(lots, j, lotSeq, r)
           /\ OpenLots(lots, j) = OpenLots(lots', j)
    BY <1>2
  <2> QED BY <1>1, <1>3, <1>4, <2>1, <2>2, UpsertRolls
<1>6. ASSUME NEW j \in Key PROVE Kept(j)
  <2>1. CostAt(positions', j) = CostAt(positions, j)
    BY <1>1, <1>2, <1>5, KeptBySameBasis
  <2>2. NewCash(j) = IF j = k THEN net ELSE 0
    BY <1>1, <1>2, NewDividend
  <2>3. PriorRealized(j) \in Int
    BY <1>1, PriorType
  <2>4. RealizedAt(positions', j) = RealizedAt(positions, j) + NewCash(j)
    BY <1>5, <2>2, <2>3 DEF RealizedAt, PriorRealized, realized
  <2> QED BY <2>1, <2>4 DEF Kept
<1>7. dividendSeq' \in Nat
  BY <1>1, <1>2, NewDividend
<1> QED BY <1>5, <1>6, <1>7 DEF BookInv

(* A stock dividend changes neither the cost of a position nor what was    *)
(* realised on it.                                                         *)
LEMMA StockKeepsCost ==
  ASSUME BookInv, NEW k \in Key, NEW s \in Scale, RecordStock(k, s)
  PROVE  BookInv' /\ \A j \in Key : Kept(j)
<1> DEFINE realized == PriorRealized(k)
<1>1. /\ TypeOK /\ PositionsRollUpLots /\ dividendSeq \in Nat
      /\ lotSeq \in Nat /\ LotTable(lots, lotSeq) /\ tradeSeq \in Nat /\ LogTable(trades, tradeSeq)
  BY DEF BookInv, TypeOK, LotTable, LogTable
<1>2. /\ trades' = trades /\ tradeSeq' = tradeSeq /\ lotSeq' = lotSeq
      /\ lots' = Scaled(lots, k, s)
      /\ InsertDividend(k, "STOCK", 0)
      /\ positions' = Put(positions, k, RollUp(lots', k, lotSeq', realized))
      /\ \A l \in OpenLots(lots, k) : lots[l].cost % s = 0
  BY DEF RecordStock, ExactScale
<1>3. realized \in Int /\ s \in Nat \ {0}
  <2>1. PriorRealized(k) \in Int
    BY <1>1, PriorType
  <2> QED BY <2>1, DividendAssumption
<1>4. /\ LotTable(lots', lotSeq')
      /\ Basis(lots', k) = Basis(lots, k)
      /\ \A j : j # k => /\ OpenLots(lots, j) = OpenLots(lots', j)
                         /\ \A l \in OpenLots(lots, j) : lots[l] = lots'[l]
  BY <1>1, <1>2, <1>3, ScaledKeepsBasis
<1>5. ASSUME NEW j \in Key, j # k
      PROVE  /\ Basis(lots', j) = Basis(lots, j) /\ Queue(lots', j) = Queue(lots, j)
             /\ OpenLots(lots, j) = OpenLots(lots', j)
  <2>1. OpenLots(lots, j) = OpenLots(lots', j) /\ \A l \in OpenLots(lots, j) : lots[l] = lots'[l]
    BY <1>4, <1>5
  <2> QED BY <2>1, SameColumns
<1>6. /\ TypeOK' /\ PositionsRollUpLots'
      /\ k \in DOMAIN positions' /\ positions'[k].realized_pnl = realized
      /\ \A j : j # k => /\ j \in DOMAIN positions' <=> j \in DOMAIN positions
                         /\ j \in DOMAIN positions => positions'[j] = positions[j]
  <2>1. tradeSeq' \in Nat /\ LogTable(trades', tradeSeq') /\ lotSeq' \in Nat
    BY <1>1, <1>2
  <2>2. \A j \in Key : j # k =>
           /\ \A r : RollUp(lots', j, lotSeq', r) = RollUp(lots, j, lotSeq, r)
           /\ OpenLots(lots, j) = OpenLots(lots', j)
    BY <1>2, <1>5 DEF RollUp
  <2> HIDE DEF realized
  <2> QED BY <1>1, <1>2, <1>3, <1>4, <2>1, <2>2, UpsertRolls
<1>7. ASSUME NEW j \in Key PROVE Kept(j)
  <2>1. Basis(lots', j) = Basis(lots, j)
    BY <1>4, <1>5
  <2>2. CostAt(positions', j) = CostAt(positions, j)
    BY <1>1, <1>2, <1>6, <2>1, KeptBySameBasis
  <2>3. NewCash(j) = 0
    BY <1>1, <1>2, NewDividend
  <2>4. PriorRealized(j) \in Int
    BY <1>1, PriorType
  <2>5. RealizedAt(positions', j) = RealizedAt(positions, j) + NewCash(j)
    BY <1>6, <2>3, <2>4 DEF RealizedAt, PriorRealized
  <2> QED BY <2>2, <2>5 DEF Kept
<1>8. dividendSeq' \in Nat
  BY <1>1, <1>2, NewDividend
<1> QED BY <1>6, <1>7, <1>8 DEF BookInv

(* A trade keeps types and roll-ups, whatever dividends were paid before.  *)
LEMMA TradeKeepsBooks ==
  ASSUME TypeOK, PositionsRollUpLots, RecordNext
  PROVE  TypeOK' /\ PositionsRollUpLots' /\ tradeSeq' # tradeSeq
<1>1. PICK k \in Key, qty \in Qty :
        \/ \E date \in Date, unit \in Unit : RecordBuy(k, date, qty, unit)
        \/ \E date \in Date, unit \in Unit : RecordSell(k, date, qty, unit)
        \/ RejectSell(k, qty)
  BY DEF RecordNext
<1>2. tradeSeq \in Nat /\ tradeSeq' = tradeSeq + 1
  BY <1>1 DEF TypeOK, RecordBuy, RecordSell, RejectSell
<1>3. CASE \E date \in Date, unit \in Unit : RecordBuy(k, date, qty, unit)
  <2>1. PICK date \in Date, unit \in Unit : RecordBuy(k, date, qty, unit)
    BY <1>3
  <2>2. /\ positions' = Put(positions, k, RollUp(lots', k, lotSeq', PriorRealized(k)))
        /\ PriorRealized(k) \in Int
        /\ tradeSeq' \in Nat /\ LogTable(trades', tradeSeq')
        /\ lotSeq' \in Nat /\ LotTable(lots', lotSeq')
        /\ \A j \in Key : j # k =>
             /\ \A r : RollUp(lots', j, lotSeq', r) = RollUp(lots, j, lotSeq, r)
             /\ OpenLots(lots, j) = OpenLots(lots', j)
    BY <2>1, BuyEffects
  <2>3. TypeOK' /\ PositionsRollUpLots'
    BY <2>2, UpsertRolls
  <2> QED BY <1>2, <2>3
<1>4. CASE \E date \in Date, unit \in Unit : RecordSell(k, date, qty, unit)
  <2>1. PICK date \in Date, unit \in Unit : RecordSell(k, date, qty, unit)
    BY <1>4
  <2> DEFINE worth == qty * unit
  <2>2. PICK cost \in Nat :
        /\ positions' = Put(positions, k, RollUp(lots', k, lotSeq', PriorRealized(k) + (worth - cost)))
        /\ PriorRealized(k) \in Int /\ worth \in Int
        /\ tradeSeq' \in Nat /\ LogTable(trades', tradeSeq')
        /\ lotSeq' \in Nat /\ LotTable(lots', lotSeq')
        /\ \A j \in Key : j # k =>
             /\ \A r : RollUp(lots', j, lotSeq', r) = RollUp(lots, j, lotSeq, r)
             /\ OpenLots(lots, j) = OpenLots(lots', j)
    BY <2>1, SellEffects
  <2> HIDE DEF worth
  <2>3. PriorRealized(k) + (worth - cost) \in Int
    BY <2>2
  <2>4. TypeOK' /\ PositionsRollUpLots'
    BY <2>2, <2>3, UpsertRolls
  <2> QED BY <1>2, <2>4
<1>5. CASE RejectSell(k, qty)
  <2>1. trades' = trades /\ lots' = lots /\ positions' = positions /\ lotSeq' = lotSeq
    BY <1>5 DEF RejectSell
  <2>2. 1..tradeSeq \subseteq 1..tradeSeq'
    BY <1>2
  <2> QED BY <1>2, <2>1, <2>2 DEF TypeOK, PositionsRollUpLots
<1> QED BY <1>1, <1>3, <1>4, <1>5

(* Every step keeps the books, and one that is no trade keeps the costs.   *)
LEMMA StepBooks ==
  BookInv /\ [NextWithDividends]_allVars
    => BookInv' /\ (UNCHANGED <<trades, tradeSeq>> => \A k \in Key : Kept(k))
<1>1. SUFFICES ASSUME BookInv, [NextWithDividends]_allVars
               PROVE  BookInv' /\ (UNCHANGED <<trades, tradeSeq>> => \A k \in Key : Kept(k))
  OBVIOUS
<1>2. CASE RecordNext /\ UNCHANGED dividendVars
  <2>1. TypeOK' /\ PositionsRollUpLots' /\ tradeSeq' # tradeSeq
    BY <1>1, <1>2, TradeKeepsBooks DEF BookInv
  <2>2. dividendSeq' \in Nat
    BY <1>1, <1>2 DEF BookInv, dividendVars
  <2> QED BY <2>1, <2>2 DEF BookInv
<1>3. CASE \E k \in Key : \E net \in Net : RecordCash(k, net)
  BY <1>1, <1>3, CashKeepsCost
<1>4. CASE \E k \in Key : \E s \in Scale : RecordStock(k, s)
  BY <1>1, <1>4, StockKeepsCost
<1>5. ASSUME UNCHANGED <<ledgerVars, dividendSeq>>
      PROVE  BookInv' /\ \A k \in Key : Kept(k)
  <2>1. /\ trades' = trades /\ lots' = lots /\ positions' = positions
        /\ tradeSeq' = tradeSeq /\ lotSeq' = lotSeq /\ dividendSeq' = dividendSeq
    BY <1>5 DEF ledgerVars
  <2>2. BookInv'
    BY <1>1, <2>1 DEF BookInv, TypeOK, PositionsRollUpLots
  <2>3. ASSUME NEW k \in Key PROVE Kept(k)
    <3>1. PriorRealized(k) \in Int /\ RealizedAt(positions, k) = PriorRealized(k)
      BY <1>1, PriorType DEF BookInv, RealizedAt, PriorRealized
    <3> QED BY <2>1, <3>1 DEF Kept, NewCash
  <2> QED BY <2>2, <2>3
<1>6. CASE \E d \in DOMAIN dividends : \E net \in Net : UpdateDividend(d, net)
  BY <1>5, <1>6 DEF UpdateDividend
<1>7. CASE \E d \in DOMAIN dividends : DeleteDividend(d)
  BY <1>5, <1>7 DEF DeleteDividend
<1>8. CASE UNCHANGED allVars
  BY <1>5, <1>8 DEF allVars, dividendVars
<1> QED BY <1>1, <1>2, <1>3, <1>4, <1>6, <1>7, <1>8 DEF NextWithDividends, DividendNext

(* The empty books.                                                        *)
LEMMA InitBooks == InitDividends => BookInv
<1>1. InitDividends => LedgerInv /\ dividendSeq \in Nat
  BY InitLedger DEF InitDividends
<1> QED BY <1>1 DEF BookInv, LedgerInv

(* With dividends paid, corrected and deleted between the trades, every    *)
(* position stays the roll-up of its open lots.                            *)
THEOREM DividendsRollUp == DividendSpec => []PositionsRollUpLots
<1>1. BookInv => PositionsRollUpLots
  BY DEF BookInv
<1>2. BookInv /\ [NextWithDividends]_allVars => BookInv'
  BY StepBooks
<1> QED BY <1>1, <1>2, InitBooks, PTL DEF DividendSpec

(* Dividends and their corrections move no cost into or out of a position, *)
(* and realise exactly the cash they pay, whatever trades and dividends    *)
(* came before.                                                            *)
THEOREM DividendsMoveNoCost == DividendSpec => DividendsKeepCost
<1>1. BookInv /\ [NextWithDividends]_allVars => BookInv'
  BY StepBooks
<1>2. BookInv /\ [NextWithDividends]_allVars
        => [UNCHANGED <<trades, tradeSeq>> =>
              \A k \in Key :
                /\ CostAt(positions', k) = CostAt(positions, k)
                /\ RealizedAt(positions', k) = RealizedAt(positions, k) + NewCash(k)]_allVars
  BY StepBooks DEF Kept
<1> QED BY <1>1, <1>2, InitBooks, PTL DEF DividendSpec, DividendsKeepCost

--------------------------------------------------------------------------------
(* The shares of a queue.                                                  *)

(* Every share lies in one lot: the one it is counted in.                  *)
LEMMA ShareInLot ==
  ASSUME NEW q \in [Nat -> Nat], NEW last \in Nat, NEW i \in 1..Available(q, last)
  PROVE  \E l \in 1..last : Available(q, l - 1) < i /\ i <= Available(q, l)
<1> DEFINE T == {n \in Nat : i <= RunningSum(q)[n]}
<1>1. /\ RunningSum(q) \in [Nat -> Nat] /\ RunningSum(q)[0] = 0
  BY SumNatural
<1>2. i \in Nat /\ i > 0 /\ last \in T
  BY <1>1 DEF Available
<1>3. PICK n \in T : \A m \in T : n <= m
  <2>1. T \in SUBSET Nat /\ T # {}
    BY <1>2
  <2> QED BY <2>1, LeastNat
<1>4. n \in Nat /\ n # 0 /\ i <= RunningSum(q)[n]
  BY <1>1, <1>2, <1>3
<1>5. n - 1 \in Nat /\ n - 1 \notin T
  BY <1>3, <1>4
<1>6. RunningSum(q)[n - 1] < i
  BY <1>1, <1>2, <1>5
<1>7. n \in 1..last
  BY <1>2, <1>3, <1>4
<1> QED BY <1>4, <1>6, <1>7 DEF Available

(* No two lots hold the same share.                                        *)
LEMMA LotAtIs ==
  ASSUME NEW q \in [Nat -> Nat], NEW last \in Nat, NEW l \in 1..last,
         NEW i \in Nat, Available(q, l - 1) < i, i <= Available(q, l)
  PROVE  LotAt(q, last, i) = l
<1>1. /\ RunningSum(q) \in [Nat -> Nat]
      /\ \A m, n \in Nat : m <= n => RunningSum(q)[m] <= RunningSum(q)[n]
  BY SumNatural
<1>2. ASSUME NEW m \in 1..last, Available(q, m - 1) < i, i <= Available(q, m) PROVE m = l
  <2>1. m \in Nat /\ m - 1 \in Nat /\ l \in Nat /\ l - 1 \in Nat
    OBVIOUS
  <2>2. CASE m < l
    <3>1. m <= l - 1
      BY <2>1, <2>2
    <3>2. RunningSum(q)[m] <= RunningSum(q)[l - 1]
      BY <1>1, <2>1, <3>1
    <3> QED BY <1>1, <1>2, <2>1, <3>2 DEF Available
  <2>3. CASE l < m
    <3>1. l <= m - 1
      BY <2>1, <2>3
    <3>2. RunningSum(q)[l] <= RunningSum(q)[m - 1]
      BY <1>1, <2>1, <3>1
    <3> QED BY <1>1, <1>2, <2>1, <3>2 DEF Available
  <2> QED BY <2>1, <2>2, <2>3
<1> QED BY <1>2 DEF LotAt

(* Each share costs what its lot costs.                                    *)
LEMMA SharesAre ==
  ASSUME NEW q \in [Nat -> Nat], NEW c \in [Nat -> Nat], NEW last \in Nat
  PROVE  /\ Available(q, last) \in Nat
         /\ SharesIn(q, c, last) \in [1..Available(q, last) -> Nat]
         /\ \A l \in 1..last : \A i \in Nat :
              Available(q, l - 1) < i /\ i <= Available(q, l) => SharesIn(q, c, last)[i] = c[l]
<1>1. /\ RunningSum(q) \in [Nat -> Nat]
      /\ \A m, n \in Nat : m <= n => RunningSum(q)[m] <= RunningSum(q)[n]
  BY SumNatural
<1>2. Available(q, last) \in Nat
  BY <1>1 DEF Available
<1>3. ASSUME NEW l \in 1..last, NEW i \in Nat, Available(q, l - 1) < i, i <= Available(q, l)
      PROVE  SharesIn(q, c, last)[i] = c[l]
  <2>1. l \in Nat /\ l - 1 \in Nat /\ l <= last
    OBVIOUS
  <2>2. i \in 1..Available(q, last)
    BY <1>1, <1>3, <2>1 DEF Available
  <2>3. LotAt(q, last, i) = l
    BY <1>3, LotAtIs
  <2> QED BY <2>2, <2>3 DEF SharesIn
<1>4. ASSUME NEW i \in 1..Available(q, last) PROVE SharesIn(q, c, last)[i] \in Nat
  <2>1. PICK l \in 1..last : Available(q, l - 1) < i /\ i <= Available(q, l)
    BY ShareInLot
  <2>2. SharesIn(q, c, last)[i] = c[l]
    BY <1>3, <2>1
  <2> QED BY <2>2
<1>5. SharesIn(q, c, last) \in [1..Available(q, last) -> Nat]
  BY <1>4 DEF SharesIn
<1> QED BY <1>2, <1>3, <1>5

(* A column with one entry up to a place sums to that entry there.         *)
LEMMA SumSingle ==
  ASSUME NEW f \in [Nat -> Int], NEW n \in Nat, NEW l \in 1..n,
         \A i \in 1..n : i # l => f[i] = 0
  PROVE  RunningSum(f)[n] = f[l]
<1> DEFINE T == {m \in Nat : m <= n => RunningSum(f)[m] = IF m < l THEN 0 ELSE f[l]}
<1>1. /\ RunningSum(f) \in [Nat -> Int] /\ RunningSum(f)[0] = 0
      /\ \A m \in Nat : RunningSum(f)[m + 1] = RunningSum(f)[m] + f[m + 1]
  BY RunningSumDef
<1>2. 0 \in T
  BY <1>1
<1>3. ASSUME NEW m \in Nat, m \in T PROVE m + 1 \in T
  <2>1. SUFFICES ASSUME m + 1 <= n
                 PROVE  RunningSum(f)[m + 1] = IF m + 1 < l THEN 0 ELSE f[l]
    OBVIOUS
  <2>2. RunningSum(f)[m] = IF m < l THEN 0 ELSE f[l]
    BY <1>3, <2>1
  <2>3. RunningSum(f)[m + 1] = RunningSum(f)[m] + f[m + 1]
    BY <1>1
  <2>4. m + 1 # l => f[m + 1] = 0
    BY <2>1
  <2>5. f[l] \in Int /\ f[m + 1] \in Int
    OBVIOUS
  <2> QED BY <2>2, <2>3, <2>4, <2>5
<1>4. Nat \subseteq T
  <2> HIDE DEF T
  <2> QED BY <1>2, <1>3, SetInduction
<1> QED BY <1>4

(* A sale of one share more takes one share more, from the lot it lies in. *)
LEMMA OneShareMore ==
  ASSUME NEW q \in [Nat -> Nat], NEW last \in Nat, NEW n \in Nat, NEW l \in 1..last,
         Available(q, l - 1) < n + 1, n + 1 <= Available(q, l)
  PROVE  \A i \in 1..last :
           Consumed(q, n + 1)[i] = Consumed(q, n)[i] + (IF i = l THEN 1 ELSE 0)
<1> DEFINE s == RunningSum(q)
<1>1. /\ s \in [Nat -> Nat]
      /\ \A m \in Nat : s[m + 1] = s[m] + q[m + 1]
      /\ \A m, k \in Nat : m <= k => s[m] <= s[k]
  BY SumNatural
<1>2. l \in Nat /\ l - 1 \in Nat /\ s[l - 1] < n + 1 /\ n + 1 <= s[l]
  BY DEF Available
<1> HIDE DEF s
<1>3. ASSUME NEW i \in 1..last
      PROVE  Consumed(q, n + 1)[i] = Consumed(q, n)[i] + (IF i = l THEN 1 ELSE 0)
  <2>1. i \in Nat /\ i - 1 \in Nat /\ i - 1 + 1 = i
    OBVIOUS
  <2>2. s[i] = s[i - 1] + q[i] /\ s[i] \in Nat /\ s[i - 1] \in Nat /\ q[i] \in Nat
    BY <1>1, <2>1
  <2> DEFINE left(m) == m - (s[i] - q[i])
  <2>3. \A m : Consumed(q, m)[i] = IF left(m) <= 0 THEN 0 ELSE Smaller(left(m), q[i])
    BY <2>1 DEF Consumed, s
  <2>4. left(n) = n - s[i - 1] /\ left(n + 1) = n + 1 - s[i - 1]
    BY <2>2
  <2> HIDE DEF left
  <2>5. CASE i = l
    BY <1>2, <2>2, <2>3, <2>4, <2>5 DEF Smaller
  <2>6. CASE i < l
    <3>1. s[i] <= s[l - 1]
      BY <1>1, <1>2, <2>1, <2>6
    <3>2. s[l - 1] \in Nat /\ s[l - 1] <= n
      BY <1>1, <1>2
    <3>3. q[i] <= left(n) /\ q[i] <= left(n + 1) /\ left(n + 1) = left(n) + 1 /\ left(n) \in Nat
      BY <2>2, <2>4, <3>1, <3>2
    <3>4. Consumed(q, n)[i] = q[i]
      BY <2>2, <2>3, <3>3 DEF Smaller
    <3>5. Consumed(q, n + 1)[i] = q[i]
      BY <2>2, <2>3, <3>3 DEF Smaller
    <3> QED BY <2>2, <2>6, <3>4, <3>5
  <2>7. CASE l < i
    <3>1. s[l] <= s[i - 1]
      BY <1>1, <1>2, <2>1, <2>7
    <3>2. s[l] \in Nat
      BY <1>1, <1>2
    <3> QED BY <1>2, <2>2, <2>3, <2>4, <2>7, <3>1, <3>2 DEF Smaller
  <2> QED BY <1>2, <2>1, <2>5, <2>6, <2>7
<1> QED BY <1>3

(* A column of what the shares of a queue cost, share by share.            *)
CostColumn(q, c, last, col) ==
  /\ q \in [Nat -> Nat] /\ c \in [Nat -> Nat] /\ last \in Nat /\ col \in [Nat -> Nat]
  /\ \A i \in Nat : col[i] = IF i \in 1..Available(q, last) THEN SharesIn(q, c, last)[i] ELSE 0

(* The first n shares cost what a sale of n shares takes from the books.   *)
LEMMA FirstSharesCost ==
  ASSUME NEW q, NEW c, NEW last, NEW col, CostColumn(q, c, last, col)
  PROVE  \A n \in Nat : n <= Available(q, last) => CostOfSale(q, c, n, last) = RunningSum(col)[n]
<1> SUFFICES ASSUME q \in [Nat -> Nat], c \in [Nat -> Nat], last \in Nat, col \in [Nat -> Nat],
                    \A i \in Nat : col[i] = IF i \in 1..Available(q, last)
                                           THEN SharesIn(q, c, last)[i] ELSE 0
             PROVE  \A n \in Nat : n <= Available(q, last) =>
                      CostOfSale(q, c, n, last) = RunningSum(col)[n]
  BY DEF CostColumn
<1> DEFINE total == Available(q, last)
<1> DEFINE part(n) == [i \in Nat |-> Consumed(q, n)[i] * c[i]]
<1> DEFINE T == {n \in Nat : n <= total => RunningSum(part(n))[last] = RunningSum(col)[n]}
<1>1. /\ total \in Nat /\ SharesIn(q, c, last) \in [1..total -> Nat]
      /\ \A l \in 1..last : \A i \in Nat :
           Available(q, l - 1) < i /\ i <= Available(q, l) => SharesIn(q, c, last)[i] = c[l]
  BY ONLY q \in [Nat -> Nat], c \in [Nat -> Nat], last \in Nat, SharesAre, ZenonT(30)
<1>2. ASSUME NEW n \in Nat PROVE part(n) \in [Nat -> Int] /\ part(n) \in [Nat -> Nat]
  <2>1. Consumed(q, n) \in [Nat -> Nat]
    BY ConsumedBounds
  <2>2. \A i \in Nat : Consumed(q, n)[i] * c[i] \in Nat
    BY <2>1
  <2> QED BY <2>2
<1>3. /\ RunningSum(col)[0] = 0
      /\ \A n \in Nat : RunningSum(col)[n + 1] = RunningSum(col)[n] + col[n + 1]
      /\ RunningSum(col) \in [Nat -> Nat]
  BY SumNatural
<1>4. 0 \in T
  <2>1. \A i \in 1..last : part(0)[i] = 0
    <3>1. ASSUME NEW i \in 1..last PROVE part(0)[i] = 0
      <4> DEFINE s == RunningSum(q)
      <4>1. s \in [Nat -> Nat] /\ \A m \in Nat : s[m + 1] = s[m] + q[m + 1]
        BY SumNatural
      <4>2. i \in Nat /\ i - 1 \in Nat /\ i - 1 + 1 = i
        OBVIOUS
      <4> HIDE DEF s
      <4>3. s[i] = s[i - 1] + q[i] /\ s[i - 1] \in Nat /\ q[i] \in Nat
        BY <4>1, <4>2
      <4>4. 0 - (s[i] - q[i]) <= 0
        BY <4>3
      <4>5. Consumed(q, 0)[i] = 0
        BY <4>2, <4>4 DEF Consumed, s
      <4>6. c[i] \in Nat /\ part(0)[i] = Consumed(q, 0)[i] * c[i]
        BY <4>2
      <4> QED BY <4>5, <4>6
    <3> QED BY <3>1
  <2>2. part(0) \in [Nat -> Int]
    BY <1>2
  <2> DEFINE none == [i \in Nat |-> 0]
  <2>3. none \in [Nat -> Int] /\ \A i \in Nat : none[i] = 0
    OBVIOUS
  <2> HIDE DEF none, part
  <2>4. RunningSum(none)[last] = 0
    BY <2>3, SumZero
  <2>5. RunningSum(part(0))[last] = RunningSum(none)[last]
    <3>1. \A i \in 1..last : part(0)[i] = none[i]
      BY <2>1, <2>3
    <3> QED BY <2>2, <2>3, <3>1, SumEqual
  <2> QED BY <1>3, <2>4, <2>5
<1>5. ASSUME NEW n \in Nat, n \in T PROVE n + 1 \in T
  <2>1. SUFFICES ASSUME n + 1 <= total
                 PROVE  RunningSum(part(n + 1))[last] = RunningSum(col)[n + 1]
    OBVIOUS
  <2>2. n <= total /\ n + 1 \in Nat /\ n + 1 \in 1..total
    BY <1>1, <2>1
  <2>3. RunningSum(part(n))[last] = RunningSum(col)[n]
    BY <1>5, <2>2
  <2>4. PICK l \in 1..last : Available(q, l - 1) < n + 1 /\ n + 1 <= Available(q, l)
    BY <2>2, ShareInLot
  <2>5. col[n + 1] = c[l]
    BY <1>1, <2>2, <2>4
  <2> DEFINE now == part(n)
  <2> DEFINE then == part(n + 1)
  <2> DEFINE step == [i \in Nat |-> then[i] - now[i]]
  <2>6. /\ now \in [Nat -> Int] /\ then \in [Nat -> Int]
        /\ now \in [Nat -> Nat] /\ then \in [Nat -> Nat]
    BY <1>2, <2>2
  <2>7. \A i \in 1..last : Consumed(q, n + 1)[i] = Consumed(q, n)[i] + (IF i = l THEN 1 ELSE 0)
    BY ONLY q \in [Nat -> Nat], last \in Nat, n \in Nat, l \in 1..last, <2>4, OneShareMore, ZenonT(40)
  <2>8. Consumed(q, n) \in [Nat -> Nat]
    BY ConsumedBounds
  <2>9. ASSUME NEW i \in 1..last PROVE then[i] - now[i] = IF i = l THEN c[l] ELSE 0
    <3> DEFINE t == Consumed(q, n)[i]
    <3>1. i \in Nat /\ c[i] \in Nat /\ t \in Nat
      BY <2>8
    <3>2. now[i] = t * c[i] /\ then[i] = Consumed(q, n + 1)[i] * c[i]
      BY <3>1
    <3>3. Consumed(q, n + 1)[i] = t + (IF i = l THEN 1 ELSE 0)
      BY <2>7
    <3>4. now[i] \in Nat
      BY <2>6, <3>1
    <3> HIDE DEF t, now, then
    <3>5. CASE i = l
      <4>1. (t + 1) * c[i] = t * c[i] + c[i]
        BY <3>1
      <4>2. then[i] = now[i] + c[i]
        BY <3>2, <3>3, <3>5, <4>1
      <4> QED BY <3>1, <3>4, <3>5, <4>2
    <3>6. CASE i # l
      <4>1. Consumed(q, n + 1)[i] = t
        BY <3>1, <3>3, <3>6
      <4>2. then[i] = now[i]
        BY <3>2, <4>1
      <4> QED BY <3>4, <3>6, <4>2
    <3> QED BY <3>5, <3>6
  <2>10. RunningSum(then)[last] \in Nat /\ RunningSum(now)[last] \in Nat
    <3> HIDE DEF now, then
    <3> QED BY <2>6, SumNatural, ZenonT(40)
  <2>11. /\ RunningSum(step)[last] = RunningSum(then)[last] - RunningSum(now)[last]
         /\ RunningSum(step)[last] = c[l]
    <3> HIDE DEF now, then
    <3>1. step \in [Nat -> Int] /\ \A i \in Nat : step[i] = then[i] - now[i]
      BY <2>6
    <3>2. step[l] = c[l] /\ \A i \in 1..last : i # l => step[i] = 0
      BY <2>9, <3>1
    <3> HIDE DEF step
    <3>3. RunningSum(step)[last] = RunningSum(then)[last] - RunningSum(now)[last]
      <4>1. then \in [Nat -> Int] /\ now \in [Nat -> Int] /\ step \in [Nat -> Int]
        BY <2>6, <3>1
      <4>2. \A m \in Nat : RunningSum(step)[m] = RunningSum(then)[m] - RunningSum(now)[m]
        BY ONLY <3>1, <4>1, SumDifference
      <4> QED BY <4>2
    <3>4. RunningSum(step)[last] = step[l]
      BY <3>1, <3>2, SumSingle, ZenonT(40)
    <3> QED BY <3>2, <3>3, <3>4
  <2>12. RunningSum(now)[last] = RunningSum(col)[n]
    BY <2>3
  <2> HIDE DEF now, then, step
  <2>13. RunningSum(then)[last] = RunningSum(now)[last] + c[l]
    BY <2>10, <2>11
  <2>14. RunningSum(then)[last] = RunningSum(col)[n + 1]
    BY <1>3, <2>5, <2>12, <2>13
  <2> QED BY <2>14 DEF then
<1>6. Nat \subseteq T
  <2> HIDE DEF T
  <2> QED BY <1>4, <1>5, SetInduction
<1>7. ASSUME NEW n \in Nat, n <= total
      PROVE  CostOfSale(q, c, n, last) = RunningSum(col)[n]
  <2>1. RunningSum(part(n))[last] = RunningSum(col)[n]
    BY <1>6, <1>7
  <2> QED BY <2>1 DEF CostOfSale
<1> QED BY <1>7

(* The columns p and d are what a sale of n shares leaves of q and c.      *)
SoldColumns(q, c, last, n, p, d) ==
  /\ q \in [Nat -> Nat] /\ c \in [Nat -> Nat] /\ last \in Nat
  /\ p \in [Nat -> Nat] /\ d \in [Nat -> Nat]
  /\ n \in Nat /\ n <= Available(q, last)
  /\ \A m \in Nat : Available(p, m) = Available(q, m) - Smaller(n, Available(q, m))
  /\ \A l \in 1..last : p[l] > 0 => d[l] = c[l]

(* After a sale of n shares, share i is what share i + n was.              *)
LEMMA SharesSold ==
  ASSUME NEW q, NEW c, NEW last, NEW n, NEW p, NEW d, SoldColumns(q, c, last, n, p, d)
  PROVE  /\ DOMAIN SharesIn(p, d, last) = 1..(Available(q, last) - n)
         /\ \A i \in 1..(Available(q, last) - n) :
              SharesIn(p, d, last)[i] = SharesIn(q, c, last)[i + n]
<1> SUFFICES ASSUME q \in [Nat -> Nat], c \in [Nat -> Nat], last \in Nat,
                    p \in [Nat -> Nat], d \in [Nat -> Nat], n \in Nat, n <= Available(q, last),
                    \A m \in Nat : Available(p, m) = Available(q, m) - Smaller(n, Available(q, m)),
                    \A l \in 1..last : p[l] > 0 => d[l] = c[l]
             PROVE  /\ DOMAIN SharesIn(p, d, last) = 1..(Available(q, last) - n)
                    /\ \A i \in 1..(Available(q, last) - n) :
                         SharesIn(p, d, last)[i] = SharesIn(q, c, last)[i + n]
  BY DEF SoldColumns
<1> DEFINE list == [i \in 1..(Available(q, last) - n) |-> SharesIn(q, c, last)[i + n]]
<1>0. \A l \in 1..last : \A i \in Nat :
        Available(q, l - 1) < i /\ i <= Available(q, l) => SharesIn(q, c, last)[i] = c[l]
  BY ONLY q \in [Nat -> Nat], c \in [Nat -> Nat], last \in Nat, SharesAre, ZenonT(30)
<1>1. \A m \in Nat : Available(q, m) \in Nat
  <2>1. RunningSum(q) \in [Nat -> Nat]
    BY SumNatural
  <2> QED BY <2>1 DEF Available
<1>2. DOMAIN list = 1..Available(p, last)
  BY <1>1 DEF Smaller
<1>3. ASSUME NEW l \in 1..last, NEW i \in Nat, Available(p, l - 1) < i, i <= Available(p, l)
      PROVE  list[i] = d[l]
  <2>1. l \in Nat /\ l - 1 \in Nat /\ l - 1 + 1 = l
    OBVIOUS
  <2>2. /\ Available(p, l) = Available(q, l) - Smaller(n, Available(q, l)) /\ Available(q, l) \in Nat
        /\ Available(p, l - 1) = Available(q, l - 1) - Smaller(n, Available(q, l - 1))
        /\ Available(q, l - 1) \in Nat
    BY <1>1, <2>1
  <2>3. /\ Available(p, l) = Available(p, l - 1) + p[l]
        /\ Available(p, l) \in Nat /\ Available(p, l - 1) \in Nat
        /\ Available(p, l) <= Available(p, last)
    <3>1. /\ RunningSum(p) \in [Nat -> Nat]
          /\ \A m \in Nat : RunningSum(p)[m + 1] = RunningSum(p)[m] + p[m + 1]
          /\ \A m, k \in Nat : m <= k => RunningSum(p)[m] <= RunningSum(p)[k]
      BY SumNatural
    <3>2. l <= last
      OBVIOUS
    <3> QED BY <2>1, <3>1, <3>2 DEF Available
  <2>4. d[l] = c[l]
    <3>1. p[l] \in Nat
      BY <2>1
    <3>2. p[l] > 0
      BY <1>3, <2>3, <3>1
    <3> QED BY <3>2
  <2>5. Available(q, l - 1) < i + n /\ i + n <= Available(q, l) /\ i + n \in Nat
    BY <1>3, <2>2 DEF Smaller
  <2>6. SharesIn(q, c, last)[i + n] = c[l]
    BY <1>0, <2>5
  <2>7. i \in 1..(Available(q, last) - n)
    <3>1. i \in 1..Available(p, last)
      <4>1. Available(p, last) \in Nat
        BY <1>1 DEF Smaller
      <4>2. 1 <= i /\ i <= Available(p, last)
        BY <1>3, <2>3, <4>1
      <4> QED BY <4>1, <4>2
    <3>2. DOMAIN list = 1..(Available(q, last) - n)
      OBVIOUS
    <3> QED BY <1>2, <3>1, <3>2
  <2> QED BY <2>4, <2>6, <2>7
<1>4. /\ SharesIn(p, d, last) \in [1..Available(p, last) -> Nat]
      /\ Available(p, last) \in Nat
      /\ \A l \in 1..last : \A i \in Nat :
           Available(p, l - 1) < i /\ i <= Available(p, l) => SharesIn(p, d, last)[i] = d[l]
  BY ONLY p \in [Nat -> Nat], d \in [Nat -> Nat], last \in Nat, SharesAre, ZenonT(30)
<1>5. ASSUME NEW i \in 1..Available(p, last) PROVE SharesIn(p, d, last)[i] = list[i]
  <2>1. PICK l \in 1..last : Available(p, l - 1) < i /\ i <= Available(p, l)
    BY ONLY p \in [Nat -> Nat], last \in Nat, i \in 1..Available(p, last), ShareInLot
  <2>2. i \in Nat
    BY <1>4
  <2> HIDE DEF list
  <2>3. SharesIn(p, d, last)[i] = d[l] /\ list[i] = d[l]
    BY <1>3, <1>4, <2>1, <2>2
  <2> QED BY <2>3
<1> QED BY <1>2, <1>4, <1>5

(* The columns p and d are q and c with a lot of n shares in the place top.*)
BoughtColumns(q, c, last, n, p, d, top) ==
  /\ q \in [Nat -> Nat] /\ c \in [Nat -> Nat] /\ last \in Nat
  /\ p \in [Nat -> Nat] /\ d \in [Nat -> Nat] /\ top \in Nat /\ top = last + 1
  /\ n \in Nat /\ Available(p, top) = Available(q, last) + n
  /\ \A m \in 0..last : Available(p, m) = Available(q, m)
  /\ \A l \in 1..last : d[l] = c[l]

(* After a purchase of n shares they follow the shares held before.        *)
LEMMA SharesBought ==
  ASSUME NEW q, NEW c, NEW last, NEW n, NEW p, NEW d, NEW top,
         BoughtColumns(q, c, last, n, p, d, top)
  PROVE  /\ DOMAIN SharesIn(p, d, top) = 1..(Available(q, last) + n)
         /\ \A i \in 1..(Available(q, last) + n) :
              SharesIn(p, d, top)[i]
                = IF i <= Available(q, last) THEN SharesIn(q, c, last)[i] ELSE d[top]
<1> SUFFICES ASSUME q \in [Nat -> Nat], c \in [Nat -> Nat], last \in Nat,
                    p \in [Nat -> Nat], d \in [Nat -> Nat], top \in Nat, top = last + 1,
                    n \in Nat, Available(p, top) = Available(q, last) + n,
                    \A m \in 0..last : Available(p, m) = Available(q, m),
                    \A l \in 1..last : d[l] = c[l]
             PROVE  /\ DOMAIN SharesIn(p, d, top) = 1..(Available(q, last) + n)
                    /\ \A i \in 1..(Available(q, last) + n) :
                         SharesIn(p, d, top)[i]
                           = IF i <= Available(q, last) THEN SharesIn(q, c, last)[i] ELSE d[top]
  BY DEF BoughtColumns
<1> DEFINE list == [i \in 1..(Available(q, last) + n) |->
                      IF i <= Available(q, last) THEN SharesIn(q, c, last)[i] ELSE d[top]]
<1>0. \A l \in 1..last : \A i \in Nat :
        Available(q, l - 1) < i /\ i <= Available(q, l) => SharesIn(q, c, last)[i] = c[l]
  BY ONLY q \in [Nat -> Nat], c \in [Nat -> Nat], last \in Nat, SharesAre, ZenonT(30)
<1>1. /\ \A m \in Nat : Available(q, m) \in Nat
      /\ \A m, k \in Nat : m <= k => Available(q, m) <= Available(q, k)
  <2>1. /\ RunningSum(q) \in [Nat -> Nat]
        /\ \A m, k \in Nat : m <= k => RunningSum(q)[m] <= RunningSum(q)[k]
    BY SumNatural
  <2> QED BY <2>1 DEF Available
<1>2. DOMAIN list = 1..Available(p, top)
  OBVIOUS
<1>3. ASSUME NEW l \in 1..top, NEW i \in Nat, Available(p, l - 1) < i, i <= Available(p, l)
      PROVE  list[i] = d[l]
  <2>1. CASE l \in 1..last
    <3>1. l \in 0..last /\ l - 1 \in 0..last /\ l \in Nat /\ l - 1 \in Nat /\ l <= last
      BY <2>1
    <3>2. Available(q, l - 1) < i /\ i <= Available(q, l) /\ Available(q, l) <= Available(q, last)
      BY <1>1, <1>3, <3>1
    <3>3. SharesIn(q, c, last)[i] = c[l]
      BY <1>0, <2>1, <3>2
    <3>4. i \in 1..(Available(q, last) + n) /\ i <= Available(q, last)
      <4>1. Available(q, l - 1) \in Nat /\ Available(q, l) \in Nat /\ Available(q, last) \in Nat
        BY <1>1, <3>1
      <4>2. 1 <= i /\ i <= Available(q, last)
        BY <3>2, <4>1
      <4> QED BY <4>1, <4>2
    <3> QED BY <2>1, <3>3, <3>4
  <2>2. CASE l = top
    <3>1. l - 1 = last /\ last \in 0..last
      BY <2>2
    <3>2. Available(q, last) < i /\ i <= Available(q, last) + n /\ Available(q, last) \in Nat
      BY <1>1, <1>3, <2>2, <3>1
    <3>3. i \in 1..(Available(q, last) + n) /\ ~ (i <= Available(q, last))
      BY <3>2
    <3> QED BY <2>2, <3>3
  <2> QED BY <2>1, <2>2
<1>4. /\ SharesIn(p, d, top) \in [1..Available(p, top) -> Nat]
      /\ Available(p, top) \in Nat
      /\ \A l \in 1..top : \A i \in Nat :
           Available(p, l - 1) < i /\ i <= Available(p, l) => SharesIn(p, d, top)[i] = d[l]
  BY ONLY p \in [Nat -> Nat], d \in [Nat -> Nat], top \in Nat, SharesAre, ZenonT(30)
<1>5. ASSUME NEW i \in 1..Available(p, top) PROVE SharesIn(p, d, top)[i] = list[i]
  <2>1. PICK l \in 1..top : Available(p, l - 1) < i /\ i <= Available(p, l)
    BY ONLY p \in [Nat -> Nat], top \in Nat, i \in 1..Available(p, top), ShareInLot
  <2>2. i \in Nat
    BY <1>4
  <2> HIDE DEF list
  <2>3. SharesIn(p, d, top)[i] = d[l] /\ list[i] = d[l]
    BY <1>3, <1>4, <2>1, <2>2
  <2> QED BY <2>3
<1> QED BY <1>2, <1>4, <1>5

(* Part i of a row of places cut into s parts each lies where it should.   *)
LEMMA PlaceOfPart ==
  ASSUME NEW s \in Nat \ {0}, NEW a \in Nat, NEW b \in Nat, NEW i \in Nat,
         s * a < i, i <= s * b
  PROVE  LET j == (i - 1) \div s + 1 IN a < j /\ j <= b /\ j \in Nat
<1> DEFINE e == (i - 1) \div s
<1>1. i - 1 \in Nat /\ s * a \in Nat /\ s * b \in Nat
  OBVIOUS
<1>2. e \in Int /\ s * e <= i - 1 /\ i - 1 < s * e + s
  BY <1>1
<1> HIDE DEF e
<1>3. ~ (e < a)
  <2>1. SUFFICES ASSUME e < a PROVE FALSE
    OBVIOUS
  <2>2. PICK x \in Nat : a = e + 1 + x
    <3>1. a - e - 1 \in Nat /\ a = e + 1 + (a - e - 1)
      BY <1>2, <2>1
    <3> QED BY <3>1
  <2>3. s * a = s * e + s + s * x /\ s * x \in Nat /\ s * e \in Int
    BY <1>2, <2>2
  <2> QED BY <1>1, <1>2, <2>3
<1>4. ~ (e >= b)
  <2>1. SUFFICES ASSUME e >= b PROVE FALSE
    OBVIOUS
  <2>2. PICK x \in Nat : e = b + x
    <3>1. e - b \in Nat /\ e = b + (e - b)
      BY <1>2, <2>1
    <3> QED BY <3>1
  <2>3. s * e = s * b + s * x /\ s * x \in Nat
    BY <1>2, <2>2
  <2> QED BY <1>1, <1>2, <2>3
<1>5. a < e + 1 /\ e + 1 <= b /\ e + 1 \in Nat
  BY <1>2, <1>3, <1>4
<1> QED BY <1>5 DEF e

(* The columns p and d are q and c after a stock dividend of factor s.     *)
ScaledColumns(q, c, last, s, p, d) ==
  /\ q \in [Nat -> Nat] /\ c \in [Nat -> Nat] /\ last \in Nat
  /\ p \in [Nat -> Nat] /\ d \in [Nat -> Nat] /\ s \in Nat \ {0}
  /\ \A m \in Nat : Available(p, m) = s * Available(q, m)
  /\ \A l \in 1..last : d[l] = c[l] \div s

(* After a stock dividend s shares stand in the place of each.             *)
LEMMA SharesScaled ==
  ASSUME NEW q, NEW c, NEW last, NEW s, NEW p, NEW d, ScaledColumns(q, c, last, s, p, d)
  PROVE  /\ DOMAIN SharesIn(p, d, last) = 1..(s * Available(q, last))
         /\ \A i \in 1..(s * Available(q, last)) :
              SharesIn(p, d, last)[i] = SharesIn(q, c, last)[(i - 1) \div s + 1] \div s
<1> SUFFICES ASSUME q \in [Nat -> Nat], c \in [Nat -> Nat], last \in Nat,
                    p \in [Nat -> Nat], d \in [Nat -> Nat], s \in Nat \ {0},
                    \A m \in Nat : Available(p, m) = s * Available(q, m),
                    \A l \in 1..last : d[l] = c[l] \div s
             PROVE  /\ DOMAIN SharesIn(p, d, last) = 1..(s * Available(q, last))
                    /\ \A i \in 1..(s * Available(q, last)) :
                         SharesIn(p, d, last)[i] = SharesIn(q, c, last)[(i - 1) \div s + 1] \div s
  BY DEF ScaledColumns
<1> DEFINE list == [i \in 1..(s * Available(q, last)) |->
                      SharesIn(q, c, last)[(i - 1) \div s + 1] \div s]
<1>0. \A l \in 1..last : \A i \in Nat :
        Available(q, l - 1) < i /\ i <= Available(q, l) => SharesIn(q, c, last)[i] = c[l]
  BY ONLY q \in [Nat -> Nat], c \in [Nat -> Nat], last \in Nat, SharesAre, ZenonT(30)
<1>1. \A m \in Nat : Available(q, m) \in Nat /\ s * Available(q, m) \in Nat
  <2>1. RunningSum(q) \in [Nat -> Nat]
    BY SumNatural
  <2>2. \A m \in Nat : Available(q, m) \in Nat
    BY <2>1 DEF Available
  <2>3. \A m \in Nat : s * m \in Nat
    OBVIOUS
  <2> QED BY <2>2, <2>3
<1>2. DOMAIN list = 1..Available(p, last)
  OBVIOUS
<1>3. ASSUME NEW l \in 1..last, NEW i \in Nat, Available(p, l - 1) < i, i <= Available(p, l)
      PROVE  list[i] = d[l]
  <2> DEFINE j == (i - 1) \div s + 1
  <2>1. l \in Nat /\ l - 1 \in Nat
    OBVIOUS
  <2>2. s * Available(q, l - 1) < i /\ i <= s * Available(q, l)
    BY <1>3, <2>1
  <2>3. Available(q, l) \in Nat /\ Available(q, l - 1) \in Nat
    BY <1>1, <2>1
  <2>4. Available(q, l - 1) < j /\ j <= Available(q, l) /\ j \in Nat
    BY <2>2, <2>3, PlaceOfPart
  <2> HIDE DEF j
  <2>5. SharesIn(q, c, last)[j] = c[l]
    BY <1>0, <2>4
  <2>6. i \in 1..(s * Available(q, last))
    <3>1. /\ RunningSum(p) \in [Nat -> Nat]
          /\ \A m, k \in Nat : m <= k => RunningSum(p)[m] <= RunningSum(p)[k]
      BY SumNatural
    <3>2. l <= last
      OBVIOUS
    <3>3. Available(p, l) <= Available(p, last) /\ Available(p, l - 1) \in Nat /\ Available(p, last) \in Nat
      BY <2>1, <3>1, <3>2 DEF Available
    <3>4. i \in 1..Available(p, last)
      <4>1. Available(p, l) \in Nat
        BY <2>1, <3>1 DEF Available
      <4>2. 1 <= i /\ i <= Available(p, last)
        BY <1>3, <3>3, <4>1
      <4> QED BY <3>3, <4>2
    <3>5. Available(p, last) = s * Available(q, last)
      OBVIOUS
    <3> QED BY <3>4, <3>5
  <2>7. list[i] = SharesIn(q, c, last)[j] \div s
    BY <2>6 DEF j
  <2> HIDE DEF list
  <2> QED BY <2>5, <2>7
<1>4. /\ SharesIn(p, d, last) \in [1..Available(p, last) -> Nat]
      /\ Available(p, last) \in Nat
      /\ \A l \in 1..last : \A i \in Nat :
           Available(p, l - 1) < i /\ i <= Available(p, l) => SharesIn(p, d, last)[i] = d[l]
  BY ONLY p \in [Nat -> Nat], d \in [Nat -> Nat], last \in Nat, SharesAre, ZenonT(30)
<1>5. ASSUME NEW i \in 1..Available(p, last) PROVE SharesIn(p, d, last)[i] = list[i]
  <2>1. PICK l \in 1..last : Available(p, l - 1) < i /\ i <= Available(p, l)
    BY ONLY p \in [Nat -> Nat], last \in Nat, i \in 1..Available(p, last), ShareInLot
  <2>2. i \in Nat
    BY <1>4
  <2> HIDE DEF list
  <2>3. SharesIn(p, d, last)[i] = d[l] /\ list[i] = d[l]
    BY <1>3, <1>4, <2>1, <2>2
  <2> QED BY <2>3
<1> QED BY <1>2, <1>4, <1>5

--------------------------------------------------------------------------------
(* The shares of a position after each operation on its lots.              *)

(* The queue of shares adds up its costs as the ledger does.               *)
LEMMA SameSum ==
  ASSUME NEW f
  PROVE  Promise!RunningSum(f) = RunningSum(f)
BY DEF Promise!RunningSum, RunningSum

(* What is left of a queue of shares when its first q are gone.            *)
LEMMA SharesGone ==
  ASSUME NEW n \in Nat, NEW s \in [1..n -> Nat], NEW q \in Nat, q <= n
  PROVE  /\ Len(s) = n
         /\ SubSeq(s, q + 1, Len(s)) = [i \in 1..(n - q) |-> s[i + q]]
<1>1. s \in Seq(Nat) /\ Len(s) = n
  OBVIOUS
<1> DEFINE m == q + 1
<1> DEFINE w == SubSeq(s, m, n)
<1>2. m \in Int /\ n \in Int /\ \A i \in m..n : s[i] \in Nat
  OBVIOUS
<1>3. /\ m - 1 = q /\ n - m + 1 = n - q /\ (IF m <= n THEN n - m + 1 ELSE 0) = n - q
      /\ n - q \in Nat /\ \A i \in 1..(n - q) : m + i - 1 = i + q
  OBVIOUS
<1> HIDE DEF m
<1>4. /\ w \in Seq(Nat) /\ Len(w) = IF m <= n THEN n - m + 1 ELSE 0
      /\ \A i \in 1..(n - m + 1) : w[i] = s[m + i - 1]
  BY ONLY <1>2, SubSeqProperties
<1> HIDE DEF w
<1>5. Len(w) = n - q /\ w \in [1..(n - q) -> Nat]
  BY <1>3, <1>4
<1>6. \A i \in 1..(n - q) : w[i] = s[i + q]
  BY <1>3, <1>4
<1>7. w = [i \in 1..(n - q) |-> s[i + q]]
  BY <1>5, <1>6
<1> QED BY <1>1, <1>7 DEF w, m

(* A queue of shares with q shares of one cost behind it.                  *)
LEMMA SharesJoined ==
  ASSUME NEW n \in Nat, NEW s \in [1..n -> Nat], NEW q \in Nat, NEW c \in Nat
  PROVE s \o [i \in 1..q |-> c] = [i \in 1..(n + q) |-> IF i <= n THEN s[i] ELSE c]
<1>1. s \in Seq(Nat) /\ Len(s) = n
  OBVIOUS
<1> DEFINE t == [i \in 1..q |-> c]
<1>2. t \in Seq(Nat) /\ Len(t) = q /\ \A i \in 1..q : t[i] = c
  OBVIOUS
<1> HIDE DEF t
<1>3. /\ s \o t \in Seq(Nat) /\ Len(s \o t) = n + q
      /\ \A i \in 1..(n+q) : (s \o t)[i] = IF i <= n THEN s[i] ELSE t[i - n]
  BY <1>1, <1>2, ConcatProperties, ZenonT(40)
<1>4. s \o t = [i \in 1..(n + q) |-> IF i <= n THEN s[i] ELSE c]
  <2>1. \A i \in 1..(n+q) : (s \o t)[i] = IF i <= n THEN s[i] ELSE c
    BY <1>2, <1>3
  <2> DEFINE w == s \o t
  <2>2. w \in Seq(Nat) /\ Len(w) = n + q
    BY <1>3
  <2>3. \A i \in 1..(n+q) : w[i] = IF i <= n THEN s[i] ELSE c
    BY <2>1
  <2> HIDE DEF w
  <2>4. w \in [1..(n + q) -> Nat]
    BY <2>2
  <2>5. w = [i \in 1..(n + q) |-> IF i <= n THEN s[i] ELSE c]
    BY <2>3, <2>4
  <2> QED BY <2>5 DEF w
<1> QED BY <1>4 DEF t

(* Lots a step leaves alone hold the same shares after it.                 *)
LEMMA SharesKept ==
  ASSUME NEW one, NEW two, NEW n \in Nat, LotTable(one, n), NEW m \in {n, n + 1}, NEW j,
         OpenLots(one, j) = OpenLots(two, j), \A l \in OpenLots(one, j) : one[l] = two[l]
  PROVE  SharesIn(Queue(two, j), UnitCost(two, j), m) = SharesIn(Queue(one, j), UnitCost(one, j), n)
<1> DEFINE q == Queue(one, j)
<1> DEFINE c == UnitCost(one, j)
<1>1. Queue(two, j) = q /\ UnitCost(two, j) = c
  BY SameColumns
<1>2. q \in [Nat -> Nat] /\ c \in [Nat -> Nat] /\ \A l \in Nat : l \notin DOMAIN one => q[l] = 0
  BY LotColumns
<1>3. q[n + 1] = 0 /\ n + 1 \in Nat
  <2>1. n + 1 \notin DOMAIN one /\ n + 1 \in Nat
    BY DEF LotTable
  <2> QED BY <1>2, <2>1
<1> HIDE DEF q, c
<1>4. SharesIn(q, c, n) \in [1..Available(q, n) -> Nat] /\ Available(q, n) \in Nat
  BY <1>2, SharesAre
<1>5. Available(q, n + 1) = Available(q, n)
  <2>1. q \in [Nat -> Int]
    BY <1>2
  <2> QED BY <1>3, <2>1, TotalStays DEF Available
<1>6. SharesIn(q, c, n + 1) = SharesIn(q, c, n)
  <2>1. PICK top \in Nat : top = n + 1
    BY <1>3
  <2>2. Available(q, top) = Available(q, n) + 0
    BY <1>4, <1>5, <2>1
  <2>3. /\ DOMAIN SharesIn(q, c, top) = 1..(Available(q, n) + 0)
        /\ \A i \in 1..(Available(q, n) + 0) :
             SharesIn(q, c, top)[i] = IF i <= Available(q, n) THEN SharesIn(q, c, n)[i] ELSE c[top]
    <3>1. BoughtColumns(q, c, n, 0, q, c, top)
      BY <1>2, <2>1, <2>2 DEF BoughtColumns
    <3> QED BY <3>1, SharesBought
  <2>5. SharesIn(q, c, top) \in [1..Available(q, top) -> Nat]
    BY <1>2, SharesAre
  <2>4. 1..(Available(q, n) + 0) = 1..Available(q, n) /\ \A i \in 1..Available(q, n) : i <= Available(q, n)
    BY <1>4
  <2> QED BY <1>4, <2>1, <2>3, <2>4, <2>5
<1> QED BY <1>1, <1>6 DEF q, c

(* A purchase joins the shares at their tail.                              *)
LEMMA SharesAfterBuy ==
  ASSUME NEW table, NEW n \in Nat, LotTable(table, n), NEW k,
         NEW row \in LotRow, row.key = k, ~ row.exhausted
  PROVE  LET more == Put(table, n + 1, row)
         IN  SharesIn(Queue(more, k), UnitCost(more, k), n + 1)
               = SharesIn(Queue(table, k), UnitCost(table, k), n)
                   \o Promise!Shares(row.remaining, row.cost)
<1> DEFINE more == Put(table, n + 1, row)
<1> DEFINE q == Queue(table, k)
<1> DEFINE c == UnitCost(table, k)
<1> DEFINE p == Queue(more, k)
<1> DEFINE d == UnitCost(more, k)
<1> DEFINE qty == row.remaining
<1>1. n + 1 \in Nat /\ n + 1 \notin DOMAIN table /\ qty \in Nat /\ row.cost \in Nat
  BY DEF LotTable, LotRow
<1>2. /\ DOMAIN more = DOMAIN table \cup {n + 1} /\ more[n + 1] = row
      /\ \A x \in DOMAIN table : x # n + 1 => more[x] = table[x]
  BY <1>1 DEF Put
<1>3. LotTable(more, n + 1)
  BY LotAdded
<1>4. q \in [Nat -> Nat] /\ c \in [Nat -> Nat]
  BY LotColumns
<1>5. p \in [Nat -> Nat] /\ d \in [Nat -> Nat]
  BY <1>1, <1>3, LotColumns
<1>6. /\ \A m \in 0..n : Available(p, m) = Available(q, m)
      /\ Available(p, n + 1) = Available(q, n) + qty
  BY QueueGrows DEF Available
<1> HIDE DEF more
<1>7. \A l \in 1..n : d[l] = c[l]
  BY <1>2 DEF UnitCost, OpenLots
<1>8. d[n + 1] = row.cost
  BY <1>1, <1>2 DEF UnitCost, OpenLots
<1> HIDE DEF q, c, p, d
<1>9. PICK top \in Nat : top = n + 1
  BY <1>1
<1>10. /\ DOMAIN SharesIn(p, d, top) = 1..(Available(q, n) + qty)
       /\ \A i \in 1..(Available(q, n) + qty) :
            SharesIn(p, d, top)[i] = IF i <= Available(q, n) THEN SharesIn(q, c, n)[i] ELSE d[top]
  <2>1. BoughtColumns(q, c, n, qty, p, d, top)
    BY <1>1, <1>4, <1>5, <1>6, <1>7, <1>9 DEF BoughtColumns
  <2> QED BY <2>1, SharesBought
<1>11. SharesIn(q, c, n) \in [1..Available(q, n) -> Nat] /\ Available(q, n) \in Nat
  BY <1>4, SharesAre
<1>12. SharesIn(q, c, n) \o [i \in 1..qty |-> row.cost]
         = [i \in 1..(Available(q, n) + qty) |->
              IF i <= Available(q, n) THEN SharesIn(q, c, n)[i] ELSE row.cost]
  BY <1>1, <1>11, SharesJoined
<1>13. SharesIn(p, d, top) \in [1..Available(p, top) -> Nat]
  BY <1>5, SharesAre
<1>14. SharesIn(p, d, n + 1) = SharesIn(q, c, n) \o [i \in 1..qty |-> row.cost]
  BY <1>8, <1>9, <1>10, <1>12, <1>13
<1> QED BY <1>14 DEF Promise!Shares, more, q, c, p, d

(* A sale takes the first shares, and their cost from the books.           *)
LEMMA SharesAfterSale ==
  ASSUME NEW table, NEW last \in Nat, LotTable(table, last), NEW k, NEW qty \in Nat,
         qty <= Available(Queue(table, k), last)
  PROVE  LET shares == SharesIn(Queue(table, k), UnitCost(table, k), last)
             after  == AfterSale(table, k, qty)
         IN  /\ Len(shares) = Available(Queue(table, k), last)
             /\ SharesIn(Queue(after, k), UnitCost(after, k), last)
                  = SubSeq(shares, qty + 1, Len(shares))
             /\ CostOfSale(Queue(table, k), UnitCost(table, k), qty, last)
                  = Promise!CostOfFirst(qty, shares)
<1> DEFINE after == AfterSale(table, k, qty)
<1> DEFINE q == Queue(table, k)
<1> DEFINE c == UnitCost(table, k)
<1> DEFINE p == Queue(after, k)
<1> DEFINE d == UnitCost(after, k)
<1> DEFINE shares == SharesIn(q, c, last)
<1>1. LotTable(after, last)
  BY SaleTakesCost
<1>2. q \in [Nat -> Nat] /\ c \in [Nat -> Nat] /\ p \in [Nat -> Nat] /\ d \in [Nat -> Nat]
  BY <1>1, LotColumns
<1>3. /\ \A m \in Nat : Available(p, m) = Available(q, m) - Smaller(qty, Available(q, m))
      /\ DOMAIN after = DOMAIN table
      /\ \A l \in DOMAIN table : after[l].cost = table[l].cost
  BY QueueSold DEF Available
<1>4. \A l \in DOMAIN table : l \notin OpenLots(table, k) => after[l] = table[l]
  BY DEF AfterSale
<1> HIDE DEF after
<1>5. ASSUME NEW l \in 1..last, p[l] > 0 PROVE d[l] = c[l]
  <2>1. l \in OpenLots(after, k)
    BY <1>5 DEF Queue
  <2>2. l \in DOMAIN table
    BY <1>3, <2>1 DEF OpenLots
  <2>3. l \in OpenLots(table, k)
    BY <1>4, <2>1, <2>2 DEF OpenLots
  <2>4. after[l].cost = table[l].cost
    BY <1>3, <2>2
  <2> QED BY <2>1, <2>3, <2>4 DEF UnitCost
<1> HIDE DEF q, c, p, d
<1>6. qty <= Available(q, last)
  BY DEF q
<1>7. /\ DOMAIN SharesIn(p, d, last) = 1..(Available(q, last) - qty)
      /\ \A i \in 1..(Available(q, last) - qty) : SharesIn(p, d, last)[i] = shares[i + qty]
  <2>1. SoldColumns(q, c, last, qty, p, d)
    BY <1>2, <1>3, <1>5, <1>6 DEF SoldColumns
  <2> QED BY <2>1, SharesSold
<1>8. shares \in [1..Available(q, last) -> Nat] /\ Available(q, last) \in Nat
  BY <1>2, SharesAre
<1>9. CostOfSale(q, c, qty, last) = Promise!CostOfFirst(qty, shares)
  <2>1. PICK col : col = [i \in Nat |-> IF i \in 1..Available(q, last) THEN shares[i] ELSE 0]
    OBVIOUS
  <2>2. /\ col \in [Nat -> Nat]
        /\ \A i \in Nat : col[i] = IF i \in 1..Available(q, last) THEN shares[i] ELSE 0
    BY <1>8, <2>1
  <2>3. \A n \in Nat : n <= Available(q, last) => CostOfSale(q, c, n, last) = RunningSum(col)[n]
    <3>1. CostColumn(q, c, last, col)
      BY <1>2, <2>2 DEF CostColumn
    <3> QED BY <3>1, FirstSharesCost
  <2>4. DOMAIN shares = 1..Available(q, last)
    BY <1>8
  <2>5. Promise!CostOfFirst(qty, shares) = RunningSum(col)[qty]
    BY <2>1, <2>4, SameSum DEF Promise!CostOfFirst
  <2> QED BY <1>6, <2>3, <2>5
<1> HIDE DEF shares
<1>10. Len(shares) = Available(q, last)
  BY <1>6, <1>8, SharesGone
<1>11. SharesIn(p, d, last) = SubSeq(shares, qty + 1, Len(shares))
  <2>1. SharesIn(p, d, last) \in [1..Available(p, last) -> Nat]
    BY <1>2, SharesAre
  <2>2. SubSeq(shares, qty + 1, Len(shares)) = [i \in 1..(Available(q, last) - qty) |-> shares[i + qty]]
    BY <1>6, <1>8, SharesGone
  <2> QED BY <1>7, <2>1, <2>2
<1> QED BY <1>9, <1>10, <1>11 DEF shares, q, c, p, d, after

(* The sum of a column scaled by s.                                        *)
LEMMA SumScaled ==
  ASSUME NEW f \in [Nat -> Nat], NEW g \in [Nat -> Nat], NEW s \in Nat,
         \A i \in Nat : g[i] = s * f[i]
  PROVE  \A n \in Nat : RunningSum(g)[n] = s * RunningSum(f)[n]
<1> DEFINE T == {n \in Nat : RunningSum(g)[n] = s * RunningSum(f)[n]}
<1>1. /\ RunningSum(f) \in [Nat -> Nat] /\ RunningSum(f)[0] = 0
      /\ \A n \in Nat : RunningSum(f)[n + 1] = RunningSum(f)[n] + f[n + 1]
  BY SumNatural
<1>2. /\ RunningSum(g) \in [Nat -> Nat] /\ RunningSum(g)[0] = 0
      /\ \A n \in Nat : RunningSum(g)[n + 1] = RunningSum(g)[n] + g[n + 1]
  BY SumNatural
<1>3. 0 \in T
  BY <1>1, <1>2
<1>4. ASSUME NEW n \in Nat, n \in T PROVE n + 1 \in T
  <2> DEFINE x == RunningSum(f)[n]
  <2> DEFINE y == f[n + 1]
  <2>1. x \in Nat /\ y \in Nat /\ n + 1 \in Nat
    BY <1>1
  <2>2. RunningSum(g)[n + 1] = s * x + s * y
    BY <1>2, <1>4, <2>1
  <2>3. RunningSum(f)[n + 1] = x + y
    BY <1>1
  <2> HIDE DEF x, y
  <2>4. s * (x + y) = s * x + s * y
    BY <2>1
  <2> QED BY <2>1, <2>2, <2>3, <2>4
<1>5. Nat \subseteq T
  <2> HIDE DEF T
  <2> QED BY <1>3, <1>4, SetInduction
<1> QED BY <1>5

(* A stock dividend puts s shares in the place of each.                    *)
LEMMA SharesAfterScale ==
  ASSUME NEW table, NEW last \in Nat, LotTable(table, last), NEW k, NEW s \in Nat \ {0},
         \A l \in OpenLots(table, k) : table[l].cost % s = 0
  PROVE  LET shares == SharesIn(Queue(table, k), UnitCost(table, k), last)
             scaled == Scaled(table, k, s)
             cut    == SharesIn(Queue(scaled, k), UnitCost(scaled, k), last)
         IN  /\ cut \in [1..(s * Len(shares)) -> Nat]
             /\ \A i \in 1..(s * Len(shares)) : cut[i] = shares[(i - 1) \div s + 1] \div s
<1> DEFINE scaled == Scaled(table, k, s)
<1> DEFINE q == Queue(table, k)
<1> DEFINE c == UnitCost(table, k)
<1> DEFINE p == Queue(scaled, k)
<1> DEFINE d == UnitCost(scaled, k)
<1> DEFINE shares == SharesIn(q, c, last)
<1>1. LotTable(scaled, last)
  BY ScaledKeepsBasis
<1>2. q \in [Nat -> Nat] /\ c \in [Nat -> Nat] /\ p \in [Nat -> Nat] /\ d \in [Nat -> Nat]
  BY <1>1, LotColumns
<1>3. /\ DOMAIN scaled = DOMAIN table
      /\ \A l \in OpenLots(table, k) : scaled[l] = LotScaled(table[l], s)
      /\ \A l \in DOMAIN table : l \notin OpenLots(table, k) => scaled[l] = table[l]
  BY DEF Scaled, OpenLots
<1> HIDE DEF scaled
<1>4. ASSUME NEW l \in OpenLots(table, k)
      PROVE  /\ scaled[l].key = table[l].key /\ scaled[l].exhausted = table[l].exhausted
             /\ scaled[l].remaining = table[l].remaining * s /\ scaled[l].cost = table[l].cost \div s
             /\ table[l].remaining \in Nat
  <2>1. scaled[l] = LotScaled(table[l], s)
    BY <1>3
  <2>2. table[l].remaining \in Nat
    BY DEF LotTable, OpenLots, LotRow
  <2> QED BY <2>1, <2>2 DEF LotScaled
<1>5. OpenLots(scaled, k) = OpenLots(table, k)
  <2>1. \A l \in OpenLots(table, k) : l \in OpenLots(scaled, k)
    BY <1>3, <1>4 DEF OpenLots
  <2>2. \A l \in OpenLots(scaled, k) : l \in OpenLots(table, k)
    BY <1>3 DEF OpenLots
  <2> QED BY <2>1, <2>2
<1>6. ASSUME NEW l \in Nat PROVE p[l] = s * q[l] /\ d[l] = c[l] \div s
  <2>1. CASE l \in OpenLots(table, k)
    <3>1. p[l] = table[l].remaining * s /\ q[l] = table[l].remaining
      BY <1>4, <1>5, <2>1 DEF Queue
    <3>2. d[l] = table[l].cost \div s /\ c[l] = table[l].cost
      BY <1>4, <1>5, <2>1 DEF UnitCost
    <3>3. table[l].remaining * s = s * table[l].remaining
      BY <1>4, <2>1
    <3> QED BY <3>1, <3>2, <3>3
  <2>2. CASE l \notin OpenLots(table, k)
    <3>1. p[l] = 0 /\ q[l] = 0
      BY <1>5, <2>2 DEF Queue
    <3>2. d[l] = 0 /\ c[l] = 0
      BY <1>5, <2>2 DEF UnitCost
    <3>3. s * 0 = 0 /\ 0 \div s = 0
      OBVIOUS
    <3> QED BY <3>1, <3>2, <3>3
  <2> QED BY <2>1, <2>2
<1> HIDE DEF q, c, p, d
<1>7. \A m \in Nat : Available(p, m) = s * Available(q, m)
  <2>1. \A i \in Nat : p[i] = s * q[i]
    BY <1>6
  <2>2. s \in Nat
    OBVIOUS
  <2> QED BY <1>2, <2>1, <2>2, SumScaled DEF Available
<1>8. /\ DOMAIN SharesIn(p, d, last) = 1..(s * Available(q, last))
      /\ \A i \in 1..(s * Available(q, last)) :
           SharesIn(p, d, last)[i] = shares[(i - 1) \div s + 1] \div s
  <2>1. \A l \in 1..last : d[l] = c[l] \div s
    BY <1>6
  <2>2. ScaledColumns(q, c, last, s, p, d)
    BY <1>2, <1>7, <2>1 DEF ScaledColumns
  <2> QED BY <2>2, SharesScaled
<1>9. shares \in [1..Available(q, last) -> Nat] /\ Available(q, last) \in Nat
  BY <1>2, SharesAre
<1> HIDE DEF shares
<1>10. Len(shares) = Available(q, last)
  BY <1>9
<1>11. SharesIn(p, d, last) \in [1..Available(p, last) -> Nat]
  BY <1>2, SharesAre
<1>12. /\ SharesIn(p, d, last) \in [1..(s * Len(shares)) -> Nat]
       /\ \A i \in 1..(s * Len(shares)) :
            SharesIn(p, d, last)[i] = shares[(i - 1) \div s + 1] \div s
  BY <1>8, <1>10, <1>11
<1> QED BY <1>12 DEF shares, q, c, p, d, scaled

--------------------------------------------------------------------------------
(* Every step of the ledger is a step of the queue of shares.              *)

HeldAfter(j) == SharesIn(Queue(lots', j), UnitCost(lots', j), lotSeq')

(* The mapped variables before and after a step, key by key.               *)
LEMMA Mapped ==
  /\ [j \in Key |-> SharesOf(j)]' = [j \in Key |-> HeldAfter(j)]
  /\ [j \in Key |-> PriorRealized(j)]' = [j \in Key |-> RealizedAt(positions', j)]
  /\ \A j \in Key : PriorRealized(j) = RealizedAt(positions, j)
BY DEF SharesOf, HeldAfter, PriorRealized, RealizedAt

(* Writing a position sets its realised total and no other.                *)
LEMMA RealizedWritten ==
  ASSUME NEW rows, NEW k, NEW row
  PROVE  \A j : RealizedAt(Put(rows, k, row), j)
                  = IF j = k THEN row.realized_pnl ELSE RealizedAt(rows, j)
BY DEF RealizedAt, Put

(* A recorded BUY joins its shares to the queue of its position.           *)
LEMMA BuyImplements ==
  ASSUME TypeOK, NEW k \in Key, NEW date \in Date, NEW qty \in Qty, NEW unit \in Unit,
         RecordBuy(k, date, qty, unit)
  PROVE  Promise!Buy(k, qty, unit)
<1> DEFINE lot == NewLot(tradeSeq', k, qty, unit)
<1> DEFINE held == [j \in Key |-> SharesOf(j)]
<1> DEFINE real == [j \in Key |-> PriorRealized(j)]
<1>1. /\ lotSeq \in Nat /\ tradeSeq' \in Nat /\ LotTable(lots, lotSeq)
      /\ lotSeq' = lotSeq + 1 /\ lots' = Put(lots, lotSeq + 1, lot)
      /\ positions' = Put(positions, k, RollUp(lots', k, lotSeq', PriorRealized(k)))
  BY DEF TypeOK, LotTable, RecordBuy
<1>2. /\ lot \in LotRow /\ lot.key = k /\ ~ lot.exhausted
      /\ lot.remaining = qty /\ lot.cost = unit
  <2>1. qty \in Nat /\ unit \in Nat
    BY LedgerAssumption
  <2> QED BY <1>1, <2>1 DEF NewLot, LotRow
<1> HIDE DEF lot
<1>3. HeldAfter(k) = SharesOf(k) \o Promise!Shares(qty, unit)
  BY <1>1, <1>2, SharesAfterBuy DEF HeldAfter, SharesOf
<1>4. ASSUME NEW j \in Key, j # k PROVE HeldAfter(j) = SharesOf(j)
  <2>1. /\ OpenLots(lots, j) = OpenLots(lots', j)
        /\ \A l \in OpenLots(lots, j) : lots[l] = lots'[l]
    BY <1>1, <1>2, <1>4, LotAdded
  <2> QED BY <1>1, <2>1, SharesKept DEF HeldAfter, SharesOf
<1>5. \A j \in Key : RealizedAt(positions', j) = PriorRealized(j)
  <2>1. RollUp(lots', k, lotSeq', PriorRealized(k)).realized_pnl = PriorRealized(k)
    BY DEF RollUp
  <2> QED BY <1>1, <2>1, Mapped, RealizedWritten
<1>6. held' = [held EXCEPT ![k] = held[k] \o Promise!Shares(qty, unit)]
  BY <1>3, <1>4, Mapped
<1>7. real' = real
  BY <1>5, Mapped
<1> QED BY <1>6, <1>7 DEF Promise!Buy

(* A recorded SELL takes the oldest shares, and realises what it should.   *)
LEMMA SellImplements ==
  ASSUME TypeOK, NEW k \in Key, NEW date \in Date, NEW qty \in Qty, NEW unit \in Unit,
         RecordSell(k, date, qty, unit)
  PROVE  Promise!Sell(k, qty, unit)
<1> DEFINE held == [j \in Key |-> SharesOf(j)]
<1> DEFINE real == [j \in Key |-> PriorRealized(j)]
<1> DEFINE cost == CostOfSale(Queue(lots, k), UnitCost(lots, k), qty, lotSeq)
<1>1. /\ lotSeq \in Nat /\ LotTable(lots, lotSeq)
      /\ lotSeq' = lotSeq /\ lots' = AfterSale(lots, k, qty)
      /\ qty <= Available(Queue(lots, k), lotSeq)
      /\ positions' = Put(positions, k,
           RollUp(lots', k, lotSeq', PriorRealized(k) + (qty * unit - cost)))
  BY DEF TypeOK, LotTable, RecordSell
<1>2. qty \in Nat
  BY LedgerAssumption
<1>3. /\ Len(SharesOf(k)) = Available(Queue(lots, k), lotSeq)
      /\ HeldAfter(k) = SubSeq(SharesOf(k), qty + 1, Len(SharesOf(k)))
      /\ cost = Promise!CostOfFirst(qty, SharesOf(k))
  BY <1>1, <1>2, SharesAfterSale DEF HeldAfter, SharesOf
<1> HIDE DEF cost
<1>4. ASSUME NEW j \in Key, j # k PROVE HeldAfter(j) = SharesOf(j)
  <2>1. /\ OpenLots(lots, j) = OpenLots(lots', j)
        /\ \A l \in OpenLots(lots, j) : lots[l] = lots'[l]
    BY <1>1, <1>4, SaleKeepsOthers
  <2> QED BY <1>1, <2>1, SharesKept DEF HeldAfter, SharesOf
<1>5. \A j \in Key : RealizedAt(positions', j)
                       = IF j = k THEN PriorRealized(k) + (qty * unit - cost) ELSE PriorRealized(j)
  <2> DEFINE realized == PriorRealized(k) + (qty * unit - cost)
  <2>1. RollUp(lots', k, lotSeq', realized).realized_pnl = realized
    BY DEF RollUp
  <2>2. positions' = Put(positions, k, RollUp(lots', k, lotSeq', realized))
    BY <1>1
  <2> HIDE DEF realized
  <2>3. \A j \in Key : RealizedAt(positions', j) = IF j = k THEN realized ELSE PriorRealized(j)
    BY <2>1, <2>2, Mapped, RealizedWritten
  <2> QED BY <2>3 DEF realized
<1>6. held' = [held EXCEPT ![k] = SubSeq(held[k], qty + 1, Len(held[k]))]
  BY <1>3, <1>4, Mapped
<1>7. real' = [real EXCEPT ![k] = real[k] + (qty * unit - Promise!CostOfFirst(qty, held[k]))]
  BY <1>3, <1>5, Mapped
<1>8. qty <= Len(held[k])
  BY <1>1, <1>3
<1> QED BY <1>6, <1>7, <1>8 DEF Promise!Sell

(* A cash dividend realises its net amount.                                *)
LEMMA CashImplements ==
  ASSUME TypeOK, NEW k \in Key, NEW net \in Net, RecordCash(k, net)
  PROVE  Promise!PayCash(k, net)
<1> DEFINE held == [j \in Key |-> SharesOf(j)]
<1> DEFINE real == [j \in Key |-> PriorRealized(j)]
<1> DEFINE row == IF k \in DOMAIN positions
                  THEN [positions[k] EXCEPT !.realized_pnl = @ + net]
                  ELSE CashOnlyRow(net)
<1>1. lots' = lots /\ lotSeq' = lotSeq /\ positions' = Put(positions, k, row)
  BY DEF RecordCash
<1>2. row.realized_pnl = PriorRealized(k) + net
  <2>1. CASE k \in DOMAIN positions
    <3>1. positions[k] \in PositionRow
      BY <2>1 DEF TypeOK
    <3> QED BY <2>1, <3>1 DEF PriorRealized, PositionRow
  <2>2. CASE k \notin DOMAIN positions
    <3>1. row = CashOnlyRow(net) /\ PriorRealized(k) = 0 /\ net \in Nat
      BY <2>2, DividendAssumption DEF PriorRealized
    <3> QED BY <3>1 DEF CashOnlyRow
  <2> QED BY <2>1, <2>2
<1> HIDE DEF row
<1>3. \A j \in Key : RealizedAt(positions', j)
                       = IF j = k THEN PriorRealized(k) + net ELSE PriorRealized(j)
  BY <1>1, <1>2, Mapped, RealizedWritten
<1>4. held' = held
  BY <1>1, Mapped DEF HeldAfter, SharesOf
<1>5. real' = [real EXCEPT ![k] = real[k] + net]
  BY <1>3, Mapped
<1> QED BY <1>4, <1>5 DEF Promise!PayCash

(* A stock dividend multiplies the shares of its position.                 *)
LEMMA StockImplements ==
  ASSUME TypeOK, NEW k \in Key, NEW s \in Scale, RecordStock(k, s)
  PROVE  Promise!PayStock(k, s)
<1> DEFINE held == [j \in Key |-> SharesOf(j)]
<1> DEFINE real == [j \in Key |-> PriorRealized(j)]
<1>1. /\ lotSeq \in Nat /\ LotTable(lots, lotSeq)
      /\ lotSeq' = lotSeq /\ lots' = Scaled(lots, k, s)
      /\ \A l \in OpenLots(lots, k) : lots[l].cost % s = 0
      /\ positions' = Put(positions, k, RollUp(lots', k, lotSeq', PriorRealized(k)))
  BY DEF TypeOK, LotTable, RecordStock, ExactScale
<1>2. s \in Nat \ {0}
  BY DividendAssumption
<1>3. HeldAfter(k) = [i \in 1..(s * Len(SharesOf(k))) |-> SharesOf(k)[(i - 1) \div s + 1] \div s]
  <2>1. /\ HeldAfter(k) \in [1..(s * Len(SharesOf(k))) -> Nat]
        /\ \A i \in 1..(s * Len(SharesOf(k))) :
             HeldAfter(k)[i] = SharesOf(k)[(i - 1) \div s + 1] \div s
    BY <1>1, <1>2, SharesAfterScale DEF HeldAfter, SharesOf
  <2> QED BY <2>1
<1>4. ASSUME NEW j \in Key, j # k PROVE HeldAfter(j) = SharesOf(j)
  <2>1. /\ OpenLots(lots, j) = OpenLots(lots', j)
        /\ \A l \in OpenLots(lots, j) : lots[l] = lots'[l]
    BY <1>1, <1>2, <1>4, ScaledKeepsBasis
  <2> QED BY <1>1, <2>1, SharesKept DEF HeldAfter, SharesOf
<1>5. \A j \in Key : RealizedAt(positions', j) = PriorRealized(j)
  <2>1. RollUp(lots', k, lotSeq', PriorRealized(k)).realized_pnl = PriorRealized(k)
    BY DEF RollUp
  <2> QED BY <1>1, <2>1, Mapped, RealizedWritten
<1>6. held' = [held EXCEPT ![k] = [i \in 1..(s * Len(held[k])) |-> held[k][(i - 1) \div s + 1] \div s]]
  BY <1>3, <1>4, Mapped
<1>7. real' = real
  BY <1>5, Mapped
<1> QED BY <1>6, <1>7 DEF Promise!PayStock

(* A step that leaves lots and positions alone leaves the queues alone.    *)
LEMMA RestImplements ==
  ASSUME lots' = lots, lotSeq' = lotSeq, positions' = positions
  PROVE  Promise!queueVars' = Promise!queueVars
<1> DEFINE held == [j \in Key |-> SharesOf(j)]
<1> DEFINE real == [j \in Key |-> PriorRealized(j)]
<1>1. held' = held
  BY Mapped DEF HeldAfter, SharesOf
<1>2. real' = real
  BY Mapped
<1> QED BY <1>1, <1>2 DEF Promise!queueVars

(* The empty ledger holds no shares.                                       *)
LEMMA InitImplements == InitDividends => Promise!InitQueue
<1> SUFFICES ASSUME InitDividends PROVE Promise!InitQueue
  OBVIOUS
<1>1. lots = <<>> /\ positions = <<>> /\ lotSeq = 0
  BY DEF InitDividends, Init
<1>2. ASSUME NEW k \in Key PROVE SharesOf(k) = <<>> /\ PriorRealized(k) = 0
  <2>1. LotTable(lots, lotSeq) /\ lotSeq \in Nat
    BY <1>1 DEF LotTable
  <2>2. Queue(lots, k) \in [Nat -> Nat]
    BY <2>1, LotColumns
  <2>3. Available(Queue(lots, k), 0) = 0
    BY <2>2, SumNatural DEF Available
  <2>4. SharesOf(k) = <<>>
    BY <1>1, <2>3 DEF SharesOf, SharesIn
  <2>5. PriorRealized(k) = 0
    BY <1>1 DEF PriorRealized
  <2> QED BY <2>4, <2>5
<1> QED BY <1>2 DEF Promise!InitQueue

(* Every step of the ledger maps to a step of the queues, or to none.      *)
LEMMA StepImplements ==
  BookInv /\ [NextWithDividends]_allVars => [Promise!QueueNext]_(Promise!queueVars)
<1> SUFFICES ASSUME BookInv, [NextWithDividends]_allVars
             PROVE  [Promise!QueueNext]_(Promise!queueVars)
  OBVIOUS
<1>1. TypeOK
  BY DEF BookInv
<1>2. CASE \E k \in Key, qty \in Qty, date \in Date, unit \in Unit : RecordBuy(k, date, qty, unit)
  <2>1. PICK k \in Key, qty \in Qty, date \in Date, unit \in Unit : RecordBuy(k, date, qty, unit)
    BY <1>2
  <2>2. Promise!Buy(k, qty, unit)
    BY <1>1, <2>1, BuyImplements
  <2> QED BY <2>2 DEF Promise!QueueNext
<1>3. CASE \E k \in Key, qty \in Qty, date \in Date, unit \in Unit : RecordSell(k, date, qty, unit)
  <2>1. PICK k \in Key, qty \in Qty, date \in Date, unit \in Unit : RecordSell(k, date, qty, unit)
    BY <1>3
  <2>2. Promise!Sell(k, qty, unit)
    BY <1>1, <2>1, SellImplements
  <2> QED BY <2>2 DEF Promise!QueueNext
<1>4. CASE \E k \in Key : \E net \in Net : RecordCash(k, net)
  <2>1. PICK k \in Key, net \in Net : RecordCash(k, net)
    BY <1>4
  <2>2. Promise!PayCash(k, net)
    BY <1>1, <2>1, CashImplements
  <2> QED BY <2>2 DEF Promise!QueueNext
<1>5. CASE \E k \in Key : \E s \in Scale : RecordStock(k, s)
  <2>1. PICK k \in Key, s \in Scale : RecordStock(k, s)
    BY <1>5
  <2>2. Promise!PayStock(k, s)
    BY <1>1, <2>1, StockImplements
  <2> QED BY <2>2 DEF Promise!QueueNext
<1>6. CASE \E k \in Key, qty \in Qty : RejectSell(k, qty)
  <2>1. lots' = lots /\ lotSeq' = lotSeq /\ positions' = positions
    BY <1>6 DEF RejectSell
  <2> QED BY <2>1, RestImplements
<1>7. ASSUME UNCHANGED ledgerVars PROVE Promise!queueVars' = Promise!queueVars
  <2>1. lots' = lots /\ lotSeq' = lotSeq /\ positions' = positions
    BY <1>7 DEF ledgerVars
  <2> QED BY <2>1, RestImplements
<1>8. CASE \E d \in DOMAIN dividends : \E net \in Net : UpdateDividend(d, net)
  BY <1>7, <1>8 DEF UpdateDividend
<1>9. CASE \E d \in DOMAIN dividends : DeleteDividend(d)
  BY <1>7, <1>9 DEF DeleteDividend
<1>10. CASE UNCHANGED allVars
  BY <1>7, <1>10 DEF allVars
<1> QED BY <1>2, <1>3, <1>4, <1>5, <1>6, <1>8, <1>9, <1>10
        DEF NextWithDividends, RecordNext, DividendNext

(* The ledger with its dividends implements the queues of single shares:   *)
(* whatever is recorded, every sale takes the oldest shares of its own     *)
(* position at their own cost.                                             *)
THEOREM LedgerImplementsShareQueue == DividendSpec => ImplementsShareQueue
<1>1. BookInv /\ [NextWithDividends]_allVars => BookInv'
  BY StepBooks
<1> QED BY <1>1, InitBooks, InitImplements, StepImplements, PTL
        DEF DividendSpec, ImplementsShareQueue, Promise!QueueSpec

--------------------------------------------------------------------------------
(* The rounds of a replay. *)

RoundsTo(log, start, n, b) ==
  /\ b = [i \in 0..n |-> b[i]]
  /\ b[0] = start
  /\ \A i \in 1..n : b[i] = ReplayStep(log, b[i - 1])

(* The recursion of Replayed has a solution, as that of RunningSum has.    *)
LEMMA RoundsExist ==
  ASSUME NEW log, NEW start
  PROVE  \A n \in Nat : \E b : RoundsTo(log, start, n, b) /\ \A c : RoundsTo(log, start, n, c) => c = b
<1> DEFINE S == {n \in Nat : \E b : RoundsTo(log, start, n, b)
                                    /\ \A c : RoundsTo(log, start, n, c) => c = b}
<1>1. 0 \in S
  <2> DEFINE e == [i \in 0..0 |-> start]
  <2>1. RoundsTo(log, start, 0, e)
    BY DEF RoundsTo
  <2>2. ASSUME NEW c, RoundsTo(log, start, 0, c) PROVE c = e
    <3>1. c = [i \in 0..0 |-> c[i]] /\ c[0] = start
      BY <2>2 DEF RoundsTo
    <3>2. \A i \in 0..0 : c[i] = start
      BY <3>1
    <3> QED BY <3>1, <3>2
  <2> HIDE DEF e
  <2> QED BY <2>1, <2>2
<1>2. ASSUME NEW n \in Nat, n \in S PROVE n + 1 \in S
  <2>1. PICK b : RoundsTo(log, start, n, b) /\ \A c : RoundsTo(log, start, n, c) => c = b
    BY <1>2
  <2> DEFINE e == [i \in 0..(n + 1) |-> IF i = n + 1 THEN ReplayStep(log, b[n]) ELSE b[i]]
  <2>2. RoundsTo(log, start, n + 1, e)
    <3>1. e = [i \in 0..(n + 1) |-> e[i]] /\ e[0] = b[0]
      OBVIOUS
    <3>2. ASSUME NEW i \in 1..(n + 1) PROVE e[i] = ReplayStep(log, e[i - 1])
      <4>1. e[i - 1] = b[i - 1]
        OBVIOUS
      <4>2. CASE i = n + 1
        BY <4>1, <4>2
      <4>3. CASE i # n + 1
        <5>1. i \in 1..n /\ e[i] = b[i]
          BY <4>3
        <5> HIDE DEF e
        <5> QED BY <2>1, <4>1, <5>1 DEF RoundsTo
      <4> QED BY <4>2, <4>3
    <3> HIDE DEF e
    <3> QED BY <2>1, <3>1, <3>2 DEF RoundsTo
  <2>3. ASSUME NEW c, RoundsTo(log, start, n + 1, c) PROVE c = e
    <3>1. /\ c = [i \in 0..(n + 1) |-> c[i]] /\ c[0] = start
          /\ \A i \in 1..(n + 1) : c[i] = ReplayStep(log, c[i - 1])
      BY <2>3 DEF RoundsTo
    <3> DEFINE p == [i \in 0..n |-> c[i]]
    <3>2. RoundsTo(log, start, n, p)
      <4>1. p = [i \in 0..n |-> p[i]] /\ p[0] = start
        BY <3>1
      <4>2. ASSUME NEW i \in 1..n PROVE p[i] = ReplayStep(log, p[i - 1])
        <5>1. i \in 1..(n + 1) /\ p[i] = c[i] /\ p[i - 1] = c[i - 1]
          OBVIOUS
        <5> HIDE DEF p
        <5> QED BY <3>1, <5>1
      <4> HIDE DEF p
      <4> QED BY <4>1, <4>2 DEF RoundsTo
    <3>3. p = b
      BY <2>1, <3>2
    <3>4. \A i \in 0..n : c[i] = b[i]
      <4>1. \A i \in 0..n : p[i] = c[i]
        OBVIOUS
      <4> QED BY <3>3, <4>1
    <3>5. c[n + 1] = ReplayStep(log, b[n])
      <4>1. n + 1 \in 1..(n + 1) /\ (n + 1) - 1 = n /\ n \in 0..n
        OBVIOUS
      <4>2. c[n + 1] = ReplayStep(log, c[(n + 1) - 1])
        BY <3>1, <4>1
      <4> QED BY <3>4, <4>1, <4>2
    <3>6. \A i \in 0..(n + 1) : c[i] = e[i]
      BY <3>4, <3>5
    <3>7. e = [i \in 0..(n + 1) |-> e[i]]
      OBVIOUS
    <3> HIDE DEF e, p
    <3> QED BY <3>1, <3>6, <3>7
  <2>4. n + 1 \in Nat
    OBVIOUS
  <2> HIDE DEF e
  <2> QED BY <2>2, <2>3, <2>4
<1> HIDE DEF S
<1>3. Nat \subseteq S
  BY <1>1, <1>2, SetInduction
<1> QED BY <1>3 DEF S

(* What Replayed computes: the first round is the start, and each round    *)
(* does one step.                                                          *)
LEMMA ReplayedRounds ==
  ASSUME NEW log, NEW start
  PROVE  /\ Replayed(log, start)[0] = start
         /\ \A n \in Nat : Replayed(log, start)[n + 1] = ReplayStep(log, Replayed(log, start)[n])
<1> DEFINE B(n) == CHOOSE b : RoundsTo(log, start, n, b)
<1> DEFINE g == [n \in Nat |-> B(n)[n]]
<1>1. \A n \in Nat : RoundsTo(log, start, n, B(n)) /\ \A c : RoundsTo(log, start, n, c) => c = B(n)
  BY RoundsExist
<1> HIDE DEF B
<1>2. g[0] = start
  BY <1>1 DEF RoundsTo
<1>3. ASSUME NEW n \in Nat PROVE g[n + 1] = ReplayStep(log, g[n])
  <2>1. RoundsTo(log, start, n + 1, B(n + 1))
    BY <1>1
  <2> DEFINE c == B(n + 1)
  <2> DEFINE p == [i \in 0..n |-> c[i]]
  <2>2. \A i \in 1..(n + 1) : c[i] = ReplayStep(log, c[i - 1])
    BY <2>1 DEF RoundsTo
  <2>3. c[0] = start
    BY <2>1 DEF RoundsTo
  <2> HIDE DEF c
  <2>4. RoundsTo(log, start, n, p)
    <3>1. p = [i \in 0..n |-> p[i]] /\ p[0] = start
      BY <2>3
    <3>2. ASSUME NEW i \in 1..n PROVE p[i] = ReplayStep(log, p[i - 1])
      <4>1. i \in 1..(n + 1) /\ p[i] = c[i] /\ p[i - 1] = c[i - 1]
        OBVIOUS
      <4> HIDE DEF p
      <4> QED BY <2>2, <4>1
    <3> HIDE DEF p
    <3> QED BY <3>1, <3>2 DEF RoundsTo
  <2>5. B(n) = p
    BY <1>1, <2>4
  <2>6. p[n] = c[n]
    OBVIOUS
  <2>7. c[n + 1] = ReplayStep(log, c[n])
    <3>1. n + 1 \in 1..(n + 1) /\ (n + 1) - 1 = n
      OBVIOUS
    <3>2. c[n + 1] = ReplayStep(log, c[(n + 1) - 1])
      BY <2>2, <3>1
    <3> QED BY <3>1, <3>2
  <2>8. g[n] = c[n] /\ g[n + 1] = c[n + 1]
    BY <2>5, <2>6 DEF c
  <2> QED BY <2>7, <2>8
<1> HIDE DEF g
<1>4. g = [n \in Nat |-> IF n = 0 THEN start ELSE ReplayStep(log, g[n - 1])]
  <2>1. ASSUME NEW n \in Nat PROVE g[n] = IF n = 0 THEN start ELSE ReplayStep(log, g[n - 1])
    <3>1. CASE n = 0 BY <1>2, <3>1
    <3>2. CASE n # 0
      <4>1. n - 1 \in Nat /\ (n - 1) + 1 = n
        BY <3>2
      <4>2. g[(n - 1) + 1] = ReplayStep(log, g[n - 1])
        BY <1>3, <4>1
      <4> QED BY <3>2, <4>1, <4>2
    <3> QED BY <3>1, <3>2
  <2>2. g = [n \in Nat |-> g[n]]
    BY DEF g
  <2> QED BY <2>1, <2>2
<1> DEFINE h == Replayed(log, start)
<1>5. h = [n \in Nat |-> IF n = 0 THEN start ELSE ReplayStep(log, h[n - 1])]
  BY <1>4 DEF Replayed
<1> HIDE DEF h
<1>6. h[0] = start
  BY <1>5
<1>7. ASSUME NEW n \in Nat PROVE h[n + 1] = ReplayStep(log, h[n])
  <2>1. n + 1 \in Nat /\ n + 1 # 0 /\ (n + 1) - 1 = n
    OBVIOUS
  <2>2. h[n + 1] = ReplayStep(log, h[(n + 1) - 1])
    BY <1>5, <2>1
  <2> QED BY <2>1, <2>2
<1> QED BY <1>6, <1>7 DEF h

(* The order of a replay: by date, then by id.                             *)
Sooner(log, t, u) == log[t].date < log[u].date \/ (log[t].date = log[u].date /\ t <= u)

(* There is an earliest trade, and Earliest is it.                         *)
LEMMA EarliestIs ==
  ASSUME NEW log, NEW n \in Nat, LogTable(log, n), NEW ts, ts \subseteq DOMAIN log, ts # {}
  PROVE  Earliest(log, ts) \in ts /\ \A u \in ts : Sooner(log, Earliest(log, ts), u)
<1>1. \A t \in ts : t \in Nat /\ log[t].date \in Nat
  BY LedgerAssumption DEF LogTable, TradeRow
<1>2. PICK d \in {log[t].date : t \in ts} : \A e \in {log[t].date : t \in ts} : d <= e
  <2> DEFINE dates == {log[t].date : t \in ts}
  <2>1. dates \in SUBSET Nat /\ dates # {}
    BY <1>1
  <2> HIDE DEF dates
  <2>2. \E d \in dates : \A e \in dates : d <= e
    BY <2>1, LeastNat
  <2> QED BY <2>2 DEF dates
<1>3. PICK t \in {u \in ts : log[u].date = d} : \A u \in {v \in ts : log[v].date = d} : t <= u
  <2> DEFINE same == {u \in ts : log[u].date = d}
  <2>1. same \in SUBSET Nat /\ same # {}
    BY <1>1, <1>2
  <2> HIDE DEF same
  <2>2. \E t \in same : \A u \in same : t <= u
    BY <2>1, LeastNat
  <2> QED BY <2>2 DEF same
<1>4. t \in ts /\ \A u \in ts : log[t].date < log[u].date \/ (log[t].date = log[u].date /\ t <= u)
  <2>1. SUFFICES ASSUME NEW u \in ts
                 PROVE  log[t].date < log[u].date \/ (log[t].date = log[u].date /\ t <= u)
    BY <1>3
  <2>2. d <= log[u].date /\ log[t].date = d
    BY <1>2, <1>3
  <2>3. log[u].date = d => t <= u
    BY <1>3
  <2> QED BY <1>1, <1>3, <2>2, <2>3
<1> QED BY <1>4 DEF Earliest, Sooner

--------------------------------------------------------------------------------
(* The lots of a replay. *)

(* table holds exactly one lot of every BUY among the trades ids of log,   *)
(* of its key, and no other.                                               *)
Matches(log, table, ids) ==
  /\ \A l \in DOMAIN table : /\ table[l].trade \in ids
                             /\ log[table[l].trade].action = "BUY"
                             /\ log[table[l].trade].key = table[l].key
  /\ \A t \in ids : log[t].action = "BUY" =>
       \E l \in DOMAIN table : table[l].trade = t
                               /\ \A m \in DOMAIN table : table[m].trade = t => m = l

(* What the fields of a step of a replay are.                              *)
LEMMA BuyStepIs ==
  ASSUME NEW log, NEW s, NEW t, t = Earliest(log, s.todo), s.todo # {}, s.ok, log[t].action = "BUY"
  PROVE  /\ ReplayStep(log, s).todo = s.todo \ {t}
         /\ ReplayStep(log, s).mem = Append(s.mem, MemoryLot(t, log[t].qty, log[t].unit))
         /\ ReplayStep(log, s).table
              = Put(s.table, s.seq + 1, NewLot(t, log[t].key, log[t].qty, log[t].unit))
         /\ ReplayStep(log, s).seq = s.seq + 1
         /\ ReplayStep(log, s).realized = s.realized
         /\ ReplayStep(log, s).ok
<1>1. ReplayStep(log, s) = ReplayBuy(s, t, log[t])
  BY DEF ReplayStep
<1> QED BY <1>1 DEF ReplayBuy, Replay

(* A SELL that is covered.                                                 *)
LEMMA SellStepIs ==
  ASSUME NEW log, NEW s, NEW t, t = Earliest(log, s.todo), s.todo # {}, s.ok, log[t].action # "BUY",
         ReplayStep(log, s).ok
  PROVE  /\ ReplayStep(log, s).todo = s.todo \ {t}
         /\ ReplayStep(log, s).mem = AfterReplayedSale(s.mem, log[t].qty)
         /\ ReplayStep(log, s).table = BulkUpdate(s.table, AfterReplayedSale(s.mem, log[t].qty))
         /\ ReplayStep(log, s).seq = s.seq
         /\ ReplayStep(log, s).realized = s.realized
              + (log[t].qty * log[t].unit
                   - CostOfSale(MemoryQueue(s.mem), MemoryCost(s.mem), log[t].qty, Len(s.mem)))
         /\ ~ (log[t].qty > Available(MemoryQueue(s.mem), Len(s.mem)))
<1>1. ReplayStep(log, s) = ReplaySell(s, t, log[t])
  BY DEF ReplayStep
<1>2. ~ (log[t].qty > Available(MemoryQueue(s.mem), Len(s.mem)))
  BY <1>1 DEF ReplaySell, Replay
<1>3. ReplayStep(log, s)
        = LET mem == AfterReplayedSale(s.mem, log[t].qty)
          IN  Replay(s.todo \ {t}, mem, BulkUpdate(s.table, mem), s.seq, s.realized +
                (log[t].qty * log[t].unit
                   - CostOfSale(MemoryQueue(s.mem), MemoryCost(s.mem), log[t].qty, Len(s.mem))), TRUE)
  BY <1>1, <1>2 DEF ReplaySell
<1> QED BY <1>2, <1>3 DEF Replay

(* A round that ends refused writes nothing.                               *)
LEMMA RefusedStepIs ==
  ASSUME NEW log, NEW s, ~ ReplayStep(log, s).ok
  PROVE  /\ ReplayStep(log, s).todo = s.todo /\ ReplayStep(log, s).mem = s.mem
         /\ ReplayStep(log, s).table = s.table /\ ReplayStep(log, s).seq = s.seq
<1> DEFINE t == Earliest(log, s.todo)
<1>1. CASE s.todo = {} \/ ~ s.ok
  BY <1>1 DEF ReplayStep
<1>2. CASE ~ (s.todo = {} \/ ~ s.ok) /\ log[t].action = "BUY"
  BY <1>2, BuyStepIs
<1>3. CASE ~ (s.todo = {} \/ ~ s.ok) /\ log[t].action # "BUY"
  <2>1. ReplayStep(log, s) = ReplaySell(s, t, log[t])
    BY <1>3 DEF ReplayStep
  <2>2. ReplaySell(s, t, log[t]) = Replay(s.todo, s.mem, s.table, s.seq, s.realized, FALSE)
    BY <2>1 DEF ReplaySell, Replay
  <2> QED BY <2>1, <2>2 DEF Replay
<1> QED BY <1>1, <1>2, <1>3

(* A new lot of the next BUY, and lots that only lose shares.              *)
LEMMA LotMatches ==
  ASSUME NEW log, NEW table, NEW ids, Matches(log, table, ids),
         NEW l, l \notin DOMAIN table, NEW t, t \notin ids, log[t].action = "BUY", NEW lot,
         lot.trade = t, lot.key = log[t].key
  PROVE  Matches(log, Put(table, l, lot), ids \cup {t})
<1> DEFINE more == Put(table, l, lot)
<1>1. /\ DOMAIN more = DOMAIN table \cup {l} /\ more[l] = lot
      /\ \A m \in DOMAIN table : more[m] = table[m]
  BY DEF Put
<1> HIDE DEF more
<1>2. \A m \in DOMAIN table : table[m].trade # t
  BY DEF Matches
<1>3. ASSUME NEW m \in DOMAIN more
      PROVE  /\ more[m].trade \in ids \cup {t} /\ log[more[m].trade].action = "BUY"
             /\ log[more[m].trade].key = more[m].key
  BY <1>1 DEF Matches
<1>4. ASSUME NEW u \in ids \cup {t}, log[u].action = "BUY"
      PROVE  \E m \in DOMAIN more : more[m].trade = u
               /\ \A p \in DOMAIN more : more[p].trade = u => p = m
  <2>1. CASE u = t
    BY <1>1, <1>2, <2>1
  <2>2. CASE u # t
    <3>1. PICK m \in DOMAIN table : table[m].trade = u
                                    /\ \A p \in DOMAIN table : table[p].trade = u => p = m
      BY <1>4, <2>2 DEF Matches
    <3>2. m \in DOMAIN more /\ more[m].trade = u /\ \A p \in DOMAIN more : more[p].trade = u => p = m
      BY <1>1, <2>2, <3>1
    <3> QED BY <3>2
  <2> QED BY <2>1, <2>2
<1>5. Matches(log, more, ids \cup {t})
  BY <1>3, <1>4 DEF Matches
<1> QED BY <1>5 DEF more

(* Lots whose shares alone differ.                                         *)
LEMMA SameLotsMatch ==
  ASSUME NEW log, NEW one, NEW ids, Matches(log, one, ids), NEW two, DOMAIN two = DOMAIN one,
         \A l \in DOMAIN one : two[l].trade = one[l].trade /\ two[l].key = one[l].key
  PROVE  Matches(log, two, ids)
BY DEF Matches

(* What bulk_update writes is neither the trade nor the key of a lot.      *)
LEMMA BulkUpdateIs ==
  ASSUME NEW table, NEW mem
  PROVE  /\ DOMAIN BulkUpdate(table, mem) = DOMAIN table
         /\ \A l \in DOMAIN table : /\ BulkUpdate(table, mem)[l].trade = table[l].trade
                                    /\ BulkUpdate(table, mem)[l].key = table[l].key
<1>1. BulkUpdate(table, mem)
        = [l \in DOMAIN table |->
             IF \E i \in DOMAIN mem : mem[i].id = l
             THEN LotLeft(table[l], mem[CHOOSE i \in DOMAIN mem : mem[i].id = l].remaining)
             ELSE table[l]]
  BY DEF BulkUpdate
<1> QED BY <1>1 DEF LotLeft

(* The lots that table has and base has not are lots of k.                 *)
KeysFrom(base, k, table) ==
  \A l \in DOMAIN table : table[l].key = k \/ (l \in DOMAIN base /\ table[l].key = base[l].key)

(* A replay under way: kept are the trades whose lots it found in base.    *)
Replaying(log, base, first, kept, k, ts, s) ==
  /\ s.todo \subseteq ts
  /\ s.ok \in BOOLEAN
  /\ s.seq \in Nat /\ first <= s.seq
  /\ DOMAIN s.table \subseteq 1..s.seq
  /\ KeysFrom(base, k, s.table)
  /\ Matches(log, s.table, kept \cup (ts \ s.todo))

TradesOf(log, k) == {t \in DOMAIN log : log[t].key = k}

(* A round gives the trade it does its lot, if it is a BUY, and draws at   *)
(* most one id.                                                            *)
LEMMA StepReplays ==
  ASSUME NEW log, NEW n \in Nat, LogTable(log, n), NEW base, NEW first \in Nat, NEW k,
         NEW kept, kept \cap TradesOf(log, k) = {},
         NEW s, Replaying(log, base, first, kept, k, TradesOf(log, k), s)
  PROVE  Replaying(log, base, first, kept, k, TradesOf(log, k), ReplayStep(log, s))
<1> DEFINE ts == TradesOf(log, k)
<1> DEFINE r == ReplayStep(log, s)
<1> DEFINE t == Earliest(log, s.todo)
<1>1. ts \subseteq DOMAIN log /\ \A u \in ts : log[u].key = k
  BY DEF TradesOf
<1> HIDE DEF ts
<1>2. /\ s.todo \subseteq ts /\ s.ok \in BOOLEAN /\ s.seq \in Nat /\ first <= s.seq
      /\ DOMAIN s.table \subseteq 1..s.seq
      /\ KeysFrom(base, k, s.table)
      /\ Matches(log, s.table, kept \cup (ts \ s.todo))
  BY DEF Replaying, ts
<1>3. CASE s.todo = {} \/ ~ s.ok
  BY <1>3 DEF ReplayStep
<1>4. CASE s.todo # {} /\ s.ok
  <2>1. t \in s.todo
    BY <1>1, <1>2, <1>4, EarliestIs
  <2>2. t \in ts /\ log[t].key = k /\ t \notin kept \cup (ts \ s.todo)
        /\ kept \cup (ts \ (s.todo \ {t})) = (kept \cup (ts \ s.todo)) \cup {t}
    BY <1>1, <1>2, <2>1 DEF ts
  <2>3. CASE log[t].action = "BUY"
    <3> DEFINE lot == NewLot(t, log[t].key, log[t].qty, log[t].unit)
    <3>1. /\ r.todo = s.todo \ {t} /\ r.table = Put(s.table, s.seq + 1, lot)
          /\ r.seq = s.seq + 1 /\ r.ok = TRUE
      <4>1. /\ r.todo = s.todo \ {t} /\ r.table = Put(s.table, s.seq + 1, lot) /\ r.seq = s.seq + 1
        BY <1>4, <2>3, BuyStepIs
      <4>2. r = ReplayBuy(s, t, log[t])
        BY <1>4, <2>3 DEF ReplayStep
      <4> QED BY <4>1, <4>2 DEF ReplayBuy, Replay
    <3>2. lot.trade = t /\ lot.key = log[t].key
      BY DEF NewLot
    <3> HIDE DEF lot, r
    <3>3. s.seq + 1 \notin DOMAIN s.table
      BY <1>2
    <3>4. Matches(log, Put(s.table, s.seq + 1, lot), kept \cup (ts \ r.todo))
      <4>1. Matches(log, Put(s.table, s.seq + 1, lot), (kept \cup (ts \ s.todo)) \cup {t})
        BY <1>2, <2>2, <2>3, <3>2, <3>3, LotMatches
      <4> QED BY <2>2, <3>1, <4>1
    <3>5. /\ DOMAIN r.table = DOMAIN s.table \cup {s.seq + 1} /\ r.table[s.seq + 1] = lot
          /\ \A l \in DOMAIN s.table : r.table[l] = s.table[l]
      BY <3>1, <3>3 DEF Put
    <3>6. /\ r.seq \in Nat /\ first <= r.seq /\ DOMAIN r.table \subseteq 1..r.seq
      <4>1. 1..s.seq \subseteq 1..(s.seq + 1) /\ s.seq + 1 \in 1..(s.seq + 1)
        BY <1>2
      <4> QED BY <1>2, <3>1, <3>5, <4>1
    <3>7. KeysFrom(base, k, r.table)
      BY <1>2, <2>2, <3>2, <3>5 DEF KeysFrom
    <3>8. r.todo \subseteq ts /\ r.ok \in BOOLEAN
      BY <1>2, <3>1
    <3>9. Replaying(log, base, first, kept, k, ts, r)
      BY <3>1, <3>4, <3>6, <3>7, <3>8 DEF Replaying
    <3> QED BY <3>9 DEF ts, r
  <2>4. CASE log[t].action # "BUY"
    <3>1. /\ \/ r.todo = s.todo \ {t} \/ r.todo = s.todo
          /\ DOMAIN r.table = DOMAIN s.table
          /\ \A l \in DOMAIN s.table : r.table[l].trade = s.table[l].trade
                                       /\ r.table[l].key = s.table[l].key
          /\ r.seq = s.seq /\ r.ok \in BOOLEAN
      <4>1. r = ReplaySell(s, t, log[t])
        BY <1>4, <2>4 DEF ReplayStep
      <4>2. r.ok \in BOOLEAN
        BY <4>1 DEF ReplaySell, Replay
      <4>3. CASE ~ r.ok
        BY <4>2, <4>3, RefusedStepIs
      <4>4. CASE r.ok
        <5>1. /\ r.todo = s.todo \ {t} /\ r.seq = s.seq
              /\ r.table = BulkUpdate(s.table, AfterReplayedSale(s.mem, log[t].qty))
          BY <1>4, <2>4, <4>4, SellStepIs
        <5> QED BY <4>2, <5>1, BulkUpdateIs
      <4> QED BY <4>2, <4>3, <4>4
    <3> HIDE DEF r, t
    <3>2. Matches(log, r.table, kept \cup (ts \ s.todo))
      BY <1>2, <3>1, SameLotsMatch
    <3>3. Matches(log, r.table, kept \cup (ts \ r.todo))
      <4>1. CASE r.todo = s.todo
        BY <3>2, <4>1
      <4>2. CASE r.todo = s.todo \ {t}
        BY <2>2, <2>4, <3>2, <4>2 DEF Matches
      <4> QED BY <3>1, <4>1, <4>2
    <3>4. r.todo \subseteq ts
      BY <1>2, <3>1
    <3>5. KeysFrom(base, k, r.table)
      BY <1>2, <3>1 DEF KeysFrom
    <3>6. Replaying(log, base, first, kept, k, ts, r)
      BY <1>2, <3>1, <3>3, <3>4, <3>5 DEF Replaying
    <3> QED BY <3>6 DEF ts, r
  <2> QED BY <2>3, <2>4
<1> QED BY <1>2, <1>3, <1>4

(* Where a rebuild of k starts.                                            *)
Wiped(log, table, seq, k) ==
  Replay(TradesOf(log, k), <<>>, WithoutLotsOf(table, TradesOf(log, k)), seq, 0, TRUE)

(* A rebuild starts from the lots of the other keys.                       *)
LEMMA WipedReplays ==
  ASSUME NEW log, NEW table, NEW seq \in Nat, DOMAIN table \subseteq 1..seq, NEW k, NEW kept,
         Matches(log, WithoutLotsOf(table, TradesOf(log, k)), kept)
  PROVE  Replaying(log, table, seq, kept, k, TradesOf(log, k), Wiped(log, table, seq, k))
<1> DEFINE ts == TradesOf(log, k)
<1> DEFINE left == WithoutLotsOf(table, ts)
<1>1. DOMAIN left \subseteq DOMAIN table /\ KeysFrom(table, k, left)
  BY DEF WithoutLotsOf, KeysFrom
<1> DEFINE s == Wiped(log, table, seq, k)
<1>2. s.todo = ts /\ s.ok = TRUE /\ s.seq = seq /\ s.table = left
  BY DEF Wiped, Replay
<1> HIDE DEF s, left, ts
<1>3. kept \cup (ts \ s.todo) = kept
  BY <1>2
<1>4. Matches(log, s.table, kept \cup (ts \ s.todo))
  <2>1. Matches(log, s.table, kept)
    BY <1>2 DEF left, ts
  <2> QED BY <1>3, <2>1
<1>5. Replaying(log, table, seq, kept, k, ts, s)
  <2>1. s.ok \in BOOLEAN
    BY <1>2
  <2>2. DOMAIN s.table \subseteq 1..s.seq /\ KeysFrom(table, k, s.table)
    BY <1>1, <1>2
  <2>3. s.todo \subseteq ts /\ s.seq \in Nat /\ seq <= s.seq
    BY <1>2
  <2> QED BY <1>4, <2>1, <2>2, <2>3, Zenon DEF Replaying
<1> QED BY <1>5 DEF s, ts

(* A trade less to do with every round, so that a replay of as many rounds *)
(* as there are trades has done them all, unless a sale ran short.         *)
LEMMA RoundsReplay ==
  ASSUME NEW log, NEW n \in Nat, LogTable(log, n),
         NEW table, NEW seq \in Nat, DOMAIN table \subseteq 1..seq, NEW k,
         NEW kept, kept \cap TradesOf(log, k) = {},
         Matches(log, WithoutLotsOf(table, TradesOf(log, k)), kept)
  PROVE  /\ IsFiniteSet(TradesOf(log, k)) /\ Cardinality(TradesOf(log, k)) \in Nat
         /\ \A i \in Nat :
              LET s == Replayed(log, Wiped(log, table, seq, k))[i] IN
              /\ Replaying(log, table, seq, kept, k, TradesOf(log, k), s)
              /\ s.ok /\ i <= Cardinality(TradesOf(log, k))
                   => Cardinality(s.todo) = Cardinality(TradesOf(log, k)) - i
<1> DEFINE ts == TradesOf(log, k)
<1> DEFINE after == Replayed(log, Wiped(log, table, seq, k))
<1>1. ts \subseteq 1..n /\ ts \subseteq DOMAIN log
  BY DEF TradesOf, LogTable
<1>2. IsFiniteSet(ts) /\ Cardinality(ts) \in Nat
  <2>1. IsFiniteSet(1..n)
    BY FS_Interval
  <2>2. IsFiniteSet(ts)
    BY <1>1, <2>1, FS_Subset
  <2> QED BY <2>2, FS_CardinalityType
<1> DEFINE Good(s, i) == /\ Replaying(log, table, seq, kept, k, ts, s)
                         /\ s.ok /\ i <= Cardinality(ts) => Cardinality(s.todo) = Cardinality(ts) - i
<1> DEFINE S == {i \in Nat : Good(after[i], i)}
<1>3. /\ after[0] = Wiped(log, table, seq, k)
      /\ \A i \in Nat : after[i + 1] = ReplayStep(log, after[i])
  BY ReplayedRounds
<1> HIDE DEF after
<1>4. 0 \in S
  <2>1. Replaying(log, table, seq, kept, k, ts, after[0])
    BY <1>3, WipedReplays
  <2>2. after[0].todo = ts
    BY <1>3 DEF Wiped, Replay
  <2>3. Cardinality(after[0].todo) = Cardinality(ts) - 0
    BY <1>2, <2>2
  <2> QED BY <2>1, <2>3
<1>5. ASSUME NEW i \in Nat, i \in S PROVE i + 1 \in S
  <2> DEFINE s == after[i]
  <2> DEFINE r == after[i + 1]
  <2>1. r = ReplayStep(log, s)
    BY <1>3
  <2>2. Good(s, i)
    BY <1>5
  <2> HIDE DEF s, r
  <2>3. Replaying(log, table, seq, kept, k, ts, r)
    BY <2>1, <2>2, StepReplays
  <2>4. ASSUME r.ok, i + 1 <= Cardinality(ts)
        PROVE  Cardinality(r.todo) = Cardinality(ts) - (i + 1)
    <3> DEFINE t == Earliest(log, s.todo)
    <3>1. s.todo \subseteq ts /\ s.ok \in BOOLEAN
      BY <2>2 DEF Replaying
    <3>2. s.ok
      <4>1. CASE ~ s.ok
        <5>1. r = s
          BY <2>1, <4>1 DEF ReplayStep
        <5> QED BY <2>4, <4>1, <5>1
      <4> QED BY <4>1
    <3>3. IsFiniteSet(s.todo) /\ Cardinality(s.todo) = Cardinality(ts) - i
      BY <1>2, <2>2, <2>4, <3>1, <3>2, FS_Subset
    <3>4. s.todo # {}
      <4>1. s.todo = {} => Cardinality(s.todo) = 0
        BY FS_EmptySet
      <4>2. Cardinality(s.todo) # 0
        BY <1>2, <2>4, <3>3
      <4> QED BY <4>1, <4>2
    <3>5. t \in s.todo
      BY <1>1, <3>1, <3>4, EarliestIs
    <3>6. r.todo = s.todo \ {t}
      BY <2>1, <2>4, <3>2, <3>4, BuyStepIs, SellStepIs
    <3>7. Cardinality(s.todo \ {t}) = Cardinality(s.todo) - 1
      BY <3>3, <3>5, FS_RemoveElement
    <3> QED BY <1>2, <3>3, <3>6, <3>7
  <2>5. Good(r, i + 1)
    BY <2>3, <2>4
  <2> QED BY <2>5 DEF r
<1> HIDE DEF S
<1>6. Nat \subseteq S
  BY <1>4, <1>5, SetInduction
<1> QED BY <1>2, <1>6 DEF S, after

(* What a rebuild of k leaves: fresh lots of k only, and when it is not    *)
(* refused a lot for each BUY of k besides those of the trades ids.        *)
Rebuilt(log, table, first, k, ids, r) ==
  /\ r.ok \in BOOLEAN
  /\ r.seq \in Nat /\ first <= r.seq
  /\ DOMAIN r.table \subseteq 1..r.seq
  /\ KeysFrom(table, k, r.table)
  /\ r.ok => r.todo = {} /\ Matches(log, r.table, ids)

(* What a rebuild returns is its last round.                               *)
LEMMA RebuildMatches ==
  ASSUME NEW log, NEW n \in Nat, LogTable(log, n),
         NEW table, NEW seq \in Nat, DOMAIN table \subseteq 1..seq, NEW k,
         NEW kept, kept \cap TradesOf(log, k) = {},
         Matches(log, WithoutLotsOf(table, TradesOf(log, k)), kept),
         NEW r, r = Rebuild(log, table, seq, k)
  PROVE  /\ r = Replayed(log, Wiped(log, table, seq, k))[Cardinality(TradesOf(log, k))]
         /\ Rebuilt(log, table, seq, k, kept \cup TradesOf(log, k), r)
<1> DEFINE ts == TradesOf(log, k)
<1>1. r = Replayed(log, Wiped(log, table, seq, k))[Cardinality(ts)]
  BY DEF Rebuild, Wiped, TradesOf
<1>2. /\ IsFiniteSet(ts) /\ Cardinality(ts) \in Nat
      /\ Replaying(log, table, seq, kept, k, ts, r)
      /\ r.ok => Cardinality(r.todo) = Cardinality(ts) - Cardinality(ts)
  BY <1>1, RoundsReplay
<1>3. /\ r.ok \in BOOLEAN /\ r.seq \in Nat /\ seq <= r.seq /\ DOMAIN r.table \subseteq 1..r.seq
      /\ KeysFrom(table, k, r.table)
      /\ Matches(log, r.table, kept \cup (ts \ r.todo)) /\ r.todo \subseteq ts
  BY <1>2 DEF Replaying
<1>4. r.ok => r.todo = {}
  <2>1. Cardinality(ts) - Cardinality(ts) = 0
    BY <1>2
  <2>2. IsFiniteSet(r.todo)
    BY <1>2, <1>3, FS_Subset
  <2> QED BY <1>2, <2>1, <2>2, FS_EmptySet
<1>5. r.ok => Matches(log, r.table, kept \cup ts)
  <2>1. r.ok => kept \cup (ts \ r.todo) = kept \cup ts
    BY <1>4
  <2> QED BY <1>3, <2>1
<1>6. Rebuilt(log, table, seq, k, kept \cup ts, r)
  BY <1>3, <1>4, <1>5 DEF Rebuilt
<1> QED BY <1>1, <1>6

--------------------------------------------------------------------------------
(* The lots of the log, through every operation. *)

ReplayInv ==
  /\ tradeSeq \in Nat /\ LogTable(trades, tradeSeq)
  /\ lotSeq \in Nat /\ DOMAIN lots \subseteq 1..lotSeq
  /\ Matches(trades, lots, DOMAIN trades)

(* The lots without those of the trades ids.                               *)
LEMMA WipedMatches ==
  ASSUME NEW log, NEW table, NEW all, Matches(log, table, all), NEW ids
  PROVE  Matches(log, WithoutLotsOf(table, ids), all \ ids)
<1> DEFINE left == WithoutLotsOf(table, ids)
<1>1. /\ DOMAIN left = {l \in DOMAIN table : table[l].trade \notin ids}
      /\ \A l \in DOMAIN left : left[l] = table[l]
  BY DEF WithoutLotsOf
<1> HIDE DEF left
<1>2. \A l \in DOMAIN left : /\ left[l].trade \in all \ ids
                             /\ log[left[l].trade].action = "BUY"
                             /\ log[left[l].trade].key = left[l].key
  BY <1>1 DEF Matches
<1>3. ASSUME NEW t \in all \ ids, log[t].action = "BUY"
      PROVE  \E l \in DOMAIN left : left[l].trade = t
                                    /\ \A m \in DOMAIN left : left[m].trade = t => m = l
  <2>1. PICK l \in DOMAIN table : table[l].trade = t
                                  /\ \A m \in DOMAIN table : table[m].trade = t => m = l
    BY <1>3 DEF Matches
  <2>2. l \in DOMAIN left /\ left[l].trade = t /\ \A m \in DOMAIN left : left[m].trade = t => m = l
    BY <1>1, <2>1
  <2> QED BY <2>2
<1> QED BY <1>2, <1>3 DEF Matches, left

(* A log that reads the same at the ids keeps the match.                   *)
LEMMA SameLogMatches ==
  ASSUME NEW one, NEW table, NEW ids, Matches(one, table, ids), NEW two,
         \A t \in ids : two[t] = one[t]
  PROVE  Matches(two, table, ids)
BY DEF Matches

(* An edit rebuilds one key after its trade was taken out of the lots.     *)
LEMMA EditRebuilds ==
  ASSUME NEW log, NEW n \in Nat, LogTable(log, n),
         NEW table, NEW seq \in Nat, DOMAIN table \subseteq 1..seq,
         NEW ids, Matches(log, table, ids), NEW k,
         NEW r, r = Rebuild(log, table, seq, k)
  PROVE  Rebuilt(log, table, seq, k, ids \cup TradesOf(log, k), r)
<1>1. PICK kept : kept = ids \ TradesOf(log, k)
  OBVIOUS
<1>2. kept \cap TradesOf(log, k) = {} /\ kept \cup TradesOf(log, k) = ids \cup TradesOf(log, k)
  BY <1>1
<1>3. Matches(log, WithoutLotsOf(table, TradesOf(log, k)), kept)
  BY <1>1, WipedMatches
<1>4. Rebuilt(log, table, seq, k, kept \cup TradesOf(log, k), r)
  BY <1>2, <1>3, RebuildMatches
<1> QED BY <1>2, <1>4

(* r is what an accepted rebuild of k over the log left.                   *)
Accepted(log, k, r) ==
  /\ r.ok
  /\ \E table, ids : \E seq \in Nat :
       DOMAIN table \subseteq 1..seq /\ Matches(log, table, ids) /\ r = Rebuild(log, table, seq, k)

(* An accepted edit: which keys it rebuilt, and what it wrote.             *)
EditWritten(one, other, first, second) ==
  /\ tradeSeq' = tradeSeq /\ LogTable(trades', tradeSeq')
  /\ Accepted(trades', one, first) /\ Accepted(trades', other, second)
  /\ lotSeq' \in Nat /\ DOMAIN lots' \subseteq 1..lotSeq'
  /\ Matches(trades', lots', DOMAIN trades')
  /\ \A l \in DOMAIN lots' : l \in DOMAIN lots \/ lots'[l].key \in {one, other}
  /\ \A t \in DOMAIN trades : t \notin DOMAIN trades' \/ trades'[t] # trades[t]
                                => trades[t].key = one
  /\ \A t \in DOMAIN trades' : t \notin DOMAIN trades \/ trades'[t] # trades[t]
                                => trades'[t].key = other
  /\ positions' = Put(Put(positions, one, RebuiltPosition(first)), other, RebuiltPosition(second))

(* A refused edit.                                                         *)
EditRefused ==
  /\ UNCHANGED <<trades, lots, tradeSeq, positions>>
  /\ lotSeq' \in Nat /\ lotSeq <= lotSeq'
  /\ reply'.outcome # "ok"

(* Refuse writes nothing but the last lot id.                              *)
LEMMA RefusalIs ==
  ASSUME NEW user, NEW op, NEW lastLot, lastLot \in Nat, lotSeq <= lastLot, Refuse(user, op, lastLot)
  PROVE  EditRefused
BY DEF Refuse, EditRefused, Answer

(* update_trade is refused, or rebuilds the old key and the new one.       *)
LEMMA UpdateEffects ==
  ASSUME ReplayInv, NEW t \in DOMAIN trades, NEW row \in TradeRow, UpdateTrade(t, row)
  PROVE  \/ EditRefused
         \/ \E first, second : EditWritten(trades[t].key, row.key, first, second)
<1> DEFINE old == trades[t].key
<1> DEFINE user == Owner[old[1]]
<1>1. PICK log : log = [trades EXCEPT ![t] = row]
  OBVIOUS
<1>2. PICK table : table = WithoutLotsOf(lots, {t})
  OBVIOUS
<1>3. PICK first : first = Rebuild(log, table, lotSeq, old)
  OBVIOUS
<1>4. PICK second : second = IF row.key = old THEN first ELSE Rebuild(log, first.table, first.seq, row.key)
  OBVIOUS
<1>5. \/ /\ first.ok /\ second.ok /\ trades' = log /\ lots' = second.table /\ lotSeq' = second.seq
         /\ positions' = Put(Put(positions, old, RebuiltPosition(first)),
                             row.key, RebuiltPosition(second))
         /\ UNCHANGED <<tradeSeq, dividendVars>>
      \/ ~ first.ok /\ Refuse(user, "update", first.seq)
      \/ first.ok /\ ~ second.ok /\ Refuse(user, "update", second.seq)
  BY <1>1, <1>2, <1>3, <1>4, Zenon DEF UpdateTrade
<1>6. /\ tradeSeq \in Nat /\ LogTable(trades, tradeSeq) /\ lotSeq \in Nat
      /\ DOMAIN lots \subseteq 1..lotSeq /\ Matches(trades, lots, DOMAIN trades)
  BY DEF ReplayInv
<1>7. /\ LogTable(log, tradeSeq) /\ DOMAIN log = DOMAIN trades /\ log[t] = row
      /\ \A u \in DOMAIN trades : u # t => log[u] = trades[u]
  BY <1>1, <1>6 DEF LogTable
<1>8. DOMAIN table \subseteq 1..lotSeq /\ \A l \in DOMAIN table : l \in DOMAIN lots
  BY <1>2, <1>6 DEF WithoutLotsOf
<1>9. PICK rest : rest = DOMAIN trades \ {t}
  OBVIOUS
<1>10. Matches(log, table, rest)
  <2>1. Matches(trades, table, rest)
    BY <1>2, <1>6, <1>9, WipedMatches
  <2>2. \A u \in rest : log[u] = trades[u]
    BY <1>7, <1>9
  <2> QED BY <2>1, <2>2, SameLogMatches
<1>11. Rebuilt(log, table, lotSeq, old, rest \cup TradesOf(log, old), first)
  BY <1>3, <1>6, <1>7, <1>8, <1>10, EditRebuilds
<1>12. /\ first.ok \in BOOLEAN /\ first.seq \in Nat /\ lotSeq <= first.seq
       /\ DOMAIN first.table \subseteq 1..first.seq
       /\ KeysFrom(table, old, first.table)
       /\ first.ok => Matches(log, first.table, rest \cup TradesOf(log, old))
  BY <1>11 DEF Rebuilt
<1>13. CASE ~ first.ok
  <2>1. Refuse(user, "update", first.seq)
    BY <1>5, <1>13
  <2> QED BY <1>12, <2>1, RefusalIs
<1>14. CASE first.ok /\ row.key = old
  <2>1. second = first
    BY <1>4, <1>14
  <2>2. rest \cup TradesOf(log, old) = DOMAIN log
    BY <1>7, <1>9, <1>14 DEF TradesOf
  <2>3. Accepted(log, old, first)
    BY <1>3, <1>6, <1>8, <1>10, <1>14 DEF Accepted
  <2>4. /\ trades' = log /\ lots' = first.table /\ lotSeq' = first.seq /\ tradeSeq' = tradeSeq
        /\ positions' = Put(Put(positions, old, RebuiltPosition(first)),
                            row.key, RebuiltPosition(second))
    BY <1>5, <1>14, <2>1
  <2>5. EditWritten(old, row.key, first, second)
    BY <1>7, <1>8, <1>12, <1>14, <2>1, <2>2, <2>3, <2>4 DEF EditWritten, KeysFrom
  <2> QED BY <2>5
<1>15. CASE first.ok /\ row.key # old
  <2>1. second = Rebuild(log, first.table, first.seq, row.key)
    BY <1>4, <1>15
  <2>2. Rebuilt(log, first.table, first.seq, row.key,
                (rest \cup TradesOf(log, old)) \cup TradesOf(log, row.key), second)
    BY <1>6, <1>7, <1>12, <1>15, <2>1, EditRebuilds
  <2>3. /\ second.ok \in BOOLEAN /\ second.seq \in Nat /\ first.seq <= second.seq
        /\ DOMAIN second.table \subseteq 1..second.seq
        /\ KeysFrom(first.table, row.key, second.table)
        /\ second.ok => Matches(log, second.table,
                                (rest \cup TradesOf(log, old)) \cup TradesOf(log, row.key))
    BY <2>2 DEF Rebuilt
  <2>4. (rest \cup TradesOf(log, old)) \cup TradesOf(log, row.key) = DOMAIN log
    BY <1>7, <1>9 DEF TradesOf
  <2>5. CASE ~ second.ok
    <3>1. Refuse(user, "update", second.seq)
      BY <1>5, <1>15, <2>5
    <3>2. lotSeq <= second.seq
      BY <1>6, <1>12, <2>3
    <3> QED BY <2>3, <3>1, <3>2, RefusalIs
  <2>6. CASE second.ok
    <3>1. /\ trades' = log /\ lots' = second.table /\ lotSeq' = second.seq /\ tradeSeq' = tradeSeq
          /\ positions' = Put(Put(positions, old, RebuiltPosition(first)),
                              row.key, RebuiltPosition(second))
      BY <1>5, <1>15, <2>6
    <3>2. Accepted(log, old, first)
      BY <1>3, <1>6, <1>8, <1>10, <1>15 DEF Accepted
    <3>3. Accepted(log, row.key, second)
      BY <1>12, <1>15, <2>1, <2>6 DEF Accepted
    <3>4. \A l \in DOMAIN lots' : l \in DOMAIN lots \/ lots'[l].key \in {old, row.key}
      BY <1>8, <1>12, <2>3, <3>1 DEF KeysFrom
    <3>5. EditWritten(old, row.key, first, second)
      BY <1>7, <2>3, <2>4, <2>6, <3>1, <3>2, <3>3, <3>4 DEF EditWritten
    <3> QED BY <3>5
  <2> QED BY <2>3, <2>5, <2>6
<1> QED BY <1>12, <1>13, <1>14, <1>15

(* delete_trade is refused, or rebuilds the key of the trade.              *)
LEMMA DeleteEffects ==
  ASSUME ReplayInv, NEW t \in DOMAIN trades, DeleteTrade(t)
  PROVE  \/ EditRefused
         \/ \E built : EditWritten(trades[t].key, trades[t].key, built, built)
<1> DEFINE k == trades[t].key
<1> DEFINE user == Owner[k[1]]
<1>1. PICK log : log = [u \in DOMAIN trades \ {t} |-> trades[u]]
  OBVIOUS
<1>2. PICK table : table = WithoutLotsOf(lots, {t})
  OBVIOUS
<1>3. PICK built : built = Rebuild(log, table, lotSeq, k)
  OBVIOUS
<1>4. \/ /\ built.ok /\ trades' = log /\ lots' = built.table /\ lotSeq' = built.seq
         /\ positions' = Put(positions, k, RebuiltPosition(built))
         /\ UNCHANGED <<tradeSeq, dividendVars>>
      \/ ~ built.ok /\ Refuse(user, "delete", built.seq)
  BY <1>1, <1>2, <1>3, Zenon DEF DeleteTrade
<1>5. /\ tradeSeq \in Nat /\ LogTable(trades, tradeSeq) /\ lotSeq \in Nat
      /\ DOMAIN lots \subseteq 1..lotSeq /\ Matches(trades, lots, DOMAIN trades)
  BY DEF ReplayInv
<1>6. /\ LogTable(log, tradeSeq) /\ DOMAIN log = DOMAIN trades \ {t}
      /\ \A u \in DOMAIN log : log[u] = trades[u]
  BY <1>1, <1>5 DEF LogTable
<1>7. DOMAIN table \subseteq 1..lotSeq /\ \A l \in DOMAIN table : l \in DOMAIN lots
  BY <1>2, <1>5 DEF WithoutLotsOf
<1>8. Matches(log, table, DOMAIN log)
  <2>1. Matches(trades, table, DOMAIN log)
    BY <1>2, <1>5, <1>6, WipedMatches
  <2> QED BY <1>6, <2>1, SameLogMatches
<1>9. Rebuilt(log, table, lotSeq, k, DOMAIN log \cup TradesOf(log, k), built)
  BY <1>3, <1>5, <1>6, <1>7, <1>8, EditRebuilds
<1>10. /\ built.ok \in BOOLEAN /\ built.seq \in Nat /\ lotSeq <= built.seq
       /\ DOMAIN built.table \subseteq 1..built.seq
       /\ KeysFrom(table, k, built.table)
       /\ built.ok => Matches(log, built.table, DOMAIN log \cup TradesOf(log, k))
  BY <1>9 DEF Rebuilt
<1>11. CASE ~ built.ok
  <2>1. Refuse(user, "delete", built.seq)
    BY <1>4, <1>11
  <2> QED BY <1>10, <2>1, RefusalIs
<1>12. CASE built.ok
  <2>1. /\ trades' = log /\ lots' = built.table /\ lotSeq' = built.seq /\ tradeSeq' = tradeSeq
        /\ positions' = Put(positions, k, RebuiltPosition(built))
    BY <1>4, <1>12
  <2>2. DOMAIN log \cup TradesOf(log, k) = DOMAIN log
    BY DEF TradesOf
  <2>3. Accepted(log, k, built)
    BY <1>3, <1>5, <1>7, <1>8, <1>12 DEF Accepted
  <2>4. \A l \in DOMAIN lots' : l \in DOMAIN lots \/ lots'[l].key = k
    BY <1>7, <1>10, <2>1 DEF KeysFrom
  <2>5. positions' = Put(Put(positions, k, RebuiltPosition(built)), k, RebuiltPosition(built))
    BY <2>1 DEF Put
  <2>6. EditWritten(k, k, built, built)
    BY <1>6, <1>10, <1>12, <2>1, <2>2, <2>3, <2>4, <2>5 DEF EditWritten
  <2> QED BY <2>6
<1> QED BY <1>10, <1>11, <1>12

(* Neither outcome of an edit breaks the invariant.                        *)
LEMMA EditsKeepLots ==
  ASSUME ReplayInv, EditRefused \/ \E one, other, first, second : EditWritten(one, other, first, second)
  PROVE  ReplayInv'
<1>1. CASE EditRefused
  <2>1. 1..lotSeq \subseteq 1..lotSeq'
    BY <1>1 DEF EditRefused, ReplayInv
  <2> QED BY <1>1, <2>1 DEF EditRefused, ReplayInv
<1>2. ASSUME NEW one, NEW other, NEW first, NEW second, EditWritten(one, other, first, second)
      PROVE  ReplayInv'
  BY <1>2 DEF EditWritten, ReplayInv
<1> QED BY <1>1, <1>2

(* Recording a trade.                                                      *)
LEMMA RecordKeepsLots ==
  ASSUME ReplayInv, NEW k \in Key, NEW qty \in Qty, NEW date \in Date, NEW unit \in Unit,
         RecordBuy(k, date, qty, unit) \/ RecordSell(k, date, qty, unit)
  PROVE  ReplayInv'
<1>1. /\ tradeSeq \in Nat /\ LogTable(trades, tradeSeq) /\ lotSeq \in Nat
      /\ DOMAIN lots \subseteq 1..lotSeq /\ Matches(trades, lots, DOMAIN trades)
  BY DEF ReplayInv
<1>2. tradeSeq + 1 \notin DOMAIN trades /\ lotSeq + 1 \notin DOMAIN lots
  BY <1>1 DEF LogTable
<1>3. ASSUME NEW row \in TradeRow, trades' = Put(trades, tradeSeq + 1, row), tradeSeq' = tradeSeq + 1
      PROVE  /\ tradeSeq' \in Nat /\ LogTable(trades', tradeSeq')
             /\ DOMAIN trades' = DOMAIN trades \cup {tradeSeq + 1}
             /\ trades'[tradeSeq + 1] = row
             /\ \A t \in DOMAIN trades : trades'[t] = trades[t]
  <2>1. LogTable(Put(trades, tradeSeq + 1, row), tradeSeq + 1)
    BY <1>1, CashGrows
  <2>2. /\ DOMAIN trades' = DOMAIN trades \cup {tradeSeq + 1} /\ trades'[tradeSeq + 1] = row
        /\ \A t \in DOMAIN trades : trades'[t] = trades[t]
    BY <1>2, <1>3 DEF Put
  <2> QED BY <1>1, <1>3, <2>1, <2>2
<1>4. CASE RecordBuy(k, date, qty, unit)
  <2> DEFINE row == Trade(k, "BUY", date, qty, unit)
  <2> DEFINE lot == NewLot(tradeSeq + 1, k, qty, unit)
  <2>1. /\ tradeSeq' = tradeSeq + 1 /\ lotSeq' = lotSeq + 1
        /\ trades' = Put(trades, tradeSeq + 1, row) /\ lots' = Put(lots, lotSeq + 1, lot)
    BY <1>4 DEF RecordBuy
  <2>2. row \in TradeRow /\ row.action = "BUY" /\ row.key = k /\ lot.trade = tradeSeq + 1 /\ lot.key = k
    BY DEF Trade, TradeRow, NewLot
  <2> HIDE DEF row, lot
  <2>3. /\ tradeSeq' \in Nat /\ LogTable(trades', tradeSeq')
        /\ DOMAIN trades' = DOMAIN trades \cup {tradeSeq + 1} /\ trades'[tradeSeq + 1] = row
        /\ \A t \in DOMAIN trades : trades'[t] = trades[t]
    BY <1>3, <2>1, <2>2
  <2>4. Matches(trades', lots, DOMAIN trades)
    BY <1>1, <2>3, SameLogMatches
  <2>5. Matches(trades', Put(lots, lotSeq + 1, lot), DOMAIN trades \cup {tradeSeq + 1})
    BY <1>2, <2>2, <2>3, <2>4, LotMatches
  <2>6. lotSeq' \in Nat /\ DOMAIN lots' \subseteq 1..lotSeq'
    <3>1. DOMAIN lots' = DOMAIN lots \cup {lotSeq + 1}
      BY <2>1 DEF Put
    <3> QED BY <1>1, <2>1, <3>1
  <2> QED BY <2>1, <2>3, <2>5, <2>6 DEF ReplayInv
<1>5. CASE RecordSell(k, date, qty, unit)
  <2> DEFINE row == Trade(k, "SELL", date, qty, unit)
  <2>1. /\ tradeSeq' = tradeSeq + 1 /\ lotSeq' = lotSeq
        /\ trades' = Put(trades, tradeSeq + 1, row) /\ lots' = AfterSale(lots, k, qty)
    BY <1>5 DEF RecordSell
  <2>2. row \in TradeRow /\ row.action = "SELL"
    BY DEF Trade, TradeRow
  <2> HIDE DEF row
  <2>3. /\ tradeSeq' \in Nat /\ LogTable(trades', tradeSeq')
        /\ DOMAIN trades' = DOMAIN trades \cup {tradeSeq + 1} /\ trades'[tradeSeq + 1] = row
        /\ \A t \in DOMAIN trades : trades'[t] = trades[t]
    BY <1>3, <2>1, <2>2
  <2>4. /\ DOMAIN lots' = DOMAIN lots
        /\ \A l \in DOMAIN lots : lots'[l].trade = lots[l].trade /\ lots'[l].key = lots[l].key
    BY <2>1 DEF AfterSale, LotLess
  <2>5. Matches(trades', lots', DOMAIN trades)
    <3>1. Matches(trades', lots, DOMAIN trades)
      BY <1>1, <2>3, SameLogMatches
    <3> QED BY <2>4, <3>1, SameLotsMatch
  <2>6. Matches(trades', lots', DOMAIN trades')
    BY <2>2, <2>3, <2>5 DEF Matches
  <2> QED BY <1>1, <2>1, <2>3, <2>4, <2>6 DEF ReplayInv
<1> QED BY <1>4, <1>5

(* Dividends write no trade, and of the lots only shares and costs.        *)
LEMMA DividendKeepsLots ==
  ASSUME ReplayInv, DividendNext
  PROVE  ReplayInv'
<1>1. UNCHANGED <<trades, tradeSeq, lotSeq>>
  BY DEF DividendNext, RecordCash, RecordStock, UpdateDividend, DeleteDividend, ledgerVars
<1>2. /\ DOMAIN lots' = DOMAIN lots
      /\ \A l \in DOMAIN lots : lots'[l].trade = lots[l].trade /\ lots'[l].key = lots[l].key
  <2>1. CASE lots' = lots
    BY <2>1
  <2>2. CASE \E k \in Key : \E s \in Scale : RecordStock(k, s)
    <3>1. PICK k \in Key, s \in Scale : lots' = Scaled(lots, k, s)
      BY <2>2 DEF RecordStock
    <3> QED BY <3>1 DEF Scaled, LotScaled
  <2>3. lots' = lots \/ \E k \in Key : \E s \in Scale : RecordStock(k, s)
    BY DEF DividendNext, RecordCash, UpdateDividend, DeleteDividend, ledgerVars
  <2> QED BY <2>1, <2>2, <2>3
<1>3. Matches(trades, lots', DOMAIN trades)
  BY <1>2, SameLotsMatch DEF ReplayInv
<1> QED BY <1>1, <1>2, <1>3 DEF ReplayInv

(* Every step keeps the invariant.                                         *)
LEMMA StepReplay == ReplayInv /\ [ReplayNext]_replayVars => ReplayInv'
<1> SUFFICES ASSUME ReplayInv, [ReplayNext]_replayVars PROVE ReplayInv'
  OBVIOUS
<1>1. CASE RecordReply
  <2>1. PICK k \in Key, qty \in Qty :
          \/ \E date \in Date, unit \in Unit :
               RecordBuy(k, date, qty, unit) \/ RecordSell(k, date, qty, unit)
          \/ RejectSell(k, qty)
    BY <1>1 DEF RecordReply
  <2>2. CASE RejectSell(k, qty)
    <3>1. tradeSeq' = tradeSeq + 1 /\ UNCHANGED <<trades, lots, lotSeq>>
      BY <2>2 DEF RejectSell
    <3> QED BY <3>1 DEF ReplayInv, LogTable
  <2>3. ASSUME NEW date \in Date, NEW unit \in Unit,
               RecordBuy(k, date, qty, unit) \/ RecordSell(k, date, qty, unit)
        PROVE  ReplayInv'
    BY <2>3, RecordKeepsLots
  <2> QED BY <2>1, <2>2, <2>3
<1>2. CASE DividendNext
  BY <1>2, DividendKeepsLots
<1>3. ASSUME NEW t \in DOMAIN trades, NEW row \in TradeRow, UpdateTrade(t, row)
      PROVE  ReplayInv'
  BY <1>3, UpdateEffects, EditsKeepLots
<1>4. ASSUME NEW t \in DOMAIN trades, DeleteTrade(t)
      PROVE  ReplayInv'
  BY <1>4, DeleteEffects, EditsKeepLots
<1>5. CASE UNCHANGED replayVars
  BY <1>5 DEF replayVars, allVars, ledgerVars, ReplayInv
<1> QED BY <1>1, <1>2, <1>3, <1>4, <1>5 DEF ReplayNext

(* Nothing is recorded in the beginning.                                   *)
LEMMA InitReplays == InitReplay => ReplayInv
<1> SUFFICES ASSUME InitReplay PROVE ReplayInv
  OBVIOUS
<1>1. trades = <<>> /\ lots = <<>> /\ tradeSeq = 0 /\ lotSeq = 0
  BY DEF InitReplay, InitDividends, Init
<1> QED BY <1>1 DEF ReplayInv, LogTable, Matches

(* The lots are those of the log, in every reachable state.                *)
LEMMA ReplayInvariant == ReplaySpec => []ReplayInv
BY InitReplays, StepReplay, PTL DEF ReplaySpec

(* However the trades are edited and whatever dividends come between, the  *)
(* lots are those of the BUYs of the log (_rebuild_position).              *)
THEOREM EditedLotsAreBuys == ReplaySpec => []LotsOfBuys
<1>1. ReplayInv => LotsOfBuys
  <2> SUFFICES ASSUME ReplayInv PROVE LotsOfBuys
    OBVIOUS
  <2>1. Matches(trades, lots, DOMAIN trades)
    BY DEF ReplayInv
  <2>2. \A l \in DOMAIN lots :
          LET t == lots[l].trade IN
          t \in DOMAIN trades /\ trades[t].action = "BUY" /\ trades[t].key = lots[l].key
    BY <2>1 DEF Matches
  <2>3. ASSUME NEW t \in DOMAIN trades, trades[t].action = "BUY"
        PROVE  Cardinality({l \in DOMAIN lots : lots[l].trade = t}) = 1
    <3>1. PICK l \in DOMAIN lots : lots[l].trade = t
                                   /\ \A m \in DOMAIN lots : lots[m].trade = t => m = l
      BY <2>1, <2>3 DEF Matches
    <3>2. {m \in DOMAIN lots : lots[m].trade = t} = {l}
      BY <3>1
    <3>3. Cardinality({l}) = 1
      BY FS_Singleton
    <3> QED BY <3>2, <3>3
  <2> QED BY <2>2, <2>3 DEF LotsOfBuys
<1> QED BY <1>1, ReplayInvariant, PTL

--------------------------------------------------------------------------------
(* Totals over some of the trades. *)

(* A part of a column of integers is one.                                  *)
LEMMA OnlyType ==
  ASSUME NEW f \in [Nat -> Int], NEW ids, NEW n \in Nat
  PROVE  Only(f, ids) \in [Nat -> Int] /\ SumOf(f, ids, n) \in Int
<1>1. Only(f, ids) \in [Nat -> Int]
  BY DEF Only
<1> QED BY <1>1, RunningSumDef DEF SumOf

(* A part of a column of naturals adds up to a natural.                    *)
LEMMA SumOfNatural ==
  ASSUME NEW f \in [Nat -> Nat], NEW ids, NEW n \in Nat
  PROVE  SumOf(f, ids, n) \in Nat
<1>1. Only(f, ids) \in [Nat -> Nat]
  BY DEF Only
<1> QED BY <1>1, SumNatural DEF SumOf

(* No trades, no total.                                                    *)
LEMMA SumOfNone ==
  ASSUME NEW f \in [Nat -> Int], NEW n \in Nat
  PROVE  SumOf(f, {}, n) = 0
<1>1. \A i \in Nat : Only(f, {})[i] = 0
  BY DEF Only
<1> QED BY <1>1, OnlyType, SumZero DEF SumOf

(* One more trade adds its own value.                                      *)
LEMMA SumOfOneMore ==
  ASSUME NEW f \in [Nat -> Int], NEW n \in Nat, NEW ids, NEW t \in 1..n, t \notin ids
  PROVE  SumOf(f, ids \cup {t}, n) = SumOf(f, ids, n) + f[t]
<1> DEFINE more == Only(f, ids \cup {t})
<1> DEFINE less == Only(f, ids)
<1> DEFINE single == Only(f, {t})
<1>1. more \in [Nat -> Int] /\ less \in [Nat -> Int] /\ single \in [Nat -> Int]
  BY OnlyType
<1>2. \A i \in Nat : less[i] = more[i] - single[i]
  BY DEF Only
<1>3. single[t] = f[t] /\ \A i \in 1..n : i # t => single[i] = 0
  BY DEF Only
<1> HIDE DEF more, less, single
<1>4. RunningSum(less)[n] = RunningSum(more)[n] - RunningSum(single)[n]
  BY <1>1, <1>2, SumDifference
<1>5. RunningSum(single)[n] = single[t]
  BY <1>1, <1>3, SumSingle
<1>6. RunningSum(less)[n] \in Int /\ RunningSum(more)[n] \in Int /\ f[t] \in Int
  BY <1>1, RunningSumDef
<1>7. RunningSum(more)[n] = RunningSum(less)[n] + f[t]
  BY <1>3, <1>4, <1>5, <1>6
<1> QED BY <1>7 DEF more, less, SumOf

(* The total of a difference is the difference of the totals.              *)
LEMMA SumOfDifference ==
  ASSUME NEW f \in [Nat -> Int], NEW g \in [Nat -> Int], NEW h \in [Nat -> Int],
         \A i \in Nat : h[i] = f[i] - g[i], NEW n \in Nat, NEW ids
  PROVE  SumOf(h, ids, n) = SumOf(f, ids, n) - SumOf(g, ids, n)
<1> DEFINE one == Only(f, ids)
<1> DEFINE two == Only(g, ids)
<1> DEFINE three == Only(h, ids)
<1>1. \A i \in Nat : three[i] = one[i] - two[i]
  BY DEF Only
<1>2. one \in [Nat -> Int] /\ two \in [Nat -> Int] /\ three \in [Nat -> Int]
  BY OnlyType
<1> HIDE DEF one, two, three
<1>3. \A i \in Nat : RunningSum(three)[i] = RunningSum(one)[i] - RunningSum(two)[i]
  BY ONLY <1>1, <1>2, SumDifference
<1> QED BY <1>3 DEF one, two, three, SumOf

(* The places up to the next one.                                          *)
LEMMA OneMorePlace ==
  ASSUME NEW j \in Nat
  PROVE  j + 1 \in Nat /\ 1..(j + 1) = 1..j \cup {j + 1}
OBVIOUS

(* The trades of a list. *)
Places(p, m) == {p[i] : i \in 1..m}

(* g are the values of f at the places of the list p, each named once. *)
Lists(f, n, p, m, g) ==
  /\ n \in Nat /\ m \in Nat /\ f \in [Nat -> Int] /\ g \in [Nat -> Int]
  /\ p \in [1..m -> 1..n]
  /\ \A i, j \in 1..m : p[i] = p[j] => i = j
  /\ \A i \in 1..m : g[i] = f[p[i]]

(* A list of trades, each once, adds up to the total over its trades.      *)
LEMMA SumOfList ==
  ASSUME NEW f, NEW n, NEW p, NEW m, NEW g, Lists(f, n, p, m, g)
  PROVE  RunningSum(g)[m] = SumOf(f, Places(p, m), n)
<1>0. /\ n \in Nat /\ m \in Nat /\ f \in [Nat -> Int] /\ g \in [Nat -> Int]
      /\ p \in [1..m -> 1..n] /\ \A i, j \in 1..m : p[i] = p[j] => i = j
      /\ \A i \in 1..m : g[i] = f[p[i]]
  BY DEF Lists
<1>1. PICK firsts : firsts = [j \in Nat |-> {p[i] : i \in 1..j}]
  OBVIOUS
<1> DEFINE F == RunningSum(g)
<1> DEFINE S == {j \in Nat : j <= m => F[j] = SumOf(f, firsts[j], n)}
<1>2. F \in [Nat -> Int] /\ F[0] = 0 /\ \A j \in Nat : F[j + 1] = F[j] + g[j + 1]
  BY <1>0, RunningSumDef
<1> HIDE DEF F
<1>3. 0 \in S
  <2>1. firsts[0] = {}
    BY <1>1
  <2>2. SumOf(f, {}, n) = 0
    BY <1>0, SumOfNone
  <2> QED BY <1>2, <2>1, <2>2
<1>4. ASSUME NEW j \in Nat, j \in S PROVE j + 1 \in S
  <2>1. ASSUME j + 1 <= m PROVE F[j + 1] = SumOf(f, firsts[j + 1], n)
    <3>1. j + 1 \in 1..m /\ p[j + 1] \in 1..n /\ g[j + 1] = f[p[j + 1]]
      BY <1>0, <2>1
    <3>2. firsts[j + 1] = firsts[j] \cup {p[j + 1]}
      <4>1. j \in Nat
        OBVIOUS
      <4>2. j + 1 \in Nat /\ 1..(j + 1) = 1..j \cup {j + 1}
        BY ONLY <4>1, OneMorePlace
      <4>3. firsts[j + 1] = {p[i] : i \in 1..(j + 1)} /\ firsts[j] = {p[i] : i \in 1..j}
        BY ONLY <1>1, <4>1, <4>2
      <4> QED BY ONLY <4>2, <4>3
    <3>3. p[j + 1] \notin firsts[j]
      <4>1. \A i \in 1..j : i \in 1..m /\ i # j + 1
        BY <1>0, <2>1
      <4>2. \A i \in 1..j : p[i] # p[j + 1]
        BY <1>0, <3>1, <4>1
      <4> QED BY <1>1, <4>2
    <3>4. F[j] = SumOf(f, firsts[j], n)
      BY <1>0, <1>4, <2>1
    <3>5. PICK t \in 1..n : t = p[j + 1]
      BY <3>1
    <3>6. SumOf(f, firsts[j] \cup {t}, n) = SumOf(f, firsts[j], n) + f[t]
      <4>1. n \in Nat /\ f \in [Nat -> Int] /\ t \notin firsts[j] /\ t \in 1..n
        BY <1>0, <3>3, <3>5
      <4> QED BY ONLY <4>1, SumOfOneMore
    <3>7. F[j + 1] = F[j] + g[j + 1]
      BY <1>2
    <3> QED BY <3>1, <3>2, <3>4, <3>5, <3>6, <3>7
  <2> QED BY <2>1
<1> HIDE DEF S
<1>5. Nat \subseteq S
  BY <1>3, <1>4, SetInduction
<1>6. F[m] = SumOf(f, firsts[m], n) /\ firsts[m] = {p[i] : i \in 1..m}
  <2>1. m \in S
    BY <1>0, <1>5
  <2> QED BY <1>0, <1>1, <2>1 DEF S
<1> QED BY <1>6 DEF F, Places

--------------------------------------------------------------------------------
(* The replay's own list of lots. *)

MemoryRow == [id : Nat, remaining : Nat, cost : Nat]

MemoryValue(mem) == [i \in Nat |-> MemoryQueue(mem)[i] * MemoryCost(mem)[i]]

(* The columns of a list of lots are columns of naturals.                  *)
LEMMA MemoryColumns ==
  ASSUME NEW mem \in Seq(MemoryRow)
  PROVE  /\ MemoryQueue(mem) \in [Nat -> Nat] /\ MemoryCost(mem) \in [Nat -> Nat]
         /\ MemoryValue(mem) \in [Nat -> Nat] /\ MemoryValue(mem) \in [Nat -> Int]
         /\ MemoryQueue(mem) \in [Nat -> Int]
<1> DEFINE queue == MemoryQueue(mem)
<1> DEFINE cost == MemoryCost(mem)
<1>1. \A i \in DOMAIN mem : mem[i].remaining \in Nat /\ mem[i].cost \in Nat
  <2>1. \A i \in 1..Len(mem) : mem[i] \in MemoryRow
    BY ElementOfSeq
  <2>2. DOMAIN mem = 1..Len(mem)
    OBVIOUS
  <2> QED BY <2>1, <2>2 DEF MemoryRow
<1>2. queue \in [Nat -> Nat] /\ cost \in [Nat -> Nat]
  BY <1>1 DEF MemoryQueue, MemoryCost
<1> HIDE DEF queue, cost
<1>3. \A i \in Nat : queue[i] * cost[i] \in Nat
  <2> SUFFICES ASSUME NEW i \in Nat PROVE queue[i] * cost[i] \in Nat
    OBVIOUS
  <2>1. queue[i] \in Nat /\ cost[i] \in Nat
    BY <1>2
  <2> QED BY <2>1
<1>4. MemoryValue(mem) = [i \in Nat |-> queue[i] * cost[i]]
  BY DEF MemoryValue, queue, cost
<1>5. MemoryValue(mem) \in [Nat -> Nat]
  BY <1>3, <1>4
<1>6. [Nat -> Nat] \subseteq [Nat -> Int]
  OBVIOUS
<1> QED BY <1>2, <1>5, <1>6 DEF queue, cost

(* more is the list mem of n lots with a lot at its end.                   *)
Longer(mem, n, lot, more) ==
  /\ more \in Seq(MemoryRow) /\ Len(more) = n + 1 /\ more[n + 1] = lot
  /\ \A i \in 1..n : more[i] = mem[i]
  /\ \A i \in 0..n : RunningSum(MemoryQueue(more))[i] = RunningSum(MemoryQueue(mem))[i]
  /\ RunningSum(MemoryQueue(more))[n + 1] = RunningSum(MemoryQueue(mem))[n] + lot.remaining
  /\ RunningSum(MemoryValue(more))[n + 1]
       = RunningSum(MemoryValue(mem))[n] + lot.remaining * lot.cost

(* A lot at the end adds its shares and its cost.                          *)
LEMMA MemoryGrows ==
  ASSUME NEW mem \in Seq(MemoryRow), NEW lot \in MemoryRow, NEW more, more = Append(mem, lot)
  PROVE  Longer(mem, Len(mem), lot, more)
<1> DEFINE n == Len(mem)
<1>1. /\ more \in Seq(MemoryRow) /\ Len(more) = n + 1 /\ more[n + 1] = lot
      /\ \A i \in 1..n : more[i] = mem[i]
      /\ DOMAIN mem = 1..n /\ DOMAIN more = 1..(n + 1) /\ n \in Nat
  OBVIOUS
<1> HIDE DEF n
<1>2. \A i \in 1..n : /\ MemoryQueue(mem)[i] = MemoryQueue(more)[i]
                     /\ MemoryCost(mem)[i] = MemoryCost(more)[i]
  BY <1>1 DEF MemoryQueue, MemoryCost
<1>3. MemoryQueue(more)[n + 1] = lot.remaining /\ MemoryCost(more)[n + 1] = lot.cost
  BY <1>1 DEF MemoryQueue, MemoryCost
<1>4. /\ \A i \in 1..n : MemoryValue(mem)[i] = MemoryValue(more)[i]
      /\ MemoryValue(more)[n + 1] = lot.remaining * lot.cost
  BY <1>1, <1>2, <1>3 DEF MemoryValue
<1>5. /\ MemoryQueue(mem) \in [Nat -> Int] /\ MemoryQueue(more) \in [Nat -> Int]
      /\ MemoryValue(mem) \in [Nat -> Int] /\ MemoryValue(more) \in [Nat -> Int]
  BY <1>1, MemoryColumns
<1>6. RunningSum(MemoryQueue(more))[n + 1] = RunningSum(MemoryQueue(mem))[n] + lot.remaining
  <2>1. RunningSum(MemoryQueue(more))[n + 1]
          = RunningSum(MemoryQueue(mem))[n] + MemoryQueue(more)[n + 1]
    BY <1>1, <1>2, <1>5, TotalGrows
  <2> QED BY <1>3, <2>1
<1>7. RunningSum(MemoryValue(more))[n + 1] = RunningSum(MemoryValue(mem))[n] + lot.remaining * lot.cost
  <2>1. RunningSum(MemoryValue(more))[n + 1]
          = RunningSum(MemoryValue(mem))[n] + MemoryValue(more)[n + 1]
    BY <1>1, <1>4, <1>5, TotalGrows
  <2> QED BY <1>4, <2>1
<1>8. ASSUME NEW i \in 0..n
      PROVE  RunningSum(MemoryQueue(more))[i] = RunningSum(MemoryQueue(mem))[i]
  <2>1. i \in Nat /\ \A j \in 1..i : MemoryQueue(more)[j] = MemoryQueue(mem)[j]
    BY <1>1, <1>2
  <2> QED BY <1>5, <2>1, SumEqual
<1> QED BY <1>1, <1>6, <1>7, <1>8 DEF n, Longer

(* less is the list mem of n lots after a sale of qty that cost so much.   *)
Shorter(mem, n, qty, cost, less) ==
  /\ less \in Seq(MemoryRow) /\ Len(less) = n
  /\ \A i \in 1..n : less[i].id = mem[i].id /\ less[i].cost = mem[i].cost
  /\ \A i \in Nat : RunningSum(MemoryQueue(less))[i]
       = RunningSum(MemoryQueue(mem))[i] - Smaller(qty, RunningSum(MemoryQueue(mem))[i])
  /\ cost \in Nat
  /\ RunningSum(MemoryValue(less))[n] = RunningSum(MemoryValue(mem))[n] - cost

(* A sale takes from the head of the list what the engine takes.           *)
LEMMA MemorySold ==
  ASSUME NEW mem \in Seq(MemoryRow), NEW qty \in Nat, NEW less, less = AfterReplayedSale(mem, qty)
  PROVE  Shorter(mem, Len(mem), qty,
                 CostOfSale(MemoryQueue(mem), MemoryCost(mem), qty, Len(mem)), less)
<1> DEFINE queue == MemoryQueue(mem)
<1> DEFINE taken == Consumed(queue, qty)
<1> DEFINE n == Len(mem)
<1> DEFINE cost == MemoryCost(mem)
<1> DEFINE gone == [i \in Nat |-> taken[i] * cost[i]]
<1> DEFINE value == MemoryValue(mem)
<1>1. n \in Nat /\ DOMAIN mem = 1..n
  OBVIOUS
<1>2. queue \in [Nat -> Nat] /\ cost \in [Nat -> Nat]
  BY MemoryColumns
<1>3. taken \in [Nat -> Nat] /\ \A i \in Nat : taken[i] <= queue[i]
  BY <1>2, ConsumedBounds
<1>4. CostOfSale(queue, cost, qty, n) = RunningSum(gone)[n]
  BY DEF CostOfSale
<1>5. less = [i \in 1..n |-> MemoryLot(mem[i].id, mem[i].remaining - taken[i], mem[i].cost)]
  BY <1>1 DEF AfterReplayedSale
<1>6. \A i \in Nat : RunningSum(taken)[i] = Smaller(qty, RunningSum(queue)[i])
  BY <1>2, ConsumedTotal DEF Available
<1> HIDE DEF taken, n, cost
<1>7. ASSUME NEW i \in 1..n
      PROVE  /\ less[i] \in MemoryRow /\ less[i].id = mem[i].id /\ less[i].cost = mem[i].cost
             /\ less[i].remaining = queue[i] - taken[i]
  <2>1. i \in Nat /\ i \in DOMAIN mem /\ mem[i] \in MemoryRow
    BY <1>1
  <2>2. queue[i] = mem[i].remaining
    BY <2>1 DEF MemoryQueue
  <2>3. mem[i].id \in Nat /\ mem[i].remaining \in Nat /\ mem[i].cost \in Nat
    BY <2>1 DEF MemoryRow
  <2>5. mem[i].remaining - taken[i] \in Nat
    <3>1. taken[i] \in Nat /\ taken[i] <= mem[i].remaining
      BY <1>3, <2>1, <2>2
    <3> QED BY <2>3, <3>1
  <2>4. less[i] = MemoryLot(mem[i].id, mem[i].remaining - taken[i], mem[i].cost)
    BY <1>5
  <2> QED BY <2>2, <2>3, <2>4, <2>5 DEF MemoryLot, MemoryRow
<1>8. less \in Seq(MemoryRow) /\ Len(less) = n
  <2>1. DOMAIN less = 1..n
    BY <1>5
  <2>2. less \in [1..n -> MemoryRow]
    BY <1>5, <1>7
  <2> QED BY <1>1, <2>1, <2>2
<1> HIDE DEF queue
<1>9. ASSUME NEW i \in Nat
      PROVE  /\ MemoryQueue(less)[i] = queue[i] - taken[i]
             /\ MemoryCost(less)[i] = cost[i]
  <2>1. DOMAIN less = 1..n
    BY <1>8
  <2>2. CASE i \in 1..n
    BY <1>1, <1>7, <2>1, <2>2 DEF MemoryQueue, MemoryCost, cost
  <2>3. CASE i \notin 1..n
    <3>1. MemoryQueue(less)[i] = 0 /\ MemoryCost(less)[i] = 0 /\ queue[i] = 0 /\ cost[i] = 0
      BY <1>1, <2>1, <2>3 DEF MemoryQueue, MemoryCost, queue, cost
    <3>2. taken[i] \in Nat /\ taken[i] <= queue[i]
      BY <1>3
    <3>3. taken[i] = 0
      BY <3>1, <3>2
    <3> QED BY <3>1, <3>3
  <2> QED BY <2>2, <2>3
<1>10. gone \in [Nat -> Nat] /\ \A i \in Nat : gone[i] = taken[i] * cost[i]
  <2>1. \A i \in Nat : taken[i] * cost[i] \in Nat
    <3> SUFFICES ASSUME NEW i \in Nat PROVE taken[i] * cost[i] \in Nat
      OBVIOUS
    <3>1. taken[i] \in Nat /\ cost[i] \in Nat
      BY <1>2, <1>3
    <3> QED BY <3>1
  <2> QED BY <2>1
<1> HIDE DEF gone, value
<1>11. /\ queue \in [Nat -> Int] /\ value \in [Nat -> Int]
       /\ taken \in [Nat -> Int] /\ gone \in [Nat -> Int]
  <2>1. queue \in [Nat -> Int] /\ value \in [Nat -> Int]
    BY MemoryColumns DEF queue, value
  <2>2. [Nat -> Nat] \subseteq [Nat -> Int]
    OBVIOUS
  <2> QED BY <1>3, <1>10, <2>1, <2>2
<1>12. PICK left, worth : left = MemoryQueue(less) /\ worth = MemoryValue(less)
  OBVIOUS
<1>13. left \in [Nat -> Int] /\ worth \in [Nat -> Int]
  BY <1>8, <1>12, MemoryColumns
<1>14. \A i \in Nat : left[i] = queue[i] - taken[i]
  BY <1>9, <1>12
<1>15. \A i \in Nat : RunningSum(left)[i] = RunningSum(queue)[i] - RunningSum(taken)[i]
  <2>1. queue \in [Nat -> Int] /\ taken \in [Nat -> Int] /\ left \in [Nat -> Int]
    BY <1>11, <1>13
  <2> QED BY ONLY <1>14, <2>1, SumDifference
<1>16. ASSUME NEW i \in Nat PROVE worth[i] = value[i] - gone[i]
  <2>1. worth[i] = left[i] * cost[i] /\ value[i] = queue[i] * cost[i]
    BY <1>9, <1>12 DEF MemoryValue, queue, cost, value
  <2>2. queue[i] \in Nat /\ taken[i] \in Nat /\ cost[i] \in Nat
    BY <1>2, <1>3
  <2>3. (queue[i] - taken[i]) * cost[i] = queue[i] * cost[i] - taken[i] * cost[i]
    BY <2>2
  <2> QED BY <1>10, <1>14, <2>1, <2>3
<1>17. \A i \in Nat : RunningSum(worth)[i] = RunningSum(value)[i] - RunningSum(gone)[i]
  <2>1. value \in [Nat -> Int] /\ gone \in [Nat -> Int] /\ worth \in [Nat -> Int]
    BY <1>11, <1>13
  <2> QED BY ONLY <1>16, <2>1, SumDifference
<1>18. RunningSum(gone)[n] \in Nat
  BY <1>1, <1>10, SumNatural
<1>19. \A i \in Nat : RunningSum(left)[i] = RunningSum(queue)[i] - Smaller(qty, RunningSum(queue)[i])
  BY <1>6, <1>15
<1> QED BY <1>1, <1>4, <1>7, <1>8, <1>12, <1>17, <1>18, <1>19 DEF n, queue, cost, value, Shorter

--------------------------------------------------------------------------------
(* What a replay has done so far, against the trades it has done. *)

BoughtBy(log, k, n, ids) == SumOf(QtyOf(log, k, "BUY"), ids, n)
SoldBy(log, k, n, ids) == SumOf(QtyOf(log, k, "SELL"), ids, n)
PaidBy(log, k, n, ids) == SumOf(CashOf(log, k), ids, n)

SoonerThan(log, k, u) == {t \in TradesOf(log, k) : Sooner(log, t, u)}

(* The shares of k bought by trades not later than u.                      *)
UpTo(log, k, n, u) == BoughtBy(log, k, n, SoonerThan(log, k, u))

(* t is the next of the trades of k to be done.                            *)
NextUp(log, k, n, done, t) ==
  /\ n \in Nat /\ LogTable(log, n)
  /\ done \subseteq TradesOf(log, k) /\ t \in TradesOf(log, k) /\ t \notin done
  /\ SoonerThan(log, k, t) = done \cup {t}

(* What the totals are.                                                    *)
LEMMA TotalsAreNatural ==
  ASSUME NEW log, NEW n \in Nat, LogTable(log, n), NEW k, NEW ids
  PROVE  /\ BoughtBy(log, k, n, ids) \in Nat /\ SoldBy(log, k, n, ids) \in Nat
         /\ PaidBy(log, k, n, ids) \in Int
<1>1. /\ QtyOf(log, k, "BUY") \in [Nat -> Nat] /\ QtyOf(log, k, "SELL") \in [Nat -> Nat]
      /\ CashOf(log, k) \in [Nat -> Int]
  BY QtyColumn, CashColumnType
<1>2. BoughtBy(log, k, n, ids) \in Nat /\ SoldBy(log, k, n, ids) \in Nat
  BY <1>1, SumOfNatural DEF BoughtBy, SoldBy
<1>3. PaidBy(log, k, n, ids) \in Int
  BY <1>1, OnlyType DEF PaidBy
<1> QED BY <1>2, <1>3

(* Nothing done, nothing bought, sold or paid.                             *)
LEMMA NothingDone ==
  ASSUME NEW log, NEW n \in Nat, LogTable(log, n), NEW k
  PROVE  BoughtBy(log, k, n, {}) = 0 /\ SoldBy(log, k, n, {}) = 0 /\ PaidBy(log, k, n, {}) = 0
<1>1. /\ QtyOf(log, k, "BUY") \in [Nat -> Int] /\ QtyOf(log, k, "SELL") \in [Nat -> Int]
      /\ CashOf(log, k) \in [Nat -> Int]
  BY QtyColumn, CashColumnType
<1> QED BY <1>1, SumOfNone DEF BoughtBy, SoldBy, PaidBy

(* What the next trade adds to the totals.                                 *)
LEMMA OneMoreDone ==
  ASSUME NEW log, NEW k, NEW n, NEW done, NEW t, NextUp(log, k, n, done, t),
         NEW row, row = log[t], NEW then, then = done \cup {t}
  PROVE  /\ row \in TradeRow /\ row.key = k /\ row.qty \in Nat \ {0} /\ row.unit \in Nat
         /\ t \in 1..n
         /\ UpTo(log, k, n, t) = BoughtBy(log, k, n, then)
         /\ row.action = "BUY" =>
              /\ BoughtBy(log, k, n, then) = BoughtBy(log, k, n, done) + row.qty
              /\ SoldBy(log, k, n, then) = SoldBy(log, k, n, done)
              /\ PaidBy(log, k, n, then) = PaidBy(log, k, n, done) + row.qty * row.unit
         /\ row.action # "BUY" =>
              /\ BoughtBy(log, k, n, then) = BoughtBy(log, k, n, done)
              /\ SoldBy(log, k, n, then) = SoldBy(log, k, n, done) + row.qty
              /\ PaidBy(log, k, n, then) = PaidBy(log, k, n, done) - row.qty * row.unit
<1> DEFINE buys == QtyOf(log, k, "BUY")
<1> DEFINE sells == QtyOf(log, k, "SELL")
<1> DEFINE cash == CashOf(log, k)
<1>1. /\ n \in Nat /\ LogTable(log, n) /\ t \in DOMAIN log /\ row.key = k /\ t \notin done
      /\ SoonerThan(log, k, t) = then
  BY DEF NextUp, TradesOf
<1>2. t \in 1..n /\ t \in Nat /\ row \in TradeRow
  BY <1>1 DEF LogTable
<1>3. row.qty \in Nat \ {0} /\ row.unit \in Nat /\ (row.action = "BUY" \/ row.action = "SELL")
  BY <1>2, LedgerAssumption DEF TradeRow
<1>4. buys \in [Nat -> Int] /\ sells \in [Nat -> Int] /\ cash \in [Nat -> Int]
  BY <1>1, QtyColumn, CashColumnType
<1>5. /\ buys[t] = IF row.action = "BUY" THEN row.qty ELSE 0
      /\ sells[t] = IF row.action = "SELL" THEN row.qty ELSE 0
      /\ cash[t] = IF row.action = "BUY" THEN row.qty * row.unit ELSE -(row.qty * row.unit)
  BY <1>1, <1>2 DEF QtyOf, CashOf, Cash
<1> HIDE DEF buys, sells, cash
<1>6. /\ SumOf(buys, done \cup {t}, n) = SumOf(buys, done, n) + buys[t]
      /\ SumOf(sells, done \cup {t}, n) = SumOf(sells, done, n) + sells[t]
      /\ SumOf(cash, done \cup {t}, n) = SumOf(cash, done, n) + cash[t]
  BY <1>1, <1>2, <1>4, SumOfOneMore
<1>7. /\ BoughtBy(log, k, n, then) = BoughtBy(log, k, n, done) + buys[t]
      /\ SoldBy(log, k, n, then) = SoldBy(log, k, n, done) + sells[t]
      /\ PaidBy(log, k, n, then) = PaidBy(log, k, n, done) + cash[t]
  BY <1>6 DEF BoughtBy, SoldBy, PaidBy, buys, sells, cash
<1>8. /\ BoughtBy(log, k, n, done) \in Nat /\ SoldBy(log, k, n, done) \in Nat
      /\ PaidBy(log, k, n, done) \in Int
  BY <1>1, TotalsAreNatural
<1>9. row.qty * row.unit \in Nat
  BY <1>3
<1>10. UpTo(log, k, n, t) = BoughtBy(log, k, n, then)
  BY <1>1 DEF UpTo
<1>11. CASE row.action = "BUY"
  <2>1. buys[t] = row.qty /\ sells[t] = 0 /\ cash[t] = row.qty * row.unit
    BY <1>5, <1>11
  <2> QED BY <1>1, <1>2, <1>3, <1>7, <1>8, <1>9, <1>10, <1>11, <2>1
<1>12. CASE row.action = "SELL"
  <2>1. buys[t] = 0 /\ sells[t] = row.qty /\ cash[t] = -(row.qty * row.unit)
    BY <1>5, <1>12
  <2>2. PaidBy(log, k, n, then) = PaidBy(log, k, n, done) - row.qty * row.unit
    BY <1>7, <1>8, <1>9, <2>1
  <2> QED BY <1>1, <1>2, <1>3, <1>7, <1>8, <1>10, <1>12, <2>1, <2>2
<1> QED BY <1>3, <1>11, <1>12

(* The list holds one lot of every BUY done, in their order, and the       *)
(* shares bought up to each of them grow by its own.                       *)
Listing(log, k, n, done, mem) ==
  /\ mem \in Seq(MemoryRow)
  /\ \A i \in 1..Len(mem) : /\ mem[i].id \in done
                            /\ log[mem[i].id].action = "BUY"
                            /\ mem[i].cost = log[mem[i].id].unit
                            /\ UpTo(log, k, n, mem[i].id)
                                 = (IF i = 1 THEN 0 ELSE UpTo(log, k, n, mem[i - 1].id))
                                     + log[mem[i].id].qty
  /\ \A i, j \in 1..Len(mem) : mem[i].id = mem[j].id => i = j
  /\ \A t \in done : log[t].action = "BUY" => \E i \in 1..Len(mem) : mem[i].id = t
  /\ BoughtBy(log, k, n, done) = IF Len(mem) = 0 THEN 0 ELSE UpTo(log, k, n, mem[Len(mem)].id)

(* Of the shares bought up to a lot, those beyond the shares sold are left.*)
Shares(log, k, n, done, mem) ==
  /\ SoldBy(log, k, n, done) <= BoughtBy(log, k, n, done)
  /\ \A i \in 1..Len(mem) :
       RunningSum(MemoryQueue(mem))[i]
         = Rest(UpTo(log, k, n, mem[i].id) - SoldBy(log, k, n, done))

(* What the lots cost and was not realised is what was paid.               *)
Worth(log, k, n, done, mem, realized) ==
  /\ realized \in Int
  /\ RunningSum(MemoryValue(mem))[Len(mem)] - realized = PaidBy(log, k, n, done)

(* At every trade done, no more was sold than bought.                      *)
NeverShort(log, k, n, done) ==
  \A t \in done : SoldBy(log, k, n, SoonerThan(log, k, t)) <= BoughtBy(log, k, n, SoonerThan(log, k, t))

DoneBooks(log, k, n, done, mem, realized) ==
  /\ Listing(log, k, n, done, mem) /\ Shares(log, k, n, done, mem)
  /\ Worth(log, k, n, done, mem, realized) /\ NeverShort(log, k, n, done)

(* The books a replay starts with.                                         *)
LEMMA EmptyBooks ==
  ASSUME NEW log, NEW n \in Nat, LogTable(log, n), NEW k
  PROVE  DoneBooks(log, k, n, {}, <<>>, 0)
<1>1. BoughtBy(log, k, n, {}) = 0 /\ SoldBy(log, k, n, {}) = 0 /\ PaidBy(log, k, n, {}) = 0
  BY NothingDone
<1>2. <<>> \in Seq(MemoryRow) /\ Len(<<>>) = 0
  OBVIOUS
<1>3. RunningSum(MemoryValue(<<>>))[0] = 0
  BY <1>2, MemoryColumns, RunningSumDef
<1>4. Listing(log, k, n, {}, <<>>)
  BY <1>1, <1>2 DEF Listing
<1>5. Shares(log, k, n, {}, <<>>)
  BY <1>1, <1>2 DEF Shares
<1>6. Worth(log, k, n, {}, <<>>, 0)
  BY <1>1, <1>2, <1>3 DEF Worth
<1> QED BY <1>4, <1>5, <1>6 DEF DoneBooks, NeverShort

(* What the list holds in all.                                             *)
LEMMA ListHolds ==
  ASSUME NEW log, NEW n \in Nat, LogTable(log, n), NEW k, NEW done, NEW mem,
         Listing(log, k, n, done, mem), Shares(log, k, n, done, mem)
  PROVE  /\ Available(MemoryQueue(mem), Len(mem))
              = BoughtBy(log, k, n, done) - SoldBy(log, k, n, done)
         /\ Len(mem) \in Nat
<1>1. mem \in Seq(MemoryRow) /\ Len(mem) \in Nat
  BY DEF Listing
<1>2. BoughtBy(log, k, n, done) \in Nat /\ SoldBy(log, k, n, done) \in Nat
  BY TotalsAreNatural
<1>3. SoldBy(log, k, n, done) <= BoughtBy(log, k, n, done)
  BY DEF Shares
<1>4. CASE Len(mem) = 0
  <2>1. RunningSum(MemoryQueue(mem))[0] = 0
    BY <1>1, MemoryColumns, RunningSumDef
  <2>2. BoughtBy(log, k, n, done) = 0
    BY <1>4 DEF Listing
  <2> QED BY <1>1, <1>2, <1>3, <1>4, <2>1, <2>2 DEF Available
<1>5. CASE Len(mem) # 0
  <2>1. Len(mem) \in 1..Len(mem)
    BY <1>1, <1>5
  <2>2. RunningSum(MemoryQueue(mem))[Len(mem)]
          = Rest(UpTo(log, k, n, mem[Len(mem)].id) - SoldBy(log, k, n, done))
    BY <2>1 DEF Shares
  <2>3. BoughtBy(log, k, n, done) = UpTo(log, k, n, mem[Len(mem)].id)
    BY <1>5 DEF Listing
  <2> QED BY <1>1, <1>2, <1>3, <2>2, <2>3 DEF Available, Rest
<1> QED BY <1>4, <1>5

(* Nobody is short at the next trade either, if it is covered.             *)
LEMMA NextNeverShort ==
  ASSUME NEW log, NEW k, NEW n, NEW done, NEW t, NextUp(log, k, n, done, t), NeverShort(log, k, n, done),
         SoldBy(log, k, n, done \cup {t}) <= BoughtBy(log, k, n, done \cup {t})
  PROVE  NeverShort(log, k, n, done \cup {t})
<1>1. SoonerThan(log, k, t) = done \cup {t}
  BY DEF NextUp
<1> QED BY <1>1 DEF NeverShort

(* A BUY keeps the books: its lot goes to the end of the list.             *)
LEMMA BuyBooks ==
  ASSUME NEW log, NEW k, NEW n, NEW done, NEW t, NextUp(log, k, n, done, t), log[t].action = "BUY",
         NEW mem, NEW realized, DoneBooks(log, k, n, done, mem, realized),
         NEW more, more = Append(mem, MemoryLot(t, log[t].qty, log[t].unit))
  PROVE  DoneBooks(log, k, n, done \cup {t}, more, realized)
<1>1. PICK row, then : row = log[t] /\ then = done \cup {t}
  OBVIOUS
<1>2. n \in Nat /\ LogTable(log, n) /\ t \notin done
  BY DEF NextUp
<1>3. /\ row.qty \in Nat /\ row.unit \in Nat /\ t \in Nat
      /\ UpTo(log, k, n, t) = BoughtBy(log, k, n, then)
      /\ BoughtBy(log, k, n, then) = BoughtBy(log, k, n, done) + row.qty
      /\ SoldBy(log, k, n, then) = SoldBy(log, k, n, done)
      /\ PaidBy(log, k, n, then) = PaidBy(log, k, n, done) + row.qty * row.unit
  BY <1>1, OneMoreDone
<1>4. /\ Listing(log, k, n, done, mem) /\ Shares(log, k, n, done, mem)
      /\ Worth(log, k, n, done, mem, realized) /\ NeverShort(log, k, n, done)
  BY DEF DoneBooks
<1>5. mem \in Seq(MemoryRow) /\ Len(mem) \in Nat
  BY <1>4 DEF Listing
<1>6. PICK m, lot : m = Len(mem) /\ lot = MemoryLot(t, row.qty, row.unit)
  OBVIOUS
<1>7. m \in Nat /\ lot \in MemoryRow /\ lot.id = t /\ lot.remaining = row.qty /\ lot.cost = row.unit
  BY <1>3, <1>5, <1>6 DEF MemoryLot, MemoryRow
<1>8. /\ more \in Seq(MemoryRow) /\ Len(more) = m + 1 /\ more[m + 1] = lot
      /\ \A i \in 1..m : more[i] = mem[i]
      /\ \A i \in 0..m : RunningSum(MemoryQueue(more))[i] = RunningSum(MemoryQueue(mem))[i]
      /\ RunningSum(MemoryQueue(more))[m + 1] = RunningSum(MemoryQueue(mem))[m] + lot.remaining
      /\ RunningSum(MemoryValue(more))[m + 1]
           = RunningSum(MemoryValue(mem))[m] + lot.remaining * lot.cost
  <2>1. more = Append(mem, lot)
    BY <1>1, <1>6
  <2>2. Longer(mem, Len(mem), lot, more)
    BY <1>5, <1>7, <2>1, MemoryGrows
  <2>3. Longer(mem, m, lot, more)
    BY <1>6, <2>2
  <2> QED BY <2>3 DEF Longer
<1>9. BoughtBy(log, k, n, done) \in Nat /\ SoldBy(log, k, n, done) \in Nat /\ PaidBy(log, k, n, done) \in Int
  BY <1>2, TotalsAreNatural
<1>10. 1..(m + 1) = 1..m \cup {m + 1} /\ m + 1 \notin 1..m
  BY <1>7, OneMorePlace
<1>11. Listing(log, k, n, then, more)
  <2>1. ASSUME NEW i \in 1..(m + 1)
        PROVE  /\ more[i].id \in then /\ log[more[i].id].action = "BUY"
               /\ more[i].cost = log[more[i].id].unit
               /\ UpTo(log, k, n, more[i].id)
                    = (IF i = 1 THEN 0 ELSE UpTo(log, k, n, more[i - 1].id)) + log[more[i].id].qty
    <3>1. CASE i \in 1..m
      <4>1. more[i] = mem[i] /\ (i # 1 => i - 1 \in 1..m /\ more[i - 1] = mem[i - 1])
        BY <1>7, <1>8, <3>1
      <4>2. /\ mem[i].id \in done /\ log[mem[i].id].action = "BUY"
            /\ mem[i].cost = log[mem[i].id].unit
            /\ UpTo(log, k, n, mem[i].id)
                 = (IF i = 1 THEN 0 ELSE UpTo(log, k, n, mem[i - 1].id)) + log[mem[i].id].qty
        BY <1>4, <1>6, <3>1 DEF Listing
      <4> QED BY <1>1, <4>1, <4>2
    <3>2. CASE i = m + 1
      <4>1. more[i] = lot /\ more[i].id = t
        BY <1>7, <1>8, <3>2
      <4>2. BoughtBy(log, k, n, done) = IF m = 0 THEN 0 ELSE UpTo(log, k, n, mem[m].id)
        BY <1>4, <1>6 DEF Listing
      <4>3. UpTo(log, k, n, t) = BoughtBy(log, k, n, done) + row.qty
        BY <1>3
      <4>4. i # 1 => m # 0 /\ i - 1 = m /\ more[i - 1] = mem[m]
        <5>1. i # 1 => m # 0 /\ i - 1 = m /\ m \in 1..m
          BY <1>7, <3>2
        <5> QED BY <1>8, <5>1
      <4>5. i = 1 => m = 0
        BY <1>7, <3>2
      <4>6. BoughtBy(log, k, n, done) = IF i = 1 THEN 0 ELSE UpTo(log, k, n, more[i - 1].id)
        BY <4>2, <4>4, <4>5
      <4> QED BY <1>1, <1>7, <4>1, <4>3, <4>6
    <3> QED BY <1>10, <3>1, <3>2
  <2>2. ASSUME NEW i \in 1..(m + 1), NEW j \in 1..(m + 1), more[i].id = more[j].id PROVE i = j
    <3>1. \A p \in 1..m : more[p].id \in done /\ more[p].id = mem[p].id
      BY <1>4, <1>6, <1>8 DEF Listing
    <3>2. \A p, q \in 1..m : mem[p].id = mem[q].id => p = q
      BY <1>4, <1>6 DEF Listing
    <3>3. more[m + 1].id = t
      BY <1>7, <1>8
    <3>4. \A p \in 1..m : more[p].id # t
      BY <1>2, <3>1
    <3>5. CASE i \in 1..m /\ j \in 1..m
      BY <2>2, <3>1, <3>2, <3>5
    <3>6. CASE i = m + 1 \/ j = m + 1
      BY <1>10, <2>2, <3>3, <3>4, <3>6
    <3> QED BY <1>10, <3>5, <3>6
  <2>3. ASSUME NEW u \in then, log[u].action = "BUY" PROVE \E i \in 1..(m + 1) : more[i].id = u
    <3>1. CASE u = t
      BY <1>7, <1>8, <1>10, <3>1
    <3>2. CASE u \in done
      <4>1. PICK i \in 1..m : mem[i].id = u
        BY <1>4, <1>6, <2>3, <3>2 DEF Listing
      <4>2. i \in 1..(m + 1)
        BY <1>10
      <4>3. \A j \in 1..m : more[j] = mem[j]
        BY <1>8
      <4>4. more[i].id = u
        BY <4>1, <4>3
      <4> QED BY <4>2, <4>4
    <3> QED BY <1>1, <3>1, <3>2
  <2>4. BoughtBy(log, k, n, then) = UpTo(log, k, n, more[m + 1].id) /\ m + 1 # 0
    BY <1>3, <1>7, <1>8
  <2>5. more \in Seq(MemoryRow) /\ Len(more) = m + 1
    BY <1>8
  <2>6. BoughtBy(log, k, n, then) = IF Len(more) = 0 THEN 0 ELSE UpTo(log, k, n, more[Len(more)].id)
    BY <2>4, <2>5
  <2> QED BY <2>1, <2>2, <2>3, <2>5, <2>6, SMTT(30) DEF Listing
<1>12. Shares(log, k, n, then, more)
  <2>1. SoldBy(log, k, n, then) <= BoughtBy(log, k, n, then)
    <3>1. SoldBy(log, k, n, done) <= BoughtBy(log, k, n, done)
      BY <1>4 DEF Shares
    <3> QED BY <1>3, <1>9, <3>1
  <2>2. ASSUME NEW i \in 1..(m + 1)
        PROVE  RunningSum(MemoryQueue(more))[i] = Rest(UpTo(log, k, n, more[i].id) - SoldBy(log, k, n, then))
    <3>1. CASE i \in 1..m
      <4>1. RunningSum(MemoryQueue(mem))[i] = Rest(UpTo(log, k, n, mem[i].id) - SoldBy(log, k, n, done))
        BY <1>4, <1>6, <3>1 DEF Shares
      <4>2. i \in 0..m /\ more[i] = mem[i]
        BY <1>8, <3>1
      <4> QED BY <1>3, <1>8, <4>1, <4>2
    <3>2. CASE i = m + 1
      <4>1. RunningSum(MemoryQueue(mem))[m] = BoughtBy(log, k, n, done) - SoldBy(log, k, n, done)
        BY <1>2, <1>4, <1>6, ListHolds DEF Available
      <4>2. RunningSum(MemoryQueue(more))[i] = BoughtBy(log, k, n, then) - SoldBy(log, k, n, then)
        BY <1>3, <1>7, <1>8, <1>9, <3>2, <4>1
      <4>3. UpTo(log, k, n, more[i].id) = BoughtBy(log, k, n, then)
        BY <1>3, <1>7, <1>8, <3>2
      <4> QED BY <1>3, <1>9, <2>1, <4>2, <4>3 DEF Rest
    <3> QED BY <1>10, <3>1, <3>2
  <2> QED BY <1>8, <2>1, <2>2 DEF Shares
<1>13. Worth(log, k, n, then, more, realized)
  <2>1. realized \in Int /\ RunningSum(MemoryValue(mem))[m] - realized = PaidBy(log, k, n, done)
    BY <1>4, <1>6 DEF Worth
  <2>2. RunningSum(MemoryValue(mem))[m] \in Int
    BY <1>5, <1>7, MemoryColumns, RunningSumDef
  <2>3. RunningSum(MemoryValue(more))[m + 1]
          = RunningSum(MemoryValue(mem))[m] + row.qty * row.unit /\ row.qty * row.unit \in Int
    BY <1>3, <1>7, <1>8
  <2> QED BY <1>3, <1>8, <1>9, <2>1, <2>2, <2>3 DEF Worth
<1>14. NeverShort(log, k, n, then)
  BY <1>1, <1>4, <1>12, NextNeverShort DEF Shares
<1> QED BY <1>1, <1>11, <1>12, <1>13, <1>14 DEF DoneBooks

(* A covered SELL keeps the books: it takes the first shares left.         *)
LEMMA SaleBooks ==
  ASSUME NEW log, NEW k, NEW n, NEW done, NEW t, NextUp(log, k, n, done, t), log[t].action # "BUY",
         NEW mem, NEW realized, DoneBooks(log, k, n, done, mem, realized),
         ~ (log[t].qty > Available(MemoryQueue(mem), Len(mem))),
         NEW less, less = AfterReplayedSale(mem, log[t].qty),
         NEW cost, cost = CostOfSale(MemoryQueue(mem), MemoryCost(mem), log[t].qty, Len(mem))
  PROVE  DoneBooks(log, k, n, done \cup {t}, less, realized + (log[t].qty * log[t].unit - cost))
<1>1. PICK row, then : row = log[t] /\ then = done \cup {t}
  OBVIOUS
<1>2. n \in Nat /\ LogTable(log, n)
  BY DEF NextUp
<1>3. /\ row.qty \in Nat /\ row.unit \in Nat
      /\ BoughtBy(log, k, n, then) = BoughtBy(log, k, n, done)
      /\ SoldBy(log, k, n, then) = SoldBy(log, k, n, done) + row.qty
      /\ PaidBy(log, k, n, then) = PaidBy(log, k, n, done) - row.qty * row.unit
  BY <1>1, OneMoreDone
<1>4. /\ Listing(log, k, n, done, mem) /\ Shares(log, k, n, done, mem)
      /\ Worth(log, k, n, done, mem, realized) /\ NeverShort(log, k, n, done)
  BY DEF DoneBooks
<1>5. mem \in Seq(MemoryRow)
  BY <1>4 DEF Listing
<1>6. PICK m \in Nat : m = Len(mem)
  BY <1>5
<1>7. Shorter(mem, m, row.qty, cost, less)
  BY <1>1, <1>3, <1>5, <1>6, MemorySold
<1>8. /\ less \in Seq(MemoryRow) /\ Len(less) = m
      /\ \A i \in 1..m : less[i].id = mem[i].id /\ less[i].cost = mem[i].cost
      /\ \A i \in Nat : RunningSum(MemoryQueue(less))[i]
           = RunningSum(MemoryQueue(mem))[i] - Smaller(row.qty, RunningSum(MemoryQueue(mem))[i])
      /\ cost \in Nat
      /\ RunningSum(MemoryValue(less))[m] = RunningSum(MemoryValue(mem))[m] - cost
  BY <1>7 DEF Shorter
<1>9. BoughtBy(log, k, n, done) \in Nat /\ SoldBy(log, k, n, done) \in Nat /\ PaidBy(log, k, n, done) \in Int
  BY <1>2, TotalsAreNatural
<1>10. row.qty <= BoughtBy(log, k, n, done) - SoldBy(log, k, n, done)
  <2>1. Available(MemoryQueue(mem), Len(mem)) = BoughtBy(log, k, n, done) - SoldBy(log, k, n, done)
    BY <1>2, <1>4, ListHolds
  <2> QED BY <1>1, <1>3, <1>9, <2>1
<1>11. Listing(log, k, n, then, less)
  <2>1. ASSUME NEW i \in 1..m
        PROVE  /\ less[i].id \in then /\ log[less[i].id].action = "BUY"
               /\ less[i].cost = log[less[i].id].unit
               /\ UpTo(log, k, n, less[i].id)
                    = (IF i = 1 THEN 0 ELSE UpTo(log, k, n, less[i - 1].id)) + log[less[i].id].qty
    <3>1. /\ mem[i].id \in done /\ log[mem[i].id].action = "BUY"
          /\ mem[i].cost = log[mem[i].id].unit
          /\ UpTo(log, k, n, mem[i].id)
               = (IF i = 1 THEN 0 ELSE UpTo(log, k, n, mem[i - 1].id)) + log[mem[i].id].qty
      BY <1>4, <1>6 DEF Listing
    <3>2. i # 1 => i - 1 \in 1..m
      BY <1>6
    <3>3. i # 1 => less[i - 1].id = mem[i - 1].id
      BY <1>8, <3>2
    <3> QED BY <1>1, <1>8, <3>1, <3>3
  <2>2. \A i, j \in 1..m : less[i].id = less[j].id => i = j
    <3>1. \A i, j \in 1..m : mem[i].id = mem[j].id => i = j
      BY <1>4, <1>6 DEF Listing
    <3> QED BY <1>8, <3>1
  <2>3. ASSUME NEW u \in then, log[u].action = "BUY" PROVE \E i \in 1..m : less[i].id = u
    <3>1. u \in done
      BY <1>1, <2>3
    <3>2. PICK i \in 1..m : mem[i].id = u
      BY <1>4, <1>6, <2>3, <3>1 DEF Listing
    <3> QED BY <1>8, <3>2
  <2>4. BoughtBy(log, k, n, then) = IF m = 0 THEN 0 ELSE UpTo(log, k, n, less[m].id)
    <3>1. BoughtBy(log, k, n, done) = IF m = 0 THEN 0 ELSE UpTo(log, k, n, mem[m].id)
      BY <1>4, <1>6 DEF Listing
    <3>2. m # 0 => m \in 1..m
      BY <1>6
    <3>3. m # 0 => less[m].id = mem[m].id
      BY <1>8, <3>2
    <3> QED BY <1>3, <3>1, <3>3
  <2> QED BY <1>8, <2>1, <2>2, <2>3, <2>4 DEF Listing
<1>12. Shares(log, k, n, then, less)
  <2>1. SoldBy(log, k, n, then) <= BoughtBy(log, k, n, then)
    BY <1>3, <1>9, <1>10
  <2>2. ASSUME NEW i \in 1..m
        PROVE  RunningSum(MemoryQueue(less))[i] = Rest(UpTo(log, k, n, less[i].id) - SoldBy(log, k, n, then))
    <3>1. RunningSum(MemoryQueue(mem))[i] = Rest(UpTo(log, k, n, mem[i].id) - SoldBy(log, k, n, done))
      BY <1>4, <1>6 DEF Shares
    <3>2. UpTo(log, k, n, mem[i].id) \in Nat /\ less[i].id = mem[i].id /\ i \in Nat
      BY <1>2, <1>8, TotalsAreNatural DEF UpTo
    <3>3. RunningSum(MemoryQueue(less))[i]
            = RunningSum(MemoryQueue(mem))[i] - Smaller(row.qty, RunningSum(MemoryQueue(mem))[i])
      BY <1>8, <3>2
    <3>4. \A a, b, c \in Nat : Rest(a - b) - Smaller(c, Rest(a - b)) = Rest(a - (b + c))
      BY DEF Rest, Smaller
    <3>5. PICK a, b, c \in Nat : /\ a = UpTo(log, k, n, mem[i].id) /\ b = SoldBy(log, k, n, done)
                                /\ c = row.qty
      BY <1>3, <1>9, <3>2
    <3>6. RunningSum(MemoryQueue(less))[i] = Rest(a - b) - Smaller(c, Rest(a - b))
      BY <3>1, <3>3, <3>5
    <3>7. Rest(UpTo(log, k, n, less[i].id) - SoldBy(log, k, n, then)) = Rest(a - (b + c))
      BY <1>3, <3>2, <3>5
    <3> QED BY <3>4, <3>6, <3>7
  <2> QED BY <1>8, <2>1, <2>2 DEF Shares
<1>13. Worth(log, k, n, then, less, realized + (row.qty * row.unit - cost))
  <2>1. realized \in Int /\ RunningSum(MemoryValue(mem))[m] - realized = PaidBy(log, k, n, done)
    BY <1>4, <1>6 DEF Worth
  <2>2. RunningSum(MemoryValue(mem))[m] \in Int
    BY <1>5, <1>6, MemoryColumns, RunningSumDef
  <2>3. row.qty * row.unit \in Nat
    BY <1>3
  <2>4. PICK a, x, p \in Int : /\ a = RunningSum(MemoryValue(mem))[m] /\ x = row.qty * row.unit
                               /\ p = PaidBy(log, k, n, done)
    BY <1>9, <2>2, <2>3
  <2>5. RunningSum(MemoryValue(less))[m] = a - cost /\ PaidBy(log, k, n, then) = p - x
    BY <1>3, <1>8, <2>4
  <2>6. a - realized = p
    BY <2>1, <2>4
  <2>7. realized + (x - cost) \in Int /\ (a - cost) - (realized + (x - cost)) = p - x
    BY <1>8, <2>1, <2>4, <2>6
  <2> QED BY <1>8, <2>4, <2>5, <2>7 DEF Worth
<1>14. NeverShort(log, k, n, then)
  BY <1>1, <1>4, <1>12, NextNeverShort DEF Shares
<1> QED BY <1>1, <1>11, <1>12, <1>13, <1>14 DEF DoneBooks

--------------------------------------------------------------------------------
(* The books of a replay, from its first round to its last. *)

(* A replay under way has done the trades that come before those it has    *)
(* still to do, and unless it was refused its books are those of these.    *)
Doing(log, k, n, s) ==
  /\ s.todo \subseteq TradesOf(log, k)
  /\ \A t \in TradesOf(log, k) \ s.todo, u \in s.todo : Sooner(log, t, u)
  /\ s.ok => DoneBooks(log, k, n, TradesOf(log, k) \ s.todo, s.mem, s.realized)

(* The earliest trade to do is the next one up.                            *)
LEMMA EarliestIsNext ==
  ASSUME NEW log, NEW n \in Nat, LogTable(log, n), NEW k,
         NEW todo, todo \subseteq TradesOf(log, k), todo # {},
         \A t \in TradesOf(log, k) \ todo, u \in todo : Sooner(log, t, u),
         NEW t, t = Earliest(log, todo)
  PROVE  /\ NextUp(log, k, n, TradesOf(log, k) \ todo, t) /\ t \in todo
         /\ \A u \in todo : Sooner(log, t, u)
<1> DEFINE ts == TradesOf(log, k)
<1>1. ts \subseteq DOMAIN log
  BY DEF TradesOf
<1>2. t \in todo /\ \A u \in todo : Sooner(log, t, u)
  BY <1>1, EarliestIs
<1>3. \A u \in ts : u \in Nat /\ log[u].date \in Nat
  BY <1>1, LedgerAssumption DEF LogTable, TradeRow
<1>4. ASSUME NEW u \in ts PROVE Sooner(log, u, t) <=> u \in (ts \ todo) \cup {t}
  <2>1. CASE u \in ts \ todo
    BY <1>2, <2>1
  <2>2. CASE u = t
    BY <1>3, <2>2 DEF Sooner
  <2>3. CASE u \in todo /\ u # t
    <3>1. Sooner(log, t, u)
      BY <1>2, <2>3
    <3>2. ~ Sooner(log, u, t)
      BY <1>2, <1>3, <2>3, <3>1 DEF Sooner
    <3> QED BY <2>3, <3>2
  <2> QED BY <2>1, <2>2, <2>3
<1>5. SoonerThan(log, k, t) = (ts \ todo) \cup {t}
  BY <1>2, <1>4 DEF SoonerThan
<1> QED BY <1>2, <1>5 DEF NextUp

(* A round keeps the books.                                                *)
LEMMA StepDoes ==
  ASSUME NEW log, NEW n \in Nat, LogTable(log, n), NEW k, NEW s, Doing(log, k, n, s)
  PROVE  Doing(log, k, n, ReplayStep(log, s))
<1> DEFINE ts == TradesOf(log, k)
<1>1. PICK r : r = ReplayStep(log, s)
  OBVIOUS
<1>2. PICK t : t = Earliest(log, s.todo)
  OBVIOUS
<1>3. /\ s.todo \subseteq ts /\ \A u \in ts \ s.todo, v \in s.todo : Sooner(log, u, v)
      /\ s.ok => DoneBooks(log, k, n, ts \ s.todo, s.mem, s.realized)
  BY DEF Doing
<1>4. CASE ~ r.ok
  <2>1. r.todo = s.todo
    BY <1>1, <1>4, RefusedStepIs
  <2> QED BY <1>1, <1>3, <1>4, <2>1 DEF Doing
<1>5. CASE s.todo = {} \/ ~ s.ok
  <2>1. r = s
    BY <1>1, <1>5 DEF ReplayStep
  <2> QED BY <1>1, <2>1
<1>6. CASE r.ok /\ ~ (s.todo = {} \/ ~ s.ok)
  <2>1. /\ NextUp(log, k, n, ts \ s.todo, t) /\ t \in s.todo
        /\ \A u \in s.todo : Sooner(log, t, u)
    BY <1>2, <1>3, <1>6, EarliestIsNext
  <2>2. DoneBooks(log, k, n, ts \ s.todo, s.mem, s.realized)
    BY <1>3, <1>6
  <2>3. r.todo = s.todo \ {t} /\ DoneBooks(log, k, n, (ts \ s.todo) \cup {t}, r.mem, r.realized)
    <3>1. CASE log[t].action = "BUY"
      <4>1. /\ r.todo = s.todo \ {t} /\ r.realized = s.realized
            /\ r.mem = Append(s.mem, MemoryLot(t, log[t].qty, log[t].unit))
        BY <1>1, <1>2, <1>6, <3>1, BuyStepIs
      <4>2. DoneBooks(log, k, n, (ts \ s.todo) \cup {t}, r.mem, s.realized)
        BY <2>1, <2>2, <3>1, <4>1, BuyBooks
      <4> QED BY <4>1, <4>2
    <3>2. CASE log[t].action # "BUY"
      <4>1. PICK cost : cost = CostOfSale(MemoryQueue(s.mem), MemoryCost(s.mem), log[t].qty, Len(s.mem))
        OBVIOUS
      <4>2. /\ r.todo = s.todo \ {t} /\ r.mem = AfterReplayedSale(s.mem, log[t].qty)
            /\ r.realized = s.realized + (log[t].qty * log[t].unit - cost)
            /\ ~ (log[t].qty > Available(MemoryQueue(s.mem), Len(s.mem)))
        BY <1>1, <1>2, <1>6, <3>2, <4>1, SellStepIs
      <4>3. DoneBooks(log, k, n, (ts \ s.todo) \cup {t}, r.mem,
                      s.realized + (log[t].qty * log[t].unit - cost))
        BY <2>1, <2>2, <3>2, <4>1, <4>2, SaleBooks
      <4> QED BY <4>2, <4>3
    <3> QED BY <3>1, <3>2
  <2>4. ts \ r.todo = (ts \ s.todo) \cup {t} /\ r.todo \subseteq ts
    BY <1>3, <2>1, <2>3
  <2>5. \A u \in ts \ r.todo, v \in r.todo : Sooner(log, u, v)
    BY <1>3, <2>1, <2>3, <2>4
  <2> QED BY <1>1, <2>3, <2>4, <2>5 DEF Doing
<1> QED BY <1>4, <1>5, <1>6

(* An accepted rebuild has done every trade of its key, with the books     *)
(* of all of them.                                                         *)
LEMMA AcceptedBooks ==
  ASSUME NEW log, NEW n \in Nat, LogTable(log, n), NEW k, NEW r, Accepted(log, k, r)
  PROVE  DoneBooks(log, k, n, TradesOf(log, k), r.mem, r.realized)
<1> DEFINE ts == TradesOf(log, k)
<1>1. PICK table, ids : \E seq \in Nat :
        DOMAIN table \subseteq 1..seq /\ Matches(log, table, ids) /\ r = Rebuild(log, table, seq, k)
  BY DEF Accepted
<1>2. PICK seq \in Nat :
        DOMAIN table \subseteq 1..seq /\ Matches(log, table, ids) /\ r = Rebuild(log, table, seq, k)
  BY <1>1
<1>3. r.ok
  BY DEF Accepted
<1>4. PICK kept : kept = ids \ ts
  OBVIOUS
<1>5. kept \cap ts = {} /\ Matches(log, WithoutLotsOf(table, ts), kept)
  BY <1>2, <1>4, WipedMatches
<1>6. PICK after : after = Replayed(log, Wiped(log, table, seq, k))
  OBVIOUS
<1>7. r = after[Cardinality(ts)] /\ r.todo = {}
  BY <1>2, <1>3, <1>5, <1>6, RebuildMatches DEF Rebuilt
<1>8. Cardinality(ts) \in Nat
  BY <1>2, <1>5, RoundsReplay
<1>9. after[0] = Wiped(log, table, seq, k) /\ \A i \in Nat : after[i + 1] = ReplayStep(log, after[i])
  BY <1>6, ReplayedRounds
<1> DEFINE S == {i \in Nat : Doing(log, k, n, after[i])}
<1>10. 0 \in S
  <2>1. PICK s : s = after[0]
    OBVIOUS
  <2>2. s.todo = ts /\ s.mem = <<>> /\ s.realized = 0
    BY <1>9, <2>1 DEF Wiped, Replay
  <2>3. DoneBooks(log, k, n, {}, s.mem, s.realized)
    BY <2>2, EmptyBooks
  <2>4. ts \ s.todo = {} /\ s.todo \subseteq ts
    BY <2>2
  <2>5. Doing(log, k, n, s)
    BY <2>3, <2>4 DEF Doing
  <2> QED BY <2>1, <2>5
<1>11. ASSUME NEW i \in Nat, i \in S PROVE i + 1 \in S
  <2>1. Doing(log, k, n, ReplayStep(log, after[i]))
    BY <1>11, StepDoes
  <2> QED BY <1>9, <2>1
<1> HIDE DEF S
<1>12. Nat \subseteq S
  BY <1>10, <1>11, SetInduction
<1>13. Doing(log, k, n, r)
  BY <1>7, <1>8, <1>12 DEF S
<1>14. ts \ r.todo = ts
  BY <1>7
<1> QED BY <1>3, <1>13, <1>14 DEF Doing

--------------------------------------------------------------------------------
(* What an accepted edit leaves, in the words of its properties. *)

(* An edit that was answered with ok is one that wrote.                    *)
LEMMA EditedWrites ==
  ASSUME ReplayInv, [ReplayNext]_replayVars, Edited
  PROVE  \E one, other, first, second : EditWritten(one, other, first, second)
<1>1. edits' # edits /\ reply'.outcome = "ok"
  BY DEF Edited
<1>2. ReplayNext
  BY <1>1 DEF replayVars
<1>3. ~ RecordReply /\ ~ UNCHANGED <<edits, reply>>
  BY <1>1 DEF RecordReply
<1>4. ASSUME NEW t \in DOMAIN trades, NEW row \in TradeRow, UpdateTrade(t, row)
      PROVE  \E one, other, first, second : EditWritten(one, other, first, second)
  <2>1. ~ EditRefused
    BY <1>1 DEF EditRefused
  <2> QED BY <1>4, <2>1, UpdateEffects
<1>5. ASSUME NEW t \in DOMAIN trades, DeleteTrade(t)
      PROVE  \E one, other, first, second : EditWritten(one, other, first, second)
  <2>1. ~ EditRefused
    BY <1>1 DEF EditRefused
  <2> QED BY <1>5, <2>1, DeleteEffects
<1> QED BY <1>2, <1>3, <1>4, <1>5 DEF ReplayNext

(* The keys it edited are the ones it rebuilt.                             *)
LEMMA EditedAreRebuilt ==
  ASSUME NEW one, NEW other, NEW first, NEW second, EditWritten(one, other, first, second),
         NEW k \in EditedKeys
  PROVE  \E r : /\ Accepted(trades', k, r)
                /\ k \in DOMAIN positions' /\ positions'[k] = RebuiltPosition(r)
<1>1. k = one \/ k = other
  BY DEF EditedKeys, EditWritten
<1>2. /\ Accepted(trades', one, first) /\ Accepted(trades', other, second)
      /\ positions' = Put(Put(positions, one, RebuiltPosition(first)), other, RebuiltPosition(second))
  BY DEF EditWritten
<1>3. CASE k = other
  <2>1. k \in DOMAIN positions' /\ positions'[k] = RebuiltPosition(second)
    BY <1>2, <1>3 DEF Put
  <2> QED BY <1>2, <1>3, <2>1
<1>4. CASE k = one /\ k # other
  <2>1. k \in DOMAIN positions' /\ positions'[k] = RebuiltPosition(first)
    BY <1>2, <1>4 DEF Put
  <2> QED BY <1>2, <1>4, <2>1
<1> QED BY <1>1, <1>3, <1>4

(* The balance at a trade is what was bought less what was sold up to it.  *)
LEMMA BalanceIs ==
  ASSUME NEW log, log = trades', NEW n \in Nat, n = tradeSeq', LogTable(log, n),
         NEW t \in DOMAIN log, NEW k, k = log[t].key
  PROVE  BalanceAt(trades[t].key, t)'
           = BoughtBy(log, k, n, SoonerThan(log, k, t)) - SoldBy(log, k, n, SoonerThan(log, k, t))
<1> DEFINE buys == QtyOf(log, k, "BUY")
<1> DEFINE sells == QtyOf(log, k, "SELL")
<1> DEFINE ids == SoonerThan(log, k, t)
<1> DEFINE balance == [u \in Nat |-> IF u \in DOMAIN log /\ Sooner(log, u, t) THEN buys[u] - sells[u] ELSE 0]
<1> DEFINE net == [u \in Nat |-> buys[u] - sells[u]]
<1>1. BalanceAt(trades[t].key, t)' = RunningSum(balance)[n]
  BY DEF BalanceAt, NotLater, BuyColumn, SellColumn, QtyOf, Sooner
<1>2. buys \in [Nat -> Int] /\ sells \in [Nat -> Int]
  BY QtyColumn
<1>3. \A u \in Nat : u \notin TradesOf(log, k) => buys[u] = 0 /\ sells[u] = 0
  BY DEF QtyOf, TradesOf
<1>4. \A u \in Nat : u \in ids <=> u \in TradesOf(log, k) /\ Sooner(log, u, t)
  BY DEF SoonerThan
<1>5. \A u \in Nat : u \in TradesOf(log, k) => u \in DOMAIN log
  BY DEF TradesOf
<1> HIDE DEF buys, sells, ids
<1>6. net \in [Nat -> Int] /\ \A u \in Nat : net[u] = buys[u] - sells[u]
  BY <1>2
<1>7. balance \in [Nat -> Int]
  BY <1>2
<1>8. \A u \in Nat : balance[u] = Only(net, ids)[u]
  BY <1>3, <1>4, <1>5 DEF Only
<1> HIDE DEF net, balance
<1>9. RunningSum(balance)[n] = SumOf(net, ids, n)
  BY <1>6, <1>7, <1>8, OnlyType, SumEqual DEF SumOf
<1>10. SumOf(net, ids, n) = SumOf(buys, ids, n) - SumOf(sells, ids, n)
  BY <1>2, <1>6, SumOfDifference
<1> QED BY <1>1, <1>9, <1>10 DEF BoughtBy, SoldBy, buys, sells, ids

(* An edit is accepted only when no sale of the log it leaves is short of  *)
(* shares bought before it (InsufficientShares of _rebuild_position).      *)
THEOREM AcceptedEditsReplay == ReplaySpec => AcceptedEditIsReplayable
<1>1. ASSUME ReplayInv, [ReplayNext]_replayVars, Edited, NEW t \in DOMAIN trades',
             trades'[t].key \in EditedKeys
      PROVE  BalanceAt(trades[t].key, t)' >= 0
  <2>1. PICK one, other, first, second : EditWritten(one, other, first, second)
    BY <1>1, EditedWrites
  <2>2. PICK log, n, k : log = trades' /\ n = tradeSeq' /\ k = trades'[t].key
    OBVIOUS
  <2>3. n \in Nat /\ LogTable(log, n) /\ t \in DOMAIN log /\ k = log[t].key
    BY <1>1, <2>1, <2>2 DEF EditWritten, ReplayInv
  <2>4. PICK r : Accepted(log, k, r)
    BY <1>1, <2>1, <2>2, EditedAreRebuilt
  <2>5. NeverShort(log, k, n, TradesOf(log, k))
    BY <2>3, <2>4, AcceptedBooks DEF DoneBooks
  <2>6. t \in TradesOf(log, k)
    BY <2>3 DEF TradesOf
  <2>7. PICK ids : ids = SoonerThan(log, k, t)
    OBVIOUS
  <2>8. SoldBy(log, k, n, ids) <= BoughtBy(log, k, n, ids)
    BY <2>5, <2>6, <2>7 DEF NeverShort
  <2>9. BoughtBy(log, k, n, ids) \in Nat /\ SoldBy(log, k, n, ids) \in Nat
    BY <2>3, TotalsAreNatural
  <2>10. BalanceAt(trades[t].key, t)' = BoughtBy(log, k, n, ids) - SoldBy(log, k, n, ids)
    BY <2>2, <2>3, <2>7, BalanceIs
  <2> QED BY <2>8, <2>9, <2>10
<1>2. ReplayInv /\ [ReplayNext]_replayVars
        => (Edited => \A t \in DOMAIN trades' : trades'[t].key \in EditedKeys
                        => BalanceAt(trades[t].key, t)' >= 0)
  BY <1>1
<1> QED BY <1>2, ReplayInvariant, PTL DEF ReplaySpec, AcceptedEditIsReplayable

(* Over all the trades of a key the totals are those of its columns.       *)
LEMMA AllDone ==
  ASSUME NEW log, NEW n \in Nat, LogTable(log, n), NEW k
  PROVE  /\ BoughtBy(log, k, n, TradesOf(log, k)) = RunningSum(QtyOf(log, k, "BUY"))[n]
         /\ SoldBy(log, k, n, TradesOf(log, k)) = RunningSum(QtyOf(log, k, "SELL"))[n]
         /\ PaidBy(log, k, n, TradesOf(log, k)) = RunningSum(CashOf(log, k))[n]
<1> DEFINE ts == TradesOf(log, k)
<1>1. ASSUME NEW f \in [Nat -> Int], \A i \in Nat : i \notin ts => f[i] = 0
      PROVE  SumOf(f, ts, n) = RunningSum(f)[n]
  <2>1. \A i \in 1..n : Only(f, ts)[i] = f[i]
    BY <1>1 DEF Only
  <2> QED BY <2>1, OnlyType, SumEqual DEF SumOf
<1>2. /\ QtyOf(log, k, "BUY") \in [Nat -> Int] /\ QtyOf(log, k, "SELL") \in [Nat -> Int]
      /\ CashOf(log, k) \in [Nat -> Int]
  BY QtyColumn, CashColumnType
<1>3. \A i \in Nat : i \notin ts =>
        QtyOf(log, k, "BUY")[i] = 0 /\ QtyOf(log, k, "SELL")[i] = 0 /\ CashOf(log, k)[i] = 0
  BY DEF QtyOf, CashOf, TradesOf
<1> HIDE DEF ts
<1>4. /\ SumOf(QtyOf(log, k, "BUY"), ts, n) = RunningSum(QtyOf(log, k, "BUY"))[n]
      /\ SumOf(QtyOf(log, k, "SELL"), ts, n) = RunningSum(QtyOf(log, k, "SELL"))[n]
      /\ SumOf(CashOf(log, k), ts, n) = RunningSum(CashOf(log, k))[n]
  BY <1>1, <1>2, <1>3
<1> QED BY <1>4 DEF BoughtBy, SoldBy, PaidBy, ts

(* What is left of the BUY t of k when every sale of k is done, and what   *)
(* that cost.                                                              *)
LeftIn(log, k, n, t) ==
  LET beyond == UpTo(log, k, n, t) - SoldBy(log, k, n, TradesOf(log, k))
  IN  IF beyond <= 0 THEN 0 ELSE Smaller(beyond, log[t].qty)

CostIn(log, k, n) ==
  [t \in Nat |-> IF QtyOf(log, k, "BUY")[t] > 0 THEN LeftIn(log, k, n, t) * log[t].unit ELSE 0]

(* It is what the property computes.                                       *)
LEMMA LeftOfIs ==
  ASSUME NEW log, log = trades', NEW n \in Nat, n = tradeSeq', LogTable(log, n), NEW k, NEW t
  PROVE  LeftOf(k, t)' = LeftIn(log, k, n, t)
<1> DEFINE buys == QtyOf(log, k, "BUY")
<1> DEFINE ids == SoonerThan(log, k, t)
<1> DEFINE upTo == [u \in Nat |-> IF u \in DOMAIN log /\ Sooner(log, u, t) THEN buys[u] ELSE 0]
<1>1. BoughtUpTo(k, t)' = RunningSum(upTo)[n]
  BY DEF BoughtUpTo, NotLater, BuyColumn, QtyOf, Sooner
<1>2. buys \in [Nat -> Int]
  BY QtyColumn
<1>3. \A u \in Nat : u \notin TradesOf(log, k) => buys[u] = 0
  BY DEF QtyOf, TradesOf
<1>4. \A u \in Nat : u \in ids <=> u \in TradesOf(log, k) /\ Sooner(log, u, t)
  BY DEF SoonerThan
<1>5. \A u \in Nat : u \in TradesOf(log, k) => u \in DOMAIN log
  BY DEF TradesOf
<1> HIDE DEF buys, ids
<1>6. upTo \in [Nat -> Int] /\ \A u \in Nat : upTo[u] = Only(buys, ids)[u]
  BY <1>2, <1>3, <1>4, <1>5 DEF Only
<1> HIDE DEF upTo
<1>7. RunningSum(upTo)[n] = SumOf(buys, ids, n)
  BY <1>2, <1>6, OnlyType, SumEqual DEF SumOf
<1>8. BoughtUpTo(k, t)' = UpTo(log, k, n, t)
  BY <1>1, <1>7 DEF UpTo, BoughtBy, buys, ids
<1>9. Sold(k)' = SoldBy(log, k, n, TradesOf(log, k))
  <2>1. Sold(k)' = RunningSum(QtyOf(log, k, "SELL"))[n]
    BY DEF Sold, SellColumn, QtyOf
  <2> QED BY <2>1, AllDone
<1> QED BY <1>8, <1>9 DEF LeftOf, LeftIn

(* The position the property computes, in the totals of the replay.        *)
LEMMA PositionIs ==
  ASSUME NEW log, log = trades', NEW n \in Nat, n = tradeSeq', LogTable(log, n), NEW k,
         NEW quantity, quantity = BoughtBy(log, k, n, TradesOf(log, k)) - SoldBy(log, k, n, TradesOf(log, k)),
         NEW cost, cost = RunningSum(CostIn(log, k, n))[n],
         NEW paid, paid = PaidBy(log, k, n, TradesOf(log, k))
  PROVE  ChronologicalPosition(k)'
           = [quantity |-> quantity, total_cost |-> cost, realized_pnl |-> cost - paid,
              is_closed |-> quantity = 0]
<1>1. BuyColumn(k)' = QtyOf(log, k, "BUY")
  BY DEF BuyColumn, QtyOf
<1>2. Sold(k)' = RunningSum(QtyOf(log, k, "SELL"))[n]
  BY DEF Sold, SellColumn, QtyOf
<1>3. CashColumn(k)' = CashOf(log, k)
  BY DEF CashColumn, CashOf, Cash
<1>4. quantity = RunningSum(BuyColumn(k)')[tradeSeq'] - Sold(k)'
  BY <1>1, <1>2, AllDone
<1>5. paid = RunningSum(CashColumn(k)')[tradeSeq']
  BY <1>3, AllDone
<1>6. cost = ChronologicalCost(k)'
  <2>1. \A t \in Nat : LeftOf(k, t)' = LeftIn(log, k, n, t)
    BY LeftOfIs
  <2>2. CostIn(log, k, n) = [t \in Nat |-> IF BuyColumn(k)'[t] > 0 THEN LeftOf(k, t)' * trades'[t].unit ELSE 0]
    BY <1>1, <2>1 DEF CostIn
  <2> QED BY <2>2 DEF ChronologicalCost
<1> QED BY <1>4, <1>5, <1>6 DEF ChronologicalPosition

(* A lot of the list holds what a first-in-first-out seller would have     *)
(* left of its BUY.                                                        *)
LEMMA LotIsLeft ==
  ASSUME NEW log, NEW n \in Nat, LogTable(log, n), NEW k, NEW mem,
         Listing(log, k, n, TradesOf(log, k), mem), Shares(log, k, n, TradesOf(log, k), mem),
         NEW i \in 1..Len(mem)
  PROVE  /\ mem[i].id \in 1..n /\ CostIn(log, k, n)[mem[i].id] \in Int
         /\ MemoryValue(mem)[i] = CostIn(log, k, n)[mem[i].id]
<1>1. PICK t, row, queue : t = mem[i].id /\ row = log[t] /\ queue = MemoryQueue(mem)
  OBVIOUS
<1>2. /\ mem \in Seq(MemoryRow) /\ t \in TradesOf(log, k) /\ row.action = "BUY"
      /\ mem[i].cost = row.unit
      /\ UpTo(log, k, n, t) = (IF i = 1 THEN 0 ELSE UpTo(log, k, n, mem[i - 1].id)) + row.qty
  BY <1>1 DEF Listing
<1>3. t \in DOMAIN log /\ t \in 1..n /\ t \in Nat /\ row \in TradeRow /\ row.key = k
  BY <1>1, <1>2 DEF TradesOf, LogTable
<1>4. row.qty \in Nat \ {0} /\ row.unit \in Nat
  BY <1>3, LedgerAssumption DEF TradeRow
<1>5. Len(mem) \in Nat /\ i \in Nat /\ i - 1 \in Nat /\ (i # 1 => i - 1 \in 1..Len(mem))
  BY <1>2
<1>6. PICK sold \in Nat : sold = SoldBy(log, k, n, TradesOf(log, k))
  BY TotalsAreNatural
<1>7. PICK before \in Nat : before = IF i = 1 THEN 0 ELSE UpTo(log, k, n, mem[i - 1].id)
  <2>1. i # 1 => UpTo(log, k, n, mem[i - 1].id) \in Nat
    BY TotalsAreNatural DEF UpTo
  <2> QED BY <2>1
<1>8. UpTo(log, k, n, t) = before + row.qty
  BY <1>2, <1>7
<1>9. queue \in [Nat -> Int]
  BY <1>1, <1>2, MemoryColumns
<1>10. RunningSum(queue)[i] = Rest((before + row.qty) - sold)
  BY <1>1, <1>6, <1>8 DEF Shares
<1>11. RunningSum(queue)[i - 1] = Rest(before - sold)
  <2>1. CASE i = 1
    <3>1. RunningSum(queue)[0] = 0
      BY <1>9, RunningSumDef
    <3> QED BY <1>7, <2>1, <3>1 DEF Rest
  <2>2. CASE i # 1
    BY <1>1, <1>5, <1>6, <1>7, <2>2 DEF Shares
  <2> QED BY <2>1, <2>2
<1>12. queue[i] = RunningSum(queue)[i] - RunningSum(queue)[i - 1]
  <2>1. /\ RunningSum(queue) \in [Nat -> Int]
        /\ \A j \in Nat : RunningSum(queue)[j + 1] = RunningSum(queue)[j] + queue[j + 1]
    BY <1>9, RunningSumDef
  <2>2. (i - 1) + 1 = i
    BY <1>5
  <2>3. RunningSum(queue)[i] = RunningSum(queue)[i - 1] + queue[i]
    BY <1>5, <2>1, <2>2
  <2>4. RunningSum(queue)[i - 1] \in Int /\ queue[i] \in Int
    BY <1>5, <1>9, <2>1
  <2> QED BY <2>3, <2>4
<1>13. queue[i] = LeftIn(log, k, n, t)
  <2>1. LeftIn(log, k, n, t) = IF (before + row.qty) - sold <= 0 THEN 0
                               ELSE Smaller((before + row.qty) - sold, row.qty)
    BY <1>1, <1>6, <1>8 DEF LeftIn
  <2> QED BY <1>4, <1>10, <1>11, <1>12, <2>1 DEF Rest, Smaller
<1>14. MemoryValue(mem)[i] = queue[i] * row.unit
  <2>1. MemoryCost(mem)[i] = mem[i].cost
    BY <1>2 DEF MemoryCost
  <2> QED BY <1>1, <1>2, <1>5, <2>1 DEF MemoryValue
<1>15. QtyOf(log, k, "BUY")[t] = row.qty
  BY <1>1, <1>2, <1>3 DEF QtyOf
<1>16. CostIn(log, k, n)[t] = LeftIn(log, k, n, t) * row.unit
  BY <1>1, <1>3, <1>4, <1>15 DEF CostIn
<1>17. queue[i] \in Int /\ queue[i] * row.unit \in Int
  BY <1>4, <1>5, <1>9
<1> QED BY <1>1, <1>3, <1>13, <1>14, <1>16, <1>17

(* What the list is worth is what is left of the BUYs of the log.          *)
LEMMA ListIsWorth ==
  ASSUME NEW log, NEW n \in Nat, LogTable(log, n), NEW k, NEW mem,
         Listing(log, k, n, TradesOf(log, k), mem), Shares(log, k, n, TradesOf(log, k), mem)
  PROVE  RunningSum(MemoryValue(mem))[Len(mem)] = RunningSum(CostIn(log, k, n))[n]
<1>1. PICK m, f : m = Len(mem) /\ f = CostIn(log, k, n)
  OBVIOUS
<1>2. mem \in Seq(MemoryRow) /\ m \in Nat
  BY <1>1 DEF Listing
<1>3. f \in [Nat -> Int]
  <2>1. ASSUME NEW t \in Nat PROVE f[t] \in Int
    <3>1. f[t] = IF QtyOf(log, k, "BUY")[t] > 0 THEN LeftIn(log, k, n, t) * log[t].unit ELSE 0
      BY <1>1 DEF CostIn
    <3>2. CASE QtyOf(log, k, "BUY")[t] > 0
      <4>1. t \in DOMAIN log
        BY <3>2 DEF QtyOf
      <4>2. log[t].qty \in Nat /\ log[t].unit \in Nat
        BY <4>1, LedgerAssumption DEF LogTable, TradeRow
      <4>3. UpTo(log, k, n, t) \in Nat /\ SoldBy(log, k, n, TradesOf(log, k)) \in Nat
        BY TotalsAreNatural DEF UpTo
      <4>4. LeftIn(log, k, n, t) \in Int
        BY <4>2, <4>3 DEF LeftIn, Smaller
      <4> QED BY <3>1, <3>2, <4>2, <4>4
    <3> QED BY <3>1, <3>2
  <2> QED BY <1>1, <2>1 DEF CostIn
<1>4. PICK p : p = [i \in 1..m |-> mem[i].id]
  OBVIOUS
<1>5. ASSUME NEW i \in 1..m
      PROVE  mem[i].id \in 1..n /\ MemoryValue(mem)[i] = f[mem[i].id]
  BY <1>1, <1>5, LotIsLeft
<1>6. p \in [1..m -> 1..n]
  BY <1>4, <1>5
<1>7. \A i, j \in 1..m : p[i] = p[j] => i = j
  <2>1. \A i, j \in 1..m : mem[i].id = mem[j].id => i = j
    BY <1>1 DEF Listing
  <2> QED BY <1>4, <2>1
<1>8. PICK g : g = MemoryValue(mem)
  OBVIOUS
<1>9. g \in [Nat -> Int]
  BY <1>2, <1>8, MemoryColumns
<1>10. \A i \in 1..m : g[i] = f[p[i]]
  BY <1>4, <1>5, <1>8
<1>11. PICK ids : ids = {p[i] : i \in 1..m}
  OBVIOUS
<1>12. RunningSum(g)[m] = SumOf(f, ids, n)
  <2>1. Lists(f, n, p, m, g)
    BY <1>2, <1>3, <1>6, <1>7, <1>9, <1>10 DEF Lists
  <2>2. RunningSum(g)[m] = SumOf(f, Places(p, m), n)
    BY <2>1, SumOfList
  <2> QED BY <1>11, <2>2 DEF Places
<1>13. \A t \in 1..n : Only(f, ids)[t] = f[t]
  <2> SUFFICES ASSUME NEW t \in 1..n, f[t] # 0 PROVE t \in ids
    BY DEF Only
  <2>1. QtyOf(log, k, "BUY")[t] > 0
    BY <1>1 DEF CostIn
  <2>2. t \in TradesOf(log, k) /\ log[t].action = "BUY"
    BY <2>1 DEF QtyOf, TradesOf
  <2>3. PICK i \in 1..m : mem[i].id = t
    BY <1>1, <2>2 DEF Listing
  <2> QED BY <1>4, <1>11, <2>3
<1>14. SumOf(f, ids, n) = RunningSum(f)[n]
  BY <1>3, <1>13, OnlyType, SumEqual DEF SumOf
<1> QED BY <1>1, <1>8, <1>12, <1>14

(* An accepted edit leaves every position it touches exactly as the edited *)
(* log, read in chronological order, says (_rebuild_position).             *)
THEOREM EditsReplayTheLog == ReplaySpec => EditReplaysLog
<1>1. ASSUME ReplayInv, [ReplayNext]_replayVars, Edited, NEW k \in EditedKeys
      PROVE  k \in DOMAIN positions' /\ positions'[k] = ChronologicalPosition(k)'
  <2>1. PICK one, other, first, second : EditWritten(one, other, first, second)
    BY <1>1, EditedWrites
  <2>2. PICK log, n : log = trades' /\ n = tradeSeq'
    OBVIOUS
  <2>3. n \in Nat /\ LogTable(log, n)
    BY <1>1, <2>1, <2>2 DEF EditWritten, ReplayInv
  <2>4. PICK r : /\ Accepted(log, k, r)
                 /\ k \in DOMAIN positions' /\ positions'[k] = RebuiltPosition(r)
    BY <1>1, <2>1, <2>2, EditedAreRebuilt
  <2>5. PICK ts, mem : ts = TradesOf(log, k) /\ mem = r.mem
    OBVIOUS
  <2>6. /\ Listing(log, k, n, ts, mem) /\ Shares(log, k, n, ts, mem)
        /\ Worth(log, k, n, ts, mem, r.realized)
    BY <2>3, <2>4, <2>5, AcceptedBooks DEF DoneBooks
  <2>7. PICK quantity, cost, paid : /\ quantity = BoughtBy(log, k, n, ts) - SoldBy(log, k, n, ts)
                                    /\ cost = RunningSum(CostIn(log, k, n))[n]
                                    /\ paid = PaidBy(log, k, n, ts)
    OBVIOUS
  <2>8. Available(MemoryQueue(mem), Len(mem)) = quantity
    BY <2>3, <2>6, <2>7, ListHolds
  <2>9. RunningSum(MemoryValue(mem))[Len(mem)] = cost
    BY <2>3, <2>5, <2>6, <2>7, ListIsWorth
  <2>10. r.realized = cost - paid
    <3>1. r.realized \in Int /\ cost - r.realized = paid
      BY <2>6, <2>7, <2>9 DEF Worth
    <3>2. cost \in Int
      <4>1. mem \in Seq(MemoryRow) /\ Len(mem) \in Nat
        BY <2>6 DEF Listing
      <4>2. MemoryValue(mem) \in [Nat -> Int]
        BY <4>1, MemoryColumns
      <4> QED BY <2>9, <4>1, <4>2, RunningSumDef
    <3> QED BY <3>1, <3>2
  <2>11. RebuiltPosition(r)
           = [quantity |-> quantity, total_cost |-> cost, realized_pnl |-> cost - paid,
              is_closed |-> quantity = 0]
    BY <2>5, <2>8, <2>9, <2>10 DEF RebuiltPosition, MemoryValue
  <2>12. ChronologicalPosition(k)'
           = [quantity |-> quantity, total_cost |-> cost, realized_pnl |-> cost - paid,
              is_closed |-> quantity = 0]
    BY <2>2, <2>3, <2>5, <2>7, PositionIs
  <2> QED BY <2>4, <2>11, <2>12
<1>2. ReplayInv /\ [ReplayNext]_replayVars
        => (Edited => \A k \in EditedKeys :
              k \in DOMAIN positions' /\ positions'[k] = ChronologicalPosition(k)')
  BY <1>1
<1> QED BY <1>2, ReplayInvariant, PTL DEF ReplaySpec, EditReplaysLog

--------------------------------------------------------------------------------
(* Totals over some places of a table: a function of any domain, read at   *)
(* the places S, which are ids.                                            *)

Whole(f, S) == \A x \in S : f[x] \in Int
Amounts(f, S) == \A x \in S : f[x] \in Nat

(* A total of integers is one, and one of amounts is an amount.            *)
LEMMA TotalType ==
  ASSUME NEW f, NEW S, NEW n \in Nat
  PROVE  /\ Whole(f, S) => Only(f, S) \in [Nat -> Int] /\ SumOf(f, S, n) \in Int
         /\ Amounts(f, S) => Only(f, S) \in [Nat -> Nat] /\ SumOf(f, S, n) \in Nat
         /\ Amounts(f, S) => Whole(f, S)
<1>1. ASSUME Whole(f, S) PROVE Only(f, S) \in [Nat -> Int] /\ SumOf(f, S, n) \in Int
  <2>1. Only(f, S) \in [Nat -> Int]
    BY <1>1 DEF Only, Whole
  <2> QED BY <2>1, RunningSumDef DEF SumOf
<1>2. ASSUME Amounts(f, S) PROVE Only(f, S) \in [Nat -> Nat] /\ SumOf(f, S, n) \in Nat
  <2>1. Only(f, S) \in [Nat -> Nat]
    BY <1>2 DEF Only, Amounts
  <2> QED BY <2>1, SumNatural DEF SumOf
<1>3. Amounts(f, S) => Whole(f, S)
  BY DEF Amounts, Whole
<1> QED BY <1>1, <1>2, <1>3

(* Only the values at the places count.                                    *)
LEMMA TotalSame ==
  ASSUME NEW f, NEW g, NEW S, \A x \in S : f[x] = g[x], NEW n
  PROVE  SumOf(f, S, n) = SumOf(g, S, n)
<1>1. Only(f, S) = Only(g, S)
  BY DEF Only
<1> QED BY <1>1 DEF SumOf

(* One more place.                                                         *)
LEMMA TotalWith ==
  ASSUME NEW f, NEW S, NEW n \in Nat, NEW x \in 1..n, x \notin S, Whole(f, S \cup {x})
  PROVE  SumOf(f, S \cup {x}, n) = SumOf(f, S, n) + f[x]
<1> DEFINE g == Only(f, S \cup {x})
<1>1. g \in [Nat -> Int] /\ g[x] = f[x]
  BY TotalType DEF Only
<1>2. Only(f, S \cup {x}) = Only(g, S \cup {x}) /\ Only(f, S) = Only(g, S)
  BY DEF Only
<1> HIDE DEF g
<1>3. SumOf(g, S \cup {x}, n) = SumOf(g, S, n) + g[x]
  BY ONLY <1>1, n \in Nat, x \in 1..n, x \notin S, SumOfOneMore
<1> QED BY <1>1, <1>2, <1>3 DEF SumOf

(* No places, no total.                                                    *)
LEMMA TotalOfNone ==
  ASSUME NEW f, NEW n \in Nat
  PROVE  SumOf(f, {}, n) = 0
<1> DEFINE g == Only(f, {})
<1>1. g \in [Nat -> Int] /\ \A i \in Nat : g[i] = 0
  BY DEF Only
<1> HIDE DEF g
<1>2. RunningSum(g)[n] = 0
  BY <1>1, SumZero
<1> QED BY <1>2 DEF SumOf, g

(* A part of some amounts comes to no more than all of them.               *)
LEMMA TotalOfPart ==
  ASSUME NEW f, NEW S, NEW T, S \subseteq T, Amounts(f, T), NEW n \in Nat
  PROVE  SumOf(f, S, n) <= SumOf(f, T, n)
<1> DEFINE g == Only(f, S)
<1> DEFINE h == Only(f, T)
<1>1. Amounts(f, S)
  BY DEF Amounts
<1>2. g \in [Nat -> Nat] /\ h \in [Nat -> Nat]
  BY <1>1, TotalType
<1>3. \A i \in 1..n : g[i] <= h[i]
  BY DEF Only, Amounts
<1> HIDE DEF g, h
<1>4. g \in [Nat -> Int] /\ h \in [Nat -> Int]
  BY <1>2
<1>5. RunningSum(g)[n] <= RunningSum(h)[n]
  BY <1>3, <1>4, SumMonotone
<1> QED BY <1>5 DEF SumOf, g, h

(* A place gives some of what it has.                                      *)
LEMMA TotalLess ==
  ASSUME NEW f, NEW g, NEW S, NEW n \in Nat, NEW x \in 1..n, x \in S, NEW d \in Int,
         Whole(f, S), g[x] = f[x] - d, \A y \in S : y # x => g[y] = f[y]
  PROVE  SumOf(g, S, n) = SumOf(f, S, n) - d
<1> DEFINE rest == S \ {x}
<1>1. S = rest \cup {x} /\ x \notin rest
  OBVIOUS
<1>2. Whole(f, rest) /\ Whole(g, S) /\ f[x] \in Int
  <2>1. \A y \in S : f[y] \in Int
    BY DEF Whole
  <2>2. \A y \in S : g[y] \in Int
    <3> SUFFICES ASSUME NEW y \in S PROVE g[y] \in Int
      OBVIOUS
    <3>1. CASE y = x
      BY <2>1, <3>1
    <3>2. CASE y # x
      BY <2>1, <3>2
    <3> QED BY <3>1, <3>2
  <2> QED BY <2>1, <2>2 DEF Whole
<1>3. SumOf(g, rest, n) = SumOf(f, rest, n)
  <2>1. \A y \in rest : g[y] = f[y]
    OBVIOUS
  <2> HIDE DEF rest
  <2> QED BY ONLY <2>1, TotalSame
<1>4. SumOf(f, rest, n) \in Int
  BY <1>2, TotalType
<1> HIDE DEF rest
<1>5. SumOf(f, rest \cup {x}, n) = SumOf(f, rest, n) + f[x]
  BY <1>1, <1>2, TotalWith
<1>6. SumOf(g, rest \cup {x}, n) = SumOf(g, rest, n) + g[x]
  BY <1>1, <1>2, TotalWith
<1>7. SumOf(f, S, n) = SumOf(f, rest, n) + f[x] /\ SumOf(g, S, n) = SumOf(g, rest, n) + g[x]
  BY <1>1, <1>5, <1>6
<1> QED BY <1>2, <1>3, <1>4, <1>7

(* What a place has is part of the total.                                  *)
LEMMA TotalCovers ==
  ASSUME NEW f, NEW S, NEW n \in Nat, Amounts(f, S), NEW x \in 1..n, x \in S
  PROVE  f[x] <= SumOf(f, S, n) /\ f[x] \in Nat
<1>1. Amounts(f, {x}) /\ f[x] \in Nat
  BY DEF Amounts
<1>2. {x} = {} \cup {x} /\ x \notin {}
  OBVIOUS
<1>3. Whole(f, {} \cup {x})
  BY <1>1 DEF Whole
<1>4. SumOf(f, {} \cup {x}, n) = SumOf(f, {}, n) + f[x]
  BY ONLY <1>2, <1>3, n \in Nat, x \in 1..n, TotalWith
<1>5. SumOf(f, {x}, n) = f[x]
  BY <1>1, <1>2, <1>4, TotalOfNone
<1>6. SumOf(f, {x}, n) <= SumOf(f, S, n)
  BY TotalOfPart
<1> QED BY <1>1, <1>5, <1>6

(* g read at T is f read at S, places up to m, and perhaps the place m + 1.*)
Extends(f, S, m, g, T) ==
  /\ m \in Nat /\ S \subseteq 1..m /\ (T = S \/ T = S \cup {m + 1})
  /\ Whole(f, S) /\ \A x \in S : g[x] = f[x]
  /\ m + 1 \in T => g[m + 1] \in Int

(* An entry at the end of a table.                                         *)
LEMMA TotalAppended ==
  ASSUME NEW f, NEW g, NEW S, NEW T, NEW m, Extends(f, S, m, g, T)
  PROVE  SumOf(g, T, m + 1) = SumOf(f, S, m) + (IF m + 1 \in T THEN g[m + 1] ELSE 0)
<1>0. /\ m \in Nat /\ S \subseteq 1..m /\ (T = S \/ T = S \cup {m + 1})
      /\ Whole(f, S) /\ \A x \in S : g[x] = f[x]
      /\ m + 1 \in T => g[m + 1] \in Int
  BY DEF Extends
<1> DEFINE before == Only(f, S)
<1> DEFINE after == Only(g, T)
<1>1. before \in [Nat -> Int]
  BY <1>0, TotalType
<1>2. Whole(g, T)
  BY <1>0 DEF Whole
<1>3. after \in [Nat -> Int]
  BY <1>0, <1>2, TotalType
<1>4. \A i \in 1..m : before[i] = after[i]
  <2> SUFFICES ASSUME NEW i \in 1..m PROVE before[i] = after[i]
    OBVIOUS
  <2>1. i \in T <=> i \in S
    BY <1>0
  <2> QED BY <1>0, <2>1 DEF Only
<1>5. after[m + 1] = IF m + 1 \in T THEN g[m + 1] ELSE 0
  BY <1>0 DEF Only
<1> HIDE DEF before, after
<1>6. RunningSum(after)[m + 1] = RunningSum(before)[m] + after[m + 1]
  BY <1>0, <1>1, <1>3, <1>4, TotalGrows
<1> QED BY <1>5, <1>6 DEF before, after, SumOf

--------------------------------------------------------------------------------
(* The rows of a report. *)

ShareRow == [buy : Nat, taker : Nat, qty : Nat]

(* Shares are counted in natural numbers.                                  *)
LEMMA SharedType ==
  ASSUME NEW rows \in Seq(ShareRow), NEW X, NEW Y
  PROVE  Shared(rows, X, Y) \in Nat
<1>1. Len(rows) \in Nat /\ DOMAIN rows = 1..Len(rows) /\ \A i \in DOMAIN rows : rows[i].qty \in Nat
  <2>1. \A i \in 1..Len(rows) : rows[i] \in ShareRow
    BY ElementOfSeq
  <2> QED BY <2>1 DEF ShareRow
<1>2. Amounts([i \in DOMAIN rows |-> rows[i].qty],
              {i \in DOMAIN rows : rows[i].buy \in X /\ rows[i].taker \in Y})
  BY <1>1 DEF Amounts
<1> QED BY <1>1, <1>2, TotalType DEF Shared

(* No rows, no shares.                                                     *)
LEMMA SharedNone ==
  ASSUME NEW X, NEW Y
  PROVE  Shared(<<>>, X, Y) = 0
<1>1. {i \in DOMAIN <<>> : <<>>[i].buy \in X /\ <<>>[i].taker \in Y} = {} /\ Len(<<>>) \in Nat
  OBVIOUS
<1>2. SumOf([i \in DOMAIN <<>> |-> <<>>[i].qty], {}, Len(<<>>)) = 0
  BY <1>1, TotalOfNone
<1> QED BY <1>1, <1>2 DEF Shared

(* more are rows and a row after them that adds its shares where it belongs. *)
Adds(rows, row, more) ==
  \A X, Y : Shared(more, X, Y)
              = Shared(rows, X, Y) + (IF row.buy \in X /\ row.taker \in Y THEN row.qty ELSE 0)

(* A row at the end does.                                                  *)
LEMMA SharedMore ==
  ASSUME NEW rows \in Seq(ShareRow), NEW row \in ShareRow, NEW more, more = Append(rows, row)
  PROVE  Adds(rows, row, more)
<1> SUFFICES ASSUME NEW X, NEW Y
             PROVE  Shared(more, X, Y)
                      = Shared(rows, X, Y) + (IF row.buy \in X /\ row.taker \in Y THEN row.qty ELSE 0)
  BY DEF Adds
<1> DEFINE m == Len(rows)
<1> DEFINE f == [i \in DOMAIN rows |-> rows[i].qty]
<1> DEFINE g == [i \in DOMAIN more |-> more[i].qty]
<1> DEFINE S == {i \in DOMAIN rows : rows[i].buy \in X /\ rows[i].taker \in Y}
<1> DEFINE T == {i \in DOMAIN more : more[i].buy \in X /\ more[i].taker \in Y}
<1>1. /\ m \in Nat /\ DOMAIN rows = 1..m /\ DOMAIN more = 1..(m + 1) /\ Len(more) = m + 1
      /\ more[m + 1] = row /\ \A i \in 1..m : more[i] = rows[i] /\ rows[i] \in ShareRow
  OBVIOUS
<1> HIDE DEF m
<1>2. row.qty \in Nat /\ \A i \in 1..m : rows[i].qty \in Nat
  BY <1>1 DEF ShareRow
<1>3. S \subseteq 1..m /\ \A x \in S : g[x] = f[x] /\ f[x] \in Int
  BY <1>1, <1>2
<1>4. m + 1 \in T <=> row.buy \in X /\ row.taker \in Y
  BY <1>1
<1>5. T = S \/ T = S \cup {m + 1}
  <2>1. \A i \in 1..m : i \in T <=> i \in S
    BY <1>1
  <2>2. T \subseteq 1..(m + 1) /\ m + 1 \notin S
    BY <1>1, <1>3
  <2>3. 1..(m + 1) = 1..m \cup {m + 1}
    BY <1>1, OneMorePlace
  <2> QED BY <1>3, <2>1, <2>2, <2>3
<1>6. g[m + 1] = row.qty /\ Whole(f, S)
  BY <1>1, <1>3 DEF Whole
<1>7. Shared(rows, X, Y) = SumOf(f, S, m) /\ Shared(more, X, Y) = SumOf(g, T, m + 1)
  BY <1>1 DEF Shared, m
<1> HIDE DEF f, g, S, T
<1>8. SumOf(g, T, m + 1) = SumOf(f, S, m) + (IF m + 1 \in T THEN g[m + 1] ELSE 0)
  <2>1. m + 1 \in T => g[m + 1] \in Int
    BY <1>2, <1>6
  <2>2. \A x \in S : g[x] = f[x]
    BY <1>3
  <2>3. Extends(f, S, m, g, T)
    BY <1>1, <1>3, <1>5, <1>6, <2>1, <2>2 DEF Extends
  <2> QED BY <2>3, TotalAppended
<1> QED BY <1>4, <1>6, <1>7, <1>8

--------------------------------------------------------------------------------
(* The rounds of draining an offer. *)

DrainsTo(offer, n, b) ==
  /\ b = [i \in 0..n |-> b[i]]
  /\ b[0] = Start(offer)
  /\ \A i \in 1..n : b[i] = Round(offer, b[i - 1])

(* The recursion of Drained has a solution, as that of RunningSum has.    *)
LEMMA DrainsExist ==
  ASSUME NEW offer
  PROVE  \A n \in Nat : \E b : DrainsTo(offer, n, b) /\ \A c : DrainsTo(offer, n, c) => c = b
<1> DEFINE S == {n \in Nat : \E b : DrainsTo(offer, n, b)
                                    /\ \A c : DrainsTo(offer, n, c) => c = b}
<1>1. 0 \in S
  <2> DEFINE e == [i \in 0..0 |-> Start(offer)]
  <2>1. DrainsTo(offer, 0, e)
    BY DEF DrainsTo
  <2>2. ASSUME NEW c, DrainsTo(offer, 0, c) PROVE c = e
    <3>1. c = [i \in 0..0 |-> c[i]] /\ c[0] = Start(offer)
      BY <2>2 DEF DrainsTo
    <3>2. \A i \in 0..0 : c[i] = Start(offer)
      BY <3>1
    <3> QED BY <3>1, <3>2
  <2> HIDE DEF e
  <2> QED BY <2>1, <2>2
<1>2. ASSUME NEW n \in Nat, n \in S PROVE n + 1 \in S
  <2>1. PICK b : DrainsTo(offer, n, b) /\ \A c : DrainsTo(offer, n, c) => c = b
    BY <1>2
  <2> DEFINE e == [i \in 0..(n + 1) |-> IF i = n + 1 THEN Round(offer, b[n]) ELSE b[i]]
  <2>2. DrainsTo(offer, n + 1, e)
    <3>1. e = [i \in 0..(n + 1) |-> e[i]] /\ e[0] = b[0]
      OBVIOUS
    <3>2. ASSUME NEW i \in 1..(n + 1) PROVE e[i] = Round(offer, e[i - 1])
      <4>1. e[i - 1] = b[i - 1]
        OBVIOUS
      <4>2. CASE i = n + 1
        BY <4>1, <4>2
      <4>3. CASE i # n + 1
        <5>1. i \in 1..n /\ e[i] = b[i]
          BY <4>3
        <5> HIDE DEF e
        <5> QED BY <2>1, <4>1, <5>1 DEF DrainsTo
      <4> QED BY <4>2, <4>3
    <3> HIDE DEF e
    <3> QED BY <2>1, <3>1, <3>2 DEF DrainsTo
  <2>3. ASSUME NEW c, DrainsTo(offer, n + 1, c) PROVE c = e
    <3>1. /\ c = [i \in 0..(n + 1) |-> c[i]] /\ c[0] = Start(offer)
          /\ \A i \in 1..(n + 1) : c[i] = Round(offer, c[i - 1])
      BY <2>3 DEF DrainsTo
    <3> DEFINE p == [i \in 0..n |-> c[i]]
    <3>2. DrainsTo(offer, n, p)
      <4>1. p = [i \in 0..n |-> p[i]] /\ p[0] = Start(offer)
        BY <3>1
      <4>2. ASSUME NEW i \in 1..n PROVE p[i] = Round(offer, p[i - 1])
        <5>1. i \in 1..(n + 1) /\ p[i] = c[i] /\ p[i - 1] = c[i - 1]
          OBVIOUS
        <5> HIDE DEF p
        <5> QED BY <3>1, <5>1
      <4> HIDE DEF p
      <4> QED BY <4>1, <4>2 DEF DrainsTo
    <3>3. p = b
      BY <2>1, <3>2
    <3>4. \A i \in 0..n : c[i] = b[i]
      <4>1. \A i \in 0..n : p[i] = c[i]
        OBVIOUS
      <4> QED BY <3>3, <4>1
    <3>5. c[n + 1] = Round(offer, b[n])
      <4>1. n + 1 \in 1..(n + 1) /\ (n + 1) - 1 = n /\ n \in 0..n
        OBVIOUS
      <4>2. c[n + 1] = Round(offer, c[(n + 1) - 1])
        BY <3>1, <4>1
      <4> QED BY <3>4, <4>1, <4>2
    <3>6. \A i \in 0..(n + 1) : c[i] = e[i]
      BY <3>4, <3>5
    <3>7. e = [i \in 0..(n + 1) |-> e[i]]
      OBVIOUS
    <3> HIDE DEF e, p
    <3> QED BY <3>1, <3>6, <3>7
  <2>4. n + 1 \in Nat
    OBVIOUS
  <2> HIDE DEF e
  <2> QED BY <2>2, <2>3, <2>4
<1> HIDE DEF S
<1>3. Nat \subseteq S
  BY <1>1, <1>2, SetInduction
<1> QED BY <1>3 DEF S

(* What Drained computes: the first round is the start, and each round    *)
(* does one step.                                                          *)
LEMMA DrainedRounds ==
  ASSUME NEW offer
  PROVE  /\ Drained(offer)[0] = Start(offer)
         /\ \A n \in Nat : Drained(offer)[n + 1] = Round(offer, Drained(offer)[n])
<1> DEFINE B(n) == CHOOSE b : DrainsTo(offer, n, b)
<1> DEFINE g == [n \in Nat |-> B(n)[n]]
<1>1. \A n \in Nat : DrainsTo(offer, n, B(n)) /\ \A c : DrainsTo(offer, n, c) => c = B(n)
  BY DrainsExist
<1> HIDE DEF B
<1>2. g[0] = Start(offer)
  BY <1>1 DEF DrainsTo
<1>3. ASSUME NEW n \in Nat PROVE g[n + 1] = Round(offer, g[n])
  <2>1. DrainsTo(offer, n + 1, B(n + 1))
    BY <1>1
  <2> DEFINE c == B(n + 1)
  <2> DEFINE p == [i \in 0..n |-> c[i]]
  <2>2. \A i \in 1..(n + 1) : c[i] = Round(offer, c[i - 1])
    BY <2>1 DEF DrainsTo
  <2>3. c[0] = Start(offer)
    BY <2>1 DEF DrainsTo
  <2> HIDE DEF c
  <2>4. DrainsTo(offer, n, p)
    <3>1. p = [i \in 0..n |-> p[i]] /\ p[0] = Start(offer)
      BY <2>3
    <3>2. ASSUME NEW i \in 1..n PROVE p[i] = Round(offer, p[i - 1])
      <4>1. i \in 1..(n + 1) /\ p[i] = c[i] /\ p[i - 1] = c[i - 1]
        OBVIOUS
      <4> HIDE DEF p
      <4> QED BY <2>2, <4>1
    <3> HIDE DEF p
    <3> QED BY <3>1, <3>2 DEF DrainsTo
  <2>5. B(n) = p
    BY <1>1, <2>4
  <2>6. p[n] = c[n]
    OBVIOUS
  <2>7. c[n + 1] = Round(offer, c[n])
    <3>1. n + 1 \in 1..(n + 1) /\ (n + 1) - 1 = n
      OBVIOUS
    <3>2. c[n + 1] = Round(offer, c[(n + 1) - 1])
      BY <2>2, <3>1
    <3> QED BY <3>1, <3>2
  <2>8. g[n] = c[n] /\ g[n + 1] = c[n + 1]
    BY <2>5, <2>6 DEF c
  <2> QED BY <2>7, <2>8
<1> HIDE DEF g
<1>4. g = [n \in Nat |-> IF n = 0 THEN Start(offer) ELSE Round(offer, g[n - 1])]
  <2>1. ASSUME NEW n \in Nat PROVE g[n] = IF n = 0 THEN Start(offer) ELSE Round(offer, g[n - 1])
    <3>1. CASE n = 0 BY <1>2, <3>1
    <3>2. CASE n # 0
      <4>1. n - 1 \in Nat /\ (n - 1) + 1 = n
        BY <3>2
      <4>2. g[(n - 1) + 1] = Round(offer, g[n - 1])
        BY <1>3, <4>1
      <4> QED BY <3>2, <4>1, <4>2
    <3> QED BY <3>1, <3>2
  <2>2. g = [n \in Nat |-> g[n]]
    BY DEF g
  <2> QED BY <2>1, <2>2
<1> DEFINE h == Drained(offer)
<1>5. h = [n \in Nat |-> IF n = 0 THEN Start(offer) ELSE Round(offer, h[n - 1])]
  BY <1>4 DEF Drained
<1> HIDE DEF h
<1>6. h[0] = Start(offer)
  BY <1>5
<1>7. ASSUME NEW n \in Nat PROVE h[n + 1] = Round(offer, h[n])
  <2>1. n + 1 \in Nat /\ n + 1 # 0 /\ (n + 1) - 1 = n
    OBVIOUS
  <2>2. h[n + 1] = Round(offer, h[(n + 1) - 1])
    BY <1>5, <2>1
  <2> QED BY <2>1, <2>2
<1> QED BY <1>6, <1>7 DEF h

--------------------------------------------------------------------------------
(* One round of draining. *)

(* The order of a queue: by day, then by id.                               *)
Older(day, x, y) == day[x] < day[y] \/ (day[x] = day[y] /\ x <= y)

Dated(day, S) == S \subseteq Nat /\ \A x \in S : day[x] \in Nat

(* There is an oldest, and Oldest is it.                                   *)
LEMMA OldestIs ==
  ASSUME NEW day, NEW S, Dated(day, S), S # {}
  PROVE  Oldest(day, S) \in S /\ \A y \in S : Older(day, Oldest(day, S), y)
<1>1. \A x \in S : x \in Nat /\ day[x] \in Nat
  BY DEF Dated
<1>2. PICK d \in {day[x] : x \in S} : \A e \in {day[x] : x \in S} : d <= e
  <2> DEFINE days == {day[x] : x \in S}
  <2>1. days \in SUBSET Nat /\ days # {}
    BY <1>1
  <2> HIDE DEF days
  <2>2. \E d \in days : \A e \in days : d <= e
    BY <2>1, LeastNat
  <2> QED BY <2>2 DEF days
<1>3. PICK t \in {x \in S : day[x] = d} : \A u \in {x \in S : day[x] = d} : t <= u
  <2> DEFINE same == {x \in S : day[x] = d}
  <2>1. same \in SUBSET Nat /\ same # {}
    BY <1>1, <1>2
  <2> HIDE DEF same
  <2>2. \E t \in same : \A u \in same : t <= u
    BY <2>1, LeastNat
  <2> QED BY <2>2 DEF same
<1>4. t \in S /\ \A y \in S : day[t] < day[y] \/ (day[t] = day[y] /\ t <= y)
  <2>1. SUFFICES ASSUME NEW y \in S PROVE day[t] < day[y] \/ (day[t] = day[y] /\ t <= y)
    BY <1>3
  <2>2. d <= day[y] /\ day[t] = d
    BY <1>2, <1>3
  <2>3. day[y] = d => t <= y
    BY <1>3
  <2> QED BY <1>1, <1>3, <2>2, <2>3
<1> QED BY <1>4 DEF Oldest, Older

(* An offer of BUYs 1..n to takers 1..p.                                   *)
Offering(o, n, p) ==
  /\ n \in Nat /\ p \in Nat
  /\ DOMAIN o.left \subseteq 1..n /\ o.left \in [DOMAIN o.left -> Nat]
  /\ DOMAIN o.wanted \subseteq 1..p /\ o.wanted \in [DOMAIN o.wanted -> Nat]
  /\ Dated(o.buyDay, DOMAIN o.left) /\ Dated(o.takerDay, DOMAIN o.wanted)

OfferRow(o) == [buy : DOMAIN o.left, taker : DOMAIN o.wanted, qty : Nat \ {0}]

(* Every share that left a BUY, and every share a taker got, is on the     *)
(* rows, for those it belongs to.                                          *)
Counted(o, m) ==
  /\ m.left \in [DOMAIN o.left -> Nat] /\ m.wanted \in [DOMAIN o.wanted -> Nat]
  /\ m.rows \in Seq(OfferRow(o)) /\ m.rows \in Seq(ShareRow)
  /\ \A b \in DOMAIN o.left : m.left[b] + Shared(m.rows, {b}, DOMAIN o.wanted) = o.left[b]
  /\ \A c \in DOMAIN o.wanted : m.wanted[c] + Shared(m.rows, DOMAIN o.left, {c}) = o.wanted[c]

(* then is m after the BUY b gave d shares to c. *)
Gives(o, m, b, c, d, then) ==
  /\ b \in DOMAIN o.left /\ c \in DOMAIN o.wanted
  /\ d \in Nat \ {0} /\ d <= m.left[b] /\ d <= m.wanted[c]
  /\ d = m.left[b] \/ d = m.wanted[c]
  /\ then.left \in [DOMAIN o.left -> Nat] /\ then.wanted \in [DOMAIN o.wanted -> Nat]
  /\ then.left[b] = m.left[b] - d
  /\ \A x \in DOMAIN o.left : x # b => then.left[x] = m.left[x]
  /\ then.wanted[c] = m.wanted[c] - d
  /\ \A x \in DOMAIN o.wanted : x # c => then.wanted[x] = m.wanted[x]
  /\ then.rows = Append(m.rows, Row(b, c, d))
  /\ \A X, Y : Shared(then.rows, X, Y)
                 = Shared(m.rows, X, Y) + (IF b \in X /\ c \in Y THEN d ELSE 0)

(* What a round that gives does.                                           *)
LEMMA GiveGives ==
  ASSUME NEW o, NEW n, NEW p, Offering(o, n, p), NEW m, Counted(o, m),
         NEW b \in Open(m.left), NEW c \in Open(m.wanted)
  PROVE  \E d : Gives(o, m, b, c, d, Give(m, b, c))
<1> DEFINE d == Smaller(m.left[b], m.wanted[c])
<1> DEFINE then == Give(m, b, c)
<1>0. /\ m.left \in [DOMAIN o.left -> Nat] /\ m.wanted \in [DOMAIN o.wanted -> Nat]
      /\ m.rows \in Seq(ShareRow)
  BY DEF Counted
<1>1. /\ b \in DOMAIN o.left /\ c \in DOMAIN o.wanted
      /\ m.left[b] \in Nat \ {0} /\ m.wanted[c] \in Nat \ {0}
  BY <1>0 DEF Open
<1>2. /\ d \in Nat \ {0} /\ d <= m.left[b] /\ d <= m.wanted[c]
      /\ (d = m.left[b] \/ d = m.wanted[c])
  BY <1>1 DEF Smaller
<1>3. /\ then.left = [m.left EXCEPT ![b] = @ - d]
      /\ then.wanted = [m.wanted EXCEPT ![c] = @ - d]
      /\ then.rows = Append(m.rows, Row(b, c, d))
  BY DEF Give
<1> HIDE DEF d, then
<1>4. m.left[b] - d \in Nat /\ m.wanted[c] - d \in Nat
  BY <1>1, <1>2
<1>5. /\ then.left \in [DOMAIN o.left -> Nat] /\ then.left[b] = m.left[b] - d
      /\ \A x \in DOMAIN o.left : x # b => then.left[x] = m.left[x]
  BY <1>0, <1>1, <1>3, <1>4
<1>6. /\ then.wanted \in [DOMAIN o.wanted -> Nat] /\ then.wanted[c] = m.wanted[c] - d
      /\ \A x \in DOMAIN o.wanted : x # c => then.wanted[x] = m.wanted[x]
  BY <1>0, <1>1, <1>3, <1>4
<1>7. /\ Row(b, c, d) \in ShareRow
      /\ Row(b, c, d).buy = b /\ Row(b, c, d).taker = c /\ Row(b, c, d).qty = d
  <2>1. b \in Nat /\ c \in Nat
    BY <1>1 DEF Offering
  <2> QED BY <1>2, <2>1 DEF Row, ShareRow
<1>8. ASSUME NEW X, NEW Y
      PROVE  Shared(then.rows, X, Y)
               = Shared(m.rows, X, Y) + (IF b \in X /\ c \in Y THEN d ELSE 0)
  <2>1. PICK row \in ShareRow : row = Row(b, c, d) /\ row.buy = b /\ row.taker = c /\ row.qty = d
    BY <1>7
  <2>2. PICK rows \in Seq(ShareRow) : rows = m.rows
    BY <1>0
  <2>3. PICK more : more = Append(rows, row)
    OBVIOUS
  <2>4. Shared(more, X, Y)
          = Shared(rows, X, Y) + (IF row.buy \in X /\ row.taker \in Y THEN row.qty ELSE 0)
    <3>1. Adds(rows, row, more)
      BY <2>3, SharedMore
    <3> QED BY <3>1 DEF Adds
  <2> QED BY <1>3, <2>1, <2>2, <2>3, <2>4
<1>9. Gives(o, m, b, c, d, then)
  BY <1>1, <1>2, <1>3, <1>5, <1>6, <1>8 DEF Gives
<1> QED BY <1>9 DEF then

(* It keeps the shares on the rows.                                        *)
LEMMA GiveKeeps ==
  ASSUME NEW o, NEW n, NEW p, Offering(o, n, p), NEW m, Counted(o, m), NEW b, NEW c, NEW d,
         NEW then, Gives(o, m, b, c, d, then)
  PROVE  Counted(o, then)
<1>1. /\ b \in DOMAIN o.left /\ c \in DOMAIN o.wanted /\ d \in Nat \ {0}
      /\ then.left \in [DOMAIN o.left -> Nat] /\ then.wanted \in [DOMAIN o.wanted -> Nat]
      /\ then.rows = Append(m.rows, Row(b, c, d))
  BY DEF Gives
<1>2. Row(b, c, d) \in OfferRow(o) /\ Row(b, c, d) \in ShareRow
  <2>1. b \in Nat /\ c \in Nat
    BY <1>1 DEF Offering
  <2> QED BY <1>1, <2>1 DEF Row, OfferRow, ShareRow
<1>3. then.rows \in Seq(OfferRow(o)) /\ then.rows \in Seq(ShareRow)
  <2>1. m.rows \in Seq(OfferRow(o)) /\ m.rows \in Seq(ShareRow)
    BY DEF Counted
  <2> QED BY <1>1, <1>2, <2>1
<1>4. m.rows \in Seq(ShareRow)
  BY DEF Counted
<1>5. ASSUME NEW x \in DOMAIN o.left
      PROVE  then.left[x] + Shared(then.rows, {x}, DOMAIN o.wanted) = o.left[x]
  <2>1. m.left[x] + Shared(m.rows, {x}, DOMAIN o.wanted) = o.left[x] /\ m.left[x] \in Nat
    BY DEF Counted
  <2>2. Shared(m.rows, {x}, DOMAIN o.wanted) \in Nat
    BY <1>4, SharedType
  <2>3. Shared(then.rows, {x}, DOMAIN o.wanted)
          = Shared(m.rows, {x}, DOMAIN o.wanted) + (IF b \in {x} /\ c \in DOMAIN o.wanted THEN d ELSE 0)
    BY DEF Gives
  <2>4. CASE x = b
    <3>1. then.left[x] = m.left[x] - d
      BY <2>4 DEF Gives
    <3> QED BY <1>1, <2>1, <2>2, <2>3, <2>4, <3>1
  <2>5. CASE x # b
    <3>1. then.left[x] = m.left[x]
      BY <2>5 DEF Gives
    <3> QED BY <2>1, <2>2, <2>3, <2>5, <3>1
  <2> QED BY <2>4, <2>5
<1>6. ASSUME NEW x \in DOMAIN o.wanted
      PROVE  then.wanted[x] + Shared(then.rows, DOMAIN o.left, {x}) = o.wanted[x]
  <2>1. m.wanted[x] + Shared(m.rows, DOMAIN o.left, {x}) = o.wanted[x] /\ m.wanted[x] \in Nat
    BY DEF Counted
  <2>2. Shared(m.rows, DOMAIN o.left, {x}) \in Nat
    BY <1>4, SharedType
  <2>3. Shared(then.rows, DOMAIN o.left, {x})
          = Shared(m.rows, DOMAIN o.left, {x}) + (IF b \in DOMAIN o.left /\ c \in {x} THEN d ELSE 0)
    BY DEF Gives
  <2>4. CASE x = c
    <3>1. then.wanted[x] = m.wanted[x] - d
      BY <2>4 DEF Gives
    <3> QED BY <1>1, <2>1, <2>2, <2>3, <2>4, <3>1
  <2>5. CASE x # c
    <3>1. then.wanted[x] = m.wanted[x]
      BY <2>5 DEF Gives
    <3> QED BY <2>1, <2>2, <2>3, <2>5, <3>1
  <2> QED BY <2>4, <2>5
<1> QED BY <1>1, <1>3, <1>5, <1>6 DEF Counted

(* The oldest waiting taker draws on the oldest BUY it may have shares of. *)
LEMMA RoundGives ==
  ASSUME NEW o, NEW n, NEW p, Offering(o, n, p), NEW m, Counted(o, m), Waiting(o, m) # {}
  PROVE  \E b, c, d :
           /\ c \in Waiting(o, m) /\ \A x \in Waiting(o, m) : Older(o.takerDay, c, x)
           /\ b \in Eligible(o, m, c) /\ \A x \in Eligible(o, m, c) : Older(o.buyDay, b, x)
           /\ Gives(o, m, b, c, d, Round(o, m))
<1>1. /\ m.left \in [DOMAIN o.left -> Nat] /\ m.wanted \in [DOMAIN o.wanted -> Nat]
  BY DEF Counted
<1>2. Waiting(o, m) \subseteq Open(m.wanted) /\ Open(m.wanted) \subseteq DOMAIN o.wanted
  BY <1>1 DEF Waiting, Open
<1>3. Dated(o.takerDay, Waiting(o, m))
  BY <1>2 DEF Offering, Dated
<1>4. PICK c : c = Oldest(o.takerDay, Waiting(o, m))
  OBVIOUS
<1>5. c \in Waiting(o, m) /\ \A x \in Waiting(o, m) : Older(o.takerDay, c, x)
  BY <1>3, <1>4, OldestIs
<1>6. Eligible(o, m, c) # {} /\ Eligible(o, m, c) \subseteq Open(m.left)
  BY <1>5 DEF Waiting, Eligible
<1>7. Dated(o.buyDay, Eligible(o, m, c))
  BY <1>1, <1>6 DEF Offering, Dated, Open
<1>8. PICK b : b = Oldest(o.buyDay, Eligible(o, m, c))
  OBVIOUS
<1>9. b \in Eligible(o, m, c) /\ \A x \in Eligible(o, m, c) : Older(o.buyDay, b, x)
  BY <1>6, <1>7, <1>8, OldestIs
<1>10. Round(o, m) = Give(m, b, c)
  BY <1>4, <1>8 DEF Round
<1>11. \E d : Gives(o, m, b, c, d, Give(m, b, c))
  BY <1>2, <1>5, <1>6, <1>9, GiveGives
<1> QED BY <1>5, <1>9, <1>10, <1>11

(* Nothing is given at the start.                                          *)
LEMMA StartKeeps ==
  ASSUME NEW o, NEW n, NEW p, Offering(o, n, p)
  PROVE  Counted(o, Start(o))
<1>1. Start(o).left = o.left /\ Start(o).wanted = o.wanted /\ Start(o).rows = <<>>
  BY DEF Start
<1>2. <<>> \in Seq(OfferRow(o)) /\ <<>> \in Seq(ShareRow)
  OBVIOUS
<1>3. \A X, Y : Shared(<<>>, X, Y) = 0
  BY SharedNone
<1>4. o.left \in [DOMAIN o.left -> Nat] /\ o.wanted \in [DOMAIN o.wanted -> Nat]
  BY DEF Offering
<1> QED BY <1>1, <1>2, <1>3, <1>4 DEF Counted

(* Every share of a report is accounted for, whatever the takers and the   *)
(* BUYs they may have shares of.                                           *)
LEMMA DrainedKeeps ==
  ASSUME NEW o, NEW n, NEW p, Offering(o, n, p)
  PROVE  \A k \in Nat : Counted(o, Drained(o)[k])
<1> DEFINE S == {k \in Nat : Counted(o, Drained(o)[k])}
<1>1. 0 \in S
  BY StartKeeps, DrainedRounds
<1>2. ASSUME NEW k \in Nat, k \in S PROVE k + 1 \in S
  <2>1. PICK m : m = Drained(o)[k]
    OBVIOUS
  <2>2. Counted(o, m) /\ Drained(o)[k + 1] = Round(o, m)
    BY <1>2, <2>1, DrainedRounds
  <2>3. Counted(o, Round(o, m))
    <3>1. CASE Waiting(o, m) = {}
      BY <2>2, <3>1 DEF Round
    <3>2. CASE Waiting(o, m) # {}
      <4>1. PICK b, c, d : Gives(o, m, b, c, d, Round(o, m))
        BY <2>2, <3>2, RoundGives
      <4> QED BY <2>2, <4>1, GiveKeeps
    <3> QED BY <3>1, <3>2
  <2> QED BY <2>2, <2>3
<1> HIDE DEF S
<1>3. Nat \subseteq S
  BY <1>1, <1>2, SetInduction
<1> QED BY <1>3 DEF S

--------------------------------------------------------------------------------
(* First in, first out.  Laid side by side in the order of their days, the *)
(* amounts of a table are used up to a point, one point for the BUYs and   *)
(* the SELLs alike.                                                        *)

(* The total of a difference.                                              *)
LEMMA TotalOfDifference ==
  ASSUME NEW f, NEW g, NEW h, NEW S, NEW n \in Nat, Whole(f, S), Whole(g, S),
         \A x \in S : h[x] = f[x] - g[x]
  PROVE  SumOf(h, S, n) = SumOf(f, S, n) - SumOf(g, S, n)
<1> DEFINE one == Only(f, S)
<1> DEFINE two == Only(g, S)
<1> DEFINE three == Only(h, S)
<1>1. Whole(h, S)
  BY DEF Whole
<1>2. one \in [Nat -> Int] /\ two \in [Nat -> Int] /\ three \in [Nat -> Int]
  BY <1>1, TotalType
<1>3. \A i \in Nat : three[i] = one[i] - two[i]
  BY DEF Only
<1> HIDE DEF one, two, three
<1>4. \A i \in Nat : RunningSum(three)[i] = RunningSum(one)[i] - RunningSum(two)[i]
  BY ONLY <1>2, <1>3, SumDifference
<1> QED BY <1>4 DEF one, two, three, SumOf

(* The places before x, and their total. *)
AheadOf(f, day, x) == {y \in DOMAIN f : y # x /\ Older(day, y, x)}
Ahead(f, day, x, n) == SumOf(f, AheadOf(f, day, x), n)

(* A table of amounts in the order of some days. *)
Line(f, day, n) ==
  n \in Nat /\ DOMAIN f \subseteq 1..n /\ f \in [DOMAIN f -> Nat] /\ Dated(day, DOMAIN f)

(* P of the amounts f are used, from their head, and rest is left. *)
Placed(f, day, n, P, rest) ==
  /\ P \in Nat /\ rest \in [DOMAIN f -> Nat]
  /\ P + SumOf(rest, DOMAIN f, n) = SumOf(f, DOMAIN f, n)
  /\ \A x \in DOMAIN f : f[x] - rest[x] = Smaller(f[x], Rest(P - Ahead(f, day, x, n)))

(* Whoever comes later comes after all of an earlier one.                  *)
LEMMA LineOrder ==
  ASSUME NEW f, NEW day, NEW n, Line(f, day, n), NEW x \in DOMAIN f
  PROVE  /\ Ahead(f, day, x, n) \in Nat /\ f[x] \in Nat
         /\ \A y \in DOMAIN f : y # x =>
              \/ Older(day, x, y) /\ Ahead(f, day, x, n) + f[x] <= Ahead(f, day, y, n)
              \/ Older(day, y, x) /\ Ahead(f, day, y, n) + f[y] <= Ahead(f, day, x, n)
<1>1. /\ n \in Nat /\ DOMAIN f \subseteq 1..n /\ Amounts(f, DOMAIN f)
      /\ \A y \in DOMAIN f : f[y] \in Nat /\ y \in Nat /\ day[y] \in Nat
  BY DEF Line, Dated, Amounts
<1>2. ASSUME NEW u \in DOMAIN f PROVE Ahead(f, day, u, n) \in Nat
  <2>1. Amounts(f, AheadOf(f, day, u))
    BY <1>1 DEF AheadOf, Amounts
  <2> QED BY <1>1, <2>1, TotalType DEF Ahead
<1>3. ASSUME NEW u \in DOMAIN f, NEW v \in DOMAIN f, u # v, Older(day, u, v)
      PROVE  Ahead(f, day, u, n) + f[u] <= Ahead(f, day, v, n)
  <2>1. PICK S : S = AheadOf(f, day, u)
    OBVIOUS
  <2>2. PICK T : T = AheadOf(f, day, v)
    OBVIOUS
  <2>3. u \notin S /\ u \in 1..n
    BY <1>1, <2>1 DEF AheadOf
  <2>4. S \cup {u} \subseteq T
    <3>1. ASSUME NEW w \in S PROVE w \in T
      <4>1. w \in DOMAIN f /\ w # u /\ Older(day, w, u)
        BY <2>1 DEF AheadOf
      <4>2. Older(day, w, v) /\ w # v
        <5>1. /\ day[w] \in Nat /\ day[u] \in Nat /\ day[v] \in Nat
              /\ w \in Nat /\ u \in Nat /\ v \in Nat
          BY <1>1, <4>1
        <5> QED BY <1>3, <4>1, <5>1 DEF Older
      <4> QED BY <2>2, <4>1, <4>2 DEF AheadOf
    <3>2. u \in T
      BY <1>3, <2>2 DEF AheadOf
    <3> QED BY <3>1, <3>2
  <2>5. Amounts(f, T) /\ Amounts(f, S \cup {u})
    BY <1>1, <2>2, <2>4 DEF AheadOf, Amounts
  <2>6. Whole(f, S \cup {u})
    BY <1>1, <2>5, TotalType
  <2>7. SumOf(f, S \cup {u}, n) = SumOf(f, S, n) + f[u]
    BY ONLY <1>1, <2>3, <2>6, TotalWith
  <2>8. SumOf(f, S \cup {u}, n) <= SumOf(f, T, n)
    BY ONLY <1>1, <2>4, <2>5, TotalOfPart
  <2> QED BY <2>1, <2>2, <2>7, <2>8 DEF Ahead
<1>4. ASSUME NEW y \in DOMAIN f, y # x
      PROVE  \/ Older(day, x, y) /\ Ahead(f, day, x, n) + f[x] <= Ahead(f, day, y, n)
             \/ Older(day, y, x) /\ Ahead(f, day, y, n) + f[y] <= Ahead(f, day, x, n)
  <2>1. Older(day, x, y) \/ Older(day, y, x)
    <3>1. day[x] \in Nat /\ day[y] \in Nat /\ x \in Nat /\ y \in Nat
      BY <1>1
    <3> QED BY <3>1 DEF Older
  <2> QED BY <1>3, <1>4, <2>1
<1> QED BY <1>1, <1>2, <1>4

(* The oldest that is not used up is where the amounts are used up to.     *)
LEMMA PointIsAtOldest ==
  ASSUME NEW f, NEW day, NEW n, Line(f, day, n), NEW P, NEW rest, Placed(f, day, n, P, rest),
         NEW x \in Open(rest), \A y \in Open(rest) : Older(day, x, y)
  PROVE  /\ x \in DOMAIN f /\ rest[x] \in Nat \ {0}
         /\ Ahead(f, day, x, n) <= P /\ P + rest[x] = Ahead(f, day, x, n) + f[x]
<1>1. /\ n \in Nat /\ DOMAIN f \subseteq 1..n /\ Amounts(f, DOMAIN f)
      /\ \A y \in DOMAIN f : f[y] \in Nat /\ y \in Nat /\ day[y] \in Nat
  BY DEF Line, Dated, Amounts
<1>2. /\ P \in Nat /\ rest \in [DOMAIN f -> Nat]
      /\ P + SumOf(rest, DOMAIN f, n) = SumOf(f, DOMAIN f, n)
      /\ \A y \in DOMAIN f : f[y] - rest[y] = Smaller(f[y], Rest(P - Ahead(f, day, y, n)))
  BY DEF Placed
<1>3. x \in DOMAIN f /\ rest[x] \in Nat \ {0}
  BY <1>2 DEF Open
<1>4. PICK S : S = AheadOf(f, day, x)
  OBVIOUS
<1>5. S \subseteq DOMAIN f
  BY <1>4 DEF AheadOf
<1>6. ASSUME NEW y \in S PROVE rest[y] = 0
  <2>1. y \in DOMAIN f /\ y # x /\ Older(day, y, x)
    BY <1>4 DEF AheadOf
  <2>2. y \notin Open(rest)
    <3>1. day[x] \in Nat /\ day[y] \in Nat /\ x \in Nat /\ y \in Nat
      BY <1>1, <1>3, <2>1
    <3>2. Older(day, x, y) => FALSE
      BY <2>1, <3>1 DEF Older
    <3> QED BY <3>2
  <2>3. rest[y] \in Nat /\ y \in DOMAIN rest
    BY <1>2, <2>1
  <2> QED BY <2>2, <2>3 DEF Open
<1>7. PICK used : used = [y \in DOMAIN f |-> f[y] - rest[y]]
  OBVIOUS
<1>8. ASSUME NEW y \in DOMAIN f PROVE used[y] \in Nat
  <2>1. f[y] \in Nat /\ rest[y] \in Nat /\ Ahead(f, day, y, n) \in Nat
    BY <1>1, <1>2, LineOrder
  <2>2. used[y] = Smaller(f[y], Rest(P - Ahead(f, day, y, n)))
    BY <1>2, <1>7
  <2> QED BY <1>2, <2>1, <2>2 DEF Smaller, Rest
<1>9. SumOf(used, DOMAIN f, n) = P
  <2>1. Whole(f, DOMAIN f) /\ Whole(rest, DOMAIN f)
    BY <1>1, <1>2 DEF Whole
  <2>2. \A y \in DOMAIN f : used[y] = f[y] - rest[y]
    BY <1>7
  <2>3. SumOf(used, DOMAIN f, n) = SumOf(f, DOMAIN f, n) - SumOf(rest, DOMAIN f, n)
    BY ONLY <1>1, <2>1, <2>2, TotalOfDifference
  <2>4. SumOf(f, DOMAIN f, n) \in Int /\ SumOf(rest, DOMAIN f, n) \in Int
    BY <1>1, <2>1, TotalType
  <2> QED BY <1>2, <2>3, <2>4
<1>10. SumOf(used, S, n) = SumOf(f, S, n)
  <2>1. \A y \in S : used[y] = f[y]
    <3> SUFFICES ASSUME NEW y \in S PROVE used[y] = f[y]
      OBVIOUS
    <3>1. y \in DOMAIN f /\ rest[y] = 0 /\ f[y] \in Nat
      BY <1>1, <1>5, <1>6
    <3> QED BY <1>7, <3>1
  <2> QED BY ONLY <2>1, TotalSame
<1>11. SumOf(used, S, n) <= SumOf(used, DOMAIN f, n)
  <2>1. Amounts(used, DOMAIN f)
    BY <1>8 DEF Amounts
  <2> QED BY <1>1, <1>5, <2>1, TotalOfPart
<1>12. Ahead(f, day, x, n) <= P
  BY <1>4, <1>9, <1>10, <1>11 DEF Ahead
<1>13. f[x] - rest[x] = Smaller(f[x], Rest(P - Ahead(f, day, x, n)))
  BY <1>2, <1>3
<1>14. f[x] \in Nat /\ Ahead(f, day, x, n) \in Nat
  BY <1>3, LineOrder
<1>15. P + rest[x] = Ahead(f, day, x, n) + f[x]
  BY <1>2, <1>3, <1>12, <1>13, <1>14 DEF Smaller, Rest
<1> QED BY <1>3, <1>12, <1>15

(* Every other place lies before or behind what is used next.              *)
LEMMA OthersApart ==
  ASSUME NEW f, NEW day, NEW n, Line(f, day, n), NEW P, NEW rest, Placed(f, day, n, P, rest),
         NEW x \in Open(rest), \A y \in Open(rest) : Older(day, x, y),
         NEW d \in Nat, d <= rest[x], NEW y \in DOMAIN f, y # x
  PROVE  \/ Ahead(f, day, y, n) + f[y] <= P
         \/ P + d <= Ahead(f, day, y, n)
<1>1. /\ x \in DOMAIN f /\ rest[x] \in Nat \ {0}
      /\ Ahead(f, day, x, n) <= P /\ P + rest[x] = Ahead(f, day, x, n) + f[x]
  BY PointIsAtOldest
<1>2. P \in Nat
  BY DEF Placed
<1>3. /\ Ahead(f, day, x, n) \in Nat /\ f[x] \in Nat
      /\ \/ Ahead(f, day, x, n) + f[x] <= Ahead(f, day, y, n)
         \/ Ahead(f, day, y, n) + f[y] <= Ahead(f, day, x, n)
  BY <1>1, LineOrder
<1>4. Ahead(f, day, y, n) \in Nat /\ f[y] \in Nat
  BY LineOrder
<1> QED BY <1>1, <1>2, <1>3, <1>4

(* less is rest with d taken off x. *)
Taken(f, rest, x, d, less) ==
  /\ less \in [DOMAIN f -> Nat] /\ less[x] = rest[x] - d
  /\ \A y \in DOMAIN f : y # x => less[y] = rest[y]

(* Using some of the oldest moves the point by as much.                    *)
LEMMA PointMoves ==
  ASSUME NEW f, NEW day, NEW n, Line(f, day, n), NEW P, NEW rest, Placed(f, day, n, P, rest),
         NEW x \in Open(rest), \A y \in Open(rest) : Older(day, x, y),
         NEW d \in Nat, d <= rest[x], NEW less, Taken(f, rest, x, d, less), NEW Q, Q = P + d
  PROVE  Placed(f, day, n, Q, less)
<1>1. /\ x \in DOMAIN f /\ rest[x] \in Nat \ {0}
      /\ Ahead(f, day, x, n) <= P /\ P + rest[x] = Ahead(f, day, x, n) + f[x]
  BY PointIsAtOldest
<1>2. /\ P \in Nat /\ rest \in [DOMAIN f -> Nat]
      /\ P + SumOf(rest, DOMAIN f, n) = SumOf(f, DOMAIN f, n)
      /\ \A y \in DOMAIN f : f[y] - rest[y] = Smaller(f[y], Rest(P - Ahead(f, day, y, n)))
  BY DEF Placed
<1>3. /\ less \in [DOMAIN f -> Nat] /\ less[x] = rest[x] - d
      /\ \A y \in DOMAIN f : y # x => less[y] = rest[y]
  BY DEF Taken
<1>4. n \in Nat /\ DOMAIN f \subseteq 1..n
  BY DEF Line
<1>5. Q \in Nat /\ Q = P + d
  BY <1>2
<1>6. Q + SumOf(less, DOMAIN f, n) = SumOf(f, DOMAIN f, n)
  <2>1. Whole(rest, DOMAIN f)
    BY <1>2 DEF Whole
  <2>2. x \in 1..n /\ d \in Int
    BY <1>1, <1>4
  <2>3. SumOf(less, DOMAIN f, n) = SumOf(rest, DOMAIN f, n) - d
    BY <1>1, <1>3, <1>4, <2>1, <2>2, TotalLess
  <2>4. SumOf(rest, DOMAIN f, n) \in Int
    BY <1>4, <2>1, TotalType
  <2> QED BY <1>2, <1>5, <2>3, <2>4
<1>7. ASSUME NEW y \in DOMAIN f
      PROVE  f[y] - less[y] = Smaller(f[y], Rest(Q - Ahead(f, day, y, n)))
  <2>1. f[y] \in Nat /\ Ahead(f, day, y, n) \in Nat /\ rest[y] \in Nat
    BY <1>2, LineOrder
  <2>2. CASE y = x
    <3>1. less[y] = rest[y] - d
      BY <1>3, <2>2
    <3> QED BY <1>1, <1>2, <1>5, <2>1, <2>2, <3>1 DEF Smaller, Rest
  <2>3. CASE y # x
    <3>1. less[y] = rest[y] /\ f[y] - rest[y] = Smaller(f[y], Rest(P - Ahead(f, day, y, n)))
      BY <1>2, <1>3, <2>3
    <3>2. \/ Ahead(f, day, y, n) + f[y] <= P
          \/ P + d <= Ahead(f, day, y, n)
      BY <2>3, OthersApart
    <3>3. PICK a, q, r : a = Ahead(f, day, y, n) /\ q = f[y] /\ r = rest[y]
      OBVIOUS
    <3>4. a \in Nat /\ q \in Nat /\ P \in Nat /\ (a + q <= P \/ P + d <= a)
      BY <1>2, <2>1, <3>2, <3>3
    <3>5. Smaller(q, Rest(P - a)) = Smaller(q, Rest(Q - a))
      BY ONLY <1>5, <3>4, d \in Nat DEF Smaller, Rest
    <3>6. q - r = Smaller(q, Rest(P - a))
      BY ONLY <3>1, <3>3
    <3>7. q - less[y] = Smaller(q, Rest(Q - a))
      BY ONLY <3>1, <3>3, <3>5, <3>6
    <3> QED BY ONLY <3>3, <3>7
  <2> QED BY <2>2, <2>3
<1> QED BY ONLY <1>3, <1>5, <1>6, <1>7 DEF Placed

--------------------------------------------------------------------------------
(* The form. *)

(* What a BUY that lies at a, of p shares, and a SELL that lies at c, of q *)
(* shares, have in common up to P.                                         *)
Common(P, a, p, c, q) == Rest(Smaller(Smaller(a + p, c + q), P) - Larger(a, c))

(* Moving the point by d, to Q, adds d to the pair that lies there, and    *)
(* nothing to a pair of which one lies before or behind.                   *)
Moves(P, d, Q, a, p, c, q) ==
  /\ a <= P /\ P + d <= a + p /\ c <= P /\ P + d <= c + q
       => Common(Q, a, p, c, q) = Common(P, a, p, c, q) + d
  /\ a + p <= P \/ P + d <= a => Common(Q, a, p, c, q) = Common(P, a, p, c, q)
  /\ c + q <= P \/ P + d <= c => Common(Q, a, p, c, q) = Common(P, a, p, c, q)

(* It does. *)
LEMMA CommonMoves ==
  ASSUME NEW P \in Nat, NEW d \in Nat, NEW a \in Nat, NEW p \in Nat, NEW c \in Nat, NEW q \in Nat,
         NEW Q, Q = P + d
  PROVE  Moves(P, d, Q, a, p, c, q)
BY DEF Moves, Common, Rest, Smaller, Larger

(* Anybody may have shares of any BUY. *)
Full(o) == o.may = (DOMAIN o.left) \X (DOMAIN o.wanted)

Lines(o, n) == Offering(o, n, n) /\ Line(o.left, o.buyDay, n) /\ Line(o.wanted, o.takerDay, n)

(* The shares a BUY and a SELL have in common up to P. *)
Pair(o, n, P, b, c) ==
  Common(P, Ahead(o.left, o.buyDay, b, n), o.left[b], Ahead(o.wanted, o.takerDay, c, n), o.wanted[c])

(* Both queues are used up to P, and so are their pairs. *)
FormBooks(o, n, P, m) ==
  /\ Counted(o, m)
  /\ Placed(o.left, o.buyDay, n, P, m.left)
  /\ Placed(o.wanted, o.takerDay, n, P, m.wanted)
  /\ \A b \in DOMAIN o.left, c \in DOMAIN o.wanted :
       Shared(m.rows, {b}, {c}) = Pair(o, n, P, b, c)

(* Who waits when anybody may have any share.                              *)
LEMMA FullWaiting ==
  ASSUME NEW o, Full(o), NEW m, Counted(o, m)
  PROVE  /\ \A c \in Open(m.wanted) : Eligible(o, m, c) = Open(m.left)
         /\ Waiting(o, m) = IF Open(m.left) = {} THEN {} ELSE Open(m.wanted)
         /\ Open(m.left) \subseteq DOMAIN o.left /\ Open(m.wanted) \subseteq DOMAIN o.wanted
<1>1. /\ Open(m.left) \subseteq DOMAIN o.left /\ Open(m.wanted) \subseteq DOMAIN o.wanted
  BY DEF Counted, Open
<1>2. ASSUME NEW c \in Open(m.wanted) PROVE Eligible(o, m, c) = Open(m.left)
  <2>1. ASSUME NEW b \in Open(m.left) PROVE <<b, c>> \in o.may
    <3>1. b \in DOMAIN o.left /\ c \in DOMAIN o.wanted
      BY <1>1
    <3>2. <<b, c>> \in (DOMAIN o.left) \X (DOMAIN o.wanted)
      BY <3>1
    <3> QED BY <3>2 DEF Full
  <2>2. \A b : b \in Eligible(o, m, c) <=> b \in Open(m.left) /\ <<b, c>> \in o.may
    BY DEF Eligible
  <2> QED BY <2>1, <2>2, Zenon
<1>3. Waiting(o, m) = IF Open(m.left) = {} THEN {} ELSE Open(m.wanted)
  <2>1. \A c \in Open(m.wanted) : c \in Waiting(o, m) <=> Open(m.left) # {}
    BY <1>2 DEF Waiting
  <2>2. Waiting(o, m) \subseteq Open(m.wanted)
    BY DEF Waiting
  <2> HIDE <1>1, <1>2
  <2> QED BY <2>1, <2>2
<1> QED BY <1>1, <1>2, <1>3

(* Every round moves the point of both queues.                             *)
LEMMA FormRound ==
  ASSUME NEW o, NEW n, Lines(o, n), Full(o), NEW P, NEW m, FormBooks(o, n, P, m),
         Waiting(o, m) # {}
  PROVE  \E Q \in Nat : P + 1 <= Q /\ FormBooks(o, n, Q, Round(o, m))
<1>1. /\ Offering(o, n, n) /\ Line(o.left, o.buyDay, n) /\ Line(o.wanted, o.takerDay, n)
      /\ Counted(o, m) /\ Placed(o.left, o.buyDay, n, P, m.left)
      /\ Placed(o.wanted, o.takerDay, n, P, m.wanted) /\ P \in Nat
  BY DEF Lines, FormBooks, Placed
<1>2. PICK then : then = Round(o, m)
  OBVIOUS
<1>3. PICK b, c, d :
        /\ c \in Waiting(o, m) /\ \A x \in Waiting(o, m) : Older(o.takerDay, c, x)
        /\ b \in Eligible(o, m, c) /\ \A x \in Eligible(o, m, c) : Older(o.buyDay, b, x)
        /\ Gives(o, m, b, c, d, then)
  BY <1>1, <1>2, RoundGives
<1>4. /\ c \in Open(m.wanted) /\ \A x \in Open(m.wanted) : Older(o.takerDay, c, x)
      /\ b \in Open(m.left) /\ \A x \in Open(m.left) : Older(o.buyDay, b, x)
  <2>1. Waiting(o, m) = Open(m.wanted) /\ Eligible(o, m, c) = Open(m.left)
    <3>1. Waiting(o, m) = Open(m.wanted)
      BY <1>1, FullWaiting
    <3> QED BY <1>1, <1>3, <3>1, FullWaiting
  <2> QED BY <1>3, <2>1
<1>5. /\ b \in DOMAIN o.left /\ c \in DOMAIN o.wanted
      /\ d \in Nat \ {0} /\ d <= m.left[b] /\ d <= m.wanted[c]
      /\ Taken(o.left, m.left, b, d, then.left) /\ Taken(o.wanted, m.wanted, c, d, then.wanted)
  BY <1>3 DEF Gives, Taken
<1>0. PICK Q \in Nat : Q = P + d
  BY <1>1, <1>5
<1>6. Counted(o, then)
  BY <1>1, <1>3, GiveKeeps
<1>7. Placed(o.left, o.buyDay, n, Q, then.left)
  <2>1. d \in Nat
    BY <1>5
  <2> QED BY <1>0, <1>1, <1>4, <1>5, <2>1, PointMoves
<1>8. Placed(o.wanted, o.takerDay, n, Q, then.wanted)
  <2>1. d \in Nat
    BY <1>5
  <2> QED BY <1>0, <1>1, <1>4, <1>5, <2>1, PointMoves
<1>9. ASSUME NEW x \in DOMAIN o.left, NEW y \in DOMAIN o.wanted
      PROVE  Shared(then.rows, {x}, {y}) = Pair(o, n, Q, x, y)
  <2>1. PICK a, p, e, q : /\ a = Ahead(o.left, o.buyDay, x, n) /\ p = o.left[x]
                          /\ e = Ahead(o.wanted, o.takerDay, y, n) /\ q = o.wanted[y]
    OBVIOUS
  <2>2. a \in Nat /\ p \in Nat /\ e \in Nat /\ q \in Nat /\ d \in Nat
    BY <1>1, <1>5, <2>1, LineOrder
  <2>3. /\ Pair(o, n, P, x, y) = Common(P, a, p, e, q)
        /\ Pair(o, n, Q, x, y) = Common(Q, a, p, e, q)
    BY <2>1 DEF Pair
  <2>4. /\ Shared(m.rows, {x}, {y}) = Common(P, a, p, e, q)
        /\ Shared(then.rows, {x}, {y})
             = Shared(m.rows, {x}, {y}) + (IF b \in {x} /\ c \in {y} THEN d ELSE 0)
    BY <1>3, <2>3 DEF FormBooks, Gives
  <2>5. Common(P, a, p, e, q) \in Int
    BY <1>1, <2>2 DEF Common, Rest, Smaller, Larger
  <2>6. Moves(P, d, Q, a, p, e, q)
    BY <1>0, <1>1, <2>2, CommonMoves
  <2>7. CASE x = b /\ y = c
    <3>1. m.left[b] \in Nat /\ m.wanted[c] \in Nat
      BY <1>1, <1>5 DEF Counted
    <3>2. a <= P /\ P + m.left[b] = a + p
      BY <1>1, <1>4, <2>1, <2>7, PointIsAtOldest
    <3>3. e <= P /\ P + m.wanted[c] = e + q
      BY <1>1, <1>4, <2>1, <2>7, PointIsAtOldest
    <3>4. P + d <= a + p /\ P + d <= e + q
      BY <1>1, <1>5, <2>2, <3>1, <3>2, <3>3
    <3>5. Common(Q, a, p, e, q) = Common(P, a, p, e, q) + d
      BY <2>6, <3>2, <3>3, <3>4 DEF Moves
    <3>6. (IF b \in {x} /\ c \in {y} THEN d ELSE 0) = d
      BY <2>7
    <3>7. Shared(then.rows, {x}, {y}) = Common(P, a, p, e, q) + d
      BY ONLY <2>4, <3>6
    <3> QED BY ONLY <2>3, <3>5, <3>7
  <2>8. CASE x # b
    <3>1. a + p <= P \/ P + d <= a
      <4>1. d <= m.left[b] /\ x # b
        BY <1>5, <2>8
      <4>2. \/ Ahead(o.left, o.buyDay, x, n) + o.left[x] <= P
            \/ P + d <= Ahead(o.left, o.buyDay, x, n)
        BY <1>1, <1>4, <2>2, <4>1, OthersApart
      <4> QED BY <2>1, <4>2
    <3>2. Common(Q, a, p, e, q) = Common(P, a, p, e, q)
      BY <2>6, <3>1 DEF Moves
    <3>3. (IF b \in {x} /\ c \in {y} THEN d ELSE 0) = 0
      BY <2>8
    <3>4. Shared(then.rows, {x}, {y}) = Common(P, a, p, e, q) + 0
      BY ONLY <2>4, <3>3
    <3>5. Shared(then.rows, {x}, {y}) = Common(P, a, p, e, q)
      BY ONLY <2>5, <3>4
    <3> QED BY ONLY <2>3, <3>2, <3>5
  <2>9. CASE y # c
    <3>1. e + q <= P \/ P + d <= e
      <4>1. d <= m.wanted[c] /\ y # c
        BY <1>5, <2>9
      <4>2. \/ Ahead(o.wanted, o.takerDay, y, n) + o.wanted[y] <= P
            \/ P + d <= Ahead(o.wanted, o.takerDay, y, n)
        BY <1>1, <1>4, <2>2, <4>1, OthersApart
      <4> QED BY <2>1, <4>2
    <3>2. Common(Q, a, p, e, q) = Common(P, a, p, e, q)
      BY <2>6, <3>1 DEF Moves
    <3>3. (IF b \in {x} /\ c \in {y} THEN d ELSE 0) = 0
      BY <2>9
    <3>4. Shared(then.rows, {x}, {y}) = Common(P, a, p, e, q) + 0
      BY ONLY <2>4, <3>3
    <3>5. Shared(then.rows, {x}, {y}) = Common(P, a, p, e, q)
      BY ONLY <2>5, <3>4
    <3> QED BY ONLY <2>3, <3>2, <3>5
  <2> QED BY <2>7, <2>8, <2>9
<1>10. FormBooks(o, n, Q, then)
  BY <1>6, <1>7, <1>8, <1>9 DEF FormBooks
<1>11. P + 1 <= Q
  BY <1>0, <1>1, <1>5
<1> QED BY <1>2, <1>10, <1>11

(* Nothing is paired at the start.                                         *)
LEMMA FormStart ==
  ASSUME NEW o, NEW n, Lines(o, n)
  PROVE  FormBooks(o, n, 0, Start(o))
<1>1. Offering(o, n, n) /\ Line(o.left, o.buyDay, n) /\ Line(o.wanted, o.takerDay, n)
  BY DEF Lines
<1>2. Start(o).left = o.left /\ Start(o).wanted = o.wanted /\ Start(o).rows = <<>>
  BY DEF Start
<1>3. ASSUME NEW f, NEW day, Line(f, day, n) PROVE Placed(f, day, n, 0, f)
  <2>1. n \in Nat /\ f \in [DOMAIN f -> Nat] /\ Whole(f, DOMAIN f)
    BY <1>3 DEF Line, Whole
  <2>2. SumOf(f, DOMAIN f, n) \in Int
    BY <2>1, TotalType
  <2>3. ASSUME NEW x \in DOMAIN f
        PROVE  f[x] - f[x] = Smaller(f[x], Rest(0 - Ahead(f, day, x, n)))
    <3>1. f[x] \in Nat /\ Ahead(f, day, x, n) \in Nat
      BY <1>3, LineOrder
    <3> QED BY <3>1 DEF Smaller, Rest
  <2> QED BY <2>1, <2>2, <2>3 DEF Placed
<1>4. ASSUME NEW b \in DOMAIN o.left, NEW c \in DOMAIN o.wanted
      PROVE  Shared(<<>>, {b}, {c}) = Pair(o, n, 0, b, c)
  <2>1. /\ Ahead(o.left, o.buyDay, b, n) \in Nat /\ o.left[b] \in Nat
        /\ Ahead(o.wanted, o.takerDay, c, n) \in Nat /\ o.wanted[c] \in Nat
    BY <1>1, LineOrder
  <2>2. Pair(o, n, 0, b, c) = 0
    BY <2>1 DEF Pair, Common, Rest, Smaller, Larger
  <2> QED BY <2>2, SharedNone
<1>5. Counted(o, Start(o))
  BY <1>1, StartKeeps
<1> QED BY <1>1, <1>2, <1>3, <1>4, <1>5 DEF FormBooks

(* Every round either moves the point or finds nobody waiting.             *)
LEMMA FormRounds ==
  ASSUME NEW o, NEW n, Lines(o, n), Full(o)
  PROVE  \A k \in Nat : \E P \in Nat : /\ FormBooks(o, n, P, Drained(o)[k])
                                       /\ k <= P \/ Waiting(o, Drained(o)[k]) = {}
<1> DEFINE S == {k \in Nat : \E P \in Nat : /\ FormBooks(o, n, P, Drained(o)[k])
                                            /\ k <= P \/ Waiting(o, Drained(o)[k]) = {}}
<1>1. 0 \in S
  <2>1. FormBooks(o, n, 0, Drained(o)[0])
    BY FormStart, DrainedRounds
  <2> QED BY <2>1
<1>2. ASSUME NEW k \in Nat, k \in S PROVE k + 1 \in S
  <2>1. PICK m : m = Drained(o)[k]
    OBVIOUS
  <2>2. PICK P \in Nat : FormBooks(o, n, P, m) /\ (k <= P \/ Waiting(o, m) = {})
    BY <1>2, <2>1
  <2>3. Drained(o)[k + 1] = Round(o, m)
    BY <2>1, DrainedRounds
  <2>4. CASE Waiting(o, m) = {}
    <3>1. Round(o, m) = m
      BY <2>4 DEF Round
    <3> QED BY <2>2, <2>3, <2>4, <3>1
  <2>5. CASE Waiting(o, m) # {}
    <3>1. PICK Q \in Nat : P + 1 <= Q /\ FormBooks(o, n, Q, Round(o, m))
      BY <2>2, <2>5, FormRound
    <3>2. k + 1 <= Q
      BY <2>2, <2>5, <3>1
    <3> QED BY <2>3, <3>1, <3>2
  <2> QED BY <2>4, <2>5
<1> HIDE DEF S
<1>3. Nat \subseteq S
  BY <1>1, <1>2, SetInduction
<1> QED BY <1>3 DEF S

(* When no more is wanted than there is, as many rounds as shares wanted   *)
(* leave nothing wanted.                                                   *)
LEMMA FormEnds ==
  ASSUME NEW o, NEW n, Lines(o, n), Full(o), NEW all, all = SumOf(o.wanted, DOMAIN o.wanted, n),
         all <= SumOf(o.left, DOMAIN o.left, n), NEW m, m = Drained(o)[all]
  PROVE  /\ FormBooks(o, n, all, m) /\ all \in Nat
         /\ \A c \in DOMAIN o.wanted : m.wanted[c] = 0
<1>1. /\ n \in Nat /\ Offering(o, n, n) /\ Line(o.left, o.buyDay, n) /\ Line(o.wanted, o.takerDay, n)
      /\ DOMAIN o.left \subseteq 1..n /\ DOMAIN o.wanted \subseteq 1..n
      /\ Amounts(o.left, DOMAIN o.left) /\ Amounts(o.wanted, DOMAIN o.wanted)
  BY DEF Lines, Line, Amounts
<1>2. all \in Nat /\ SumOf(o.left, DOMAIN o.left, n) \in Nat
  BY <1>1, TotalType
<1>3. PICK P \in Nat : FormBooks(o, n, P, m) /\ (all <= P \/ Waiting(o, m) = {})
  BY <1>2, FormRounds
<1>4. /\ Counted(o, m)
      /\ m.left \in [DOMAIN o.left -> Nat] /\ m.wanted \in [DOMAIN o.wanted -> Nat]
      /\ P + SumOf(m.left, DOMAIN o.left, n) = SumOf(o.left, DOMAIN o.left, n)
      /\ P + SumOf(m.wanted, DOMAIN o.wanted, n) = all
  BY <1>3 DEF FormBooks, Placed
<1>5. Amounts(m.left, DOMAIN o.left) /\ Amounts(m.wanted, DOMAIN o.wanted)
  BY <1>4 DEF Amounts
<1>6. SumOf(m.left, DOMAIN o.left, n) \in Nat /\ SumOf(m.wanted, DOMAIN o.wanted, n) \in Nat
  BY <1>1, <1>5, TotalType
<1>7. SumOf(m.wanted, DOMAIN o.wanted, n) = 0
  <2>1. CASE all <= P
    BY <1>2, <1>3, <1>4, <1>6, <2>1
  <2>2. CASE Waiting(o, m) = {} /\ Open(m.left) = {}
    <3>1. \A x \in DOMAIN o.left : m.left[x] = 0
      BY <1>4, <2>2 DEF Open
    <3>2. SumOf(m.left, DOMAIN o.left, n) = 0
      <4>1. Only(m.left, DOMAIN o.left) \in [Nat -> Int] /\ \A i \in Nat : Only(m.left, DOMAIN o.left)[i] = 0
        BY <3>1 DEF Only
      <4> QED BY <1>1, <4>1, SumZero DEF SumOf
    <3> QED BY <1>2, <1>3, <1>4, <1>6, <3>2
  <2>3. CASE Waiting(o, m) = {} /\ Open(m.left) # {}
    <3>1. Open(m.wanted) = {}
      BY <1>4, <2>3, FullWaiting
    <3>2. \A x \in DOMAIN o.wanted : m.wanted[x] = 0
      BY <1>4, <3>1 DEF Open
    <3>3. Only(m.wanted, DOMAIN o.wanted) \in [Nat -> Int] /\ \A i \in Nat : Only(m.wanted, DOMAIN o.wanted)[i] = 0
      BY <3>2 DEF Only
    <3> QED BY <1>1, <3>3, SumZero DEF SumOf
  <2> QED BY <1>3, <2>1, <2>2, <2>3
<1>8. ASSUME NEW c \in DOMAIN o.wanted PROVE m.wanted[c] = 0
  <2>1. c \in 1..n
    BY <1>1
  <2>2. m.wanted[c] <= SumOf(m.wanted, DOMAIN o.wanted, n) /\ m.wanted[c] \in Nat
    BY <1>1, <1>5, <2>1, TotalCovers
  <2> QED BY <1>7, <2>2
<1>9. P = all
  BY <1>2, <1>3, <1>4, <1>7
<1> QED BY <1>2, <1>3, <1>8, <1>9

--------------------------------------------------------------------------------
(* The form of a ledger. *)

(* The total of two sets of places that share none.                        *)
LEMMA TotalSplit ==
  ASSUME NEW f, NEW S, NEW T, S \cap T = {}, NEW n \in Nat, Whole(f, S \cup T)
  PROVE  SumOf(f, S \cup T, n) = SumOf(f, S, n) + SumOf(f, T, n)
<1> DEFINE all == Only(f, S \cup T)
<1> DEFINE one == Only(f, S)
<1> DEFINE two == Only(f, T)
<1>1. Whole(f, S) /\ Whole(f, T)
  BY DEF Whole
<1>2. all \in [Nat -> Int] /\ one \in [Nat -> Int] /\ two \in [Nat -> Int]
  BY <1>1, TotalType
<1>3. \A i \in Nat : one[i] = all[i] - two[i]
  BY <1>2 DEF Only
<1> HIDE DEF all, one, two
<1>4. \A i \in Nat : RunningSum(one)[i] = RunningSum(all)[i] - RunningSum(two)[i]
  BY ONLY <1>2, <1>3, SumDifference
<1>5. RunningSum(all)[n] \in Int /\ RunningSum(two)[n] \in Int
  BY <1>2, RunningSumDef
<1>6. RunningSum(one)[n] = RunningSum(all)[n] - RunningSum(two)[n]
  BY <1>4
<1> QED BY <1>5, <1>6 DEF SumOf, all, one, two

(* What the trades of a log are worth.                                     *)
LEMMA LogTotals ==
  ASSUME LedgerInv
  PROVE  /\ tradeSeq \in Nat /\ DOMAIN trades \subseteq 1..tradeSeq
         /\ \A t \in DOMAIN trades : /\ trades[t].qty \in Nat \ {0} /\ trades[t].date \in Nat
                                     /\ trades[t].key \in Key /\ t \in Nat
         /\ \A S \in SUBSET DOMAIN trades : /\ Amounts(Quantity, S) /\ Whole(Quantity, S)
                                            /\ TotalQty(S) \in Nat
                                            /\ TotalQty(S) = SumOf(QuantityOf(S), S, tradeSeq)
         /\ \A A, s, action : TradesIn(A, s, action) \in SUBSET DOMAIN trades
<1>1. tradeSeq \in Nat /\ DOMAIN trades \subseteq 1..tradeSeq
  BY DEF LedgerInv, TypeOK
<1>2. \A t \in DOMAIN trades : trades[t] \in TradeRow /\ t \in Nat
  BY <1>1 DEF LedgerInv, TypeOK
<1>3. \A t \in DOMAIN trades : /\ trades[t].qty \in Nat \ {0} /\ trades[t].date \in Nat
                               /\ trades[t].key \in Key /\ t \in Nat
  BY <1>2, LedgerAssumption DEF TradeRow
<1>4. ASSUME NEW S \in SUBSET DOMAIN trades
      PROVE  /\ Amounts(Quantity, S) /\ Whole(Quantity, S)
             /\ TotalQty(S) \in Nat
             /\ TotalQty(S) = SumOf(QuantityOf(S), S, tradeSeq)
  <2>1. Amounts(Quantity, S)
    BY <1>3 DEF Amounts, Quantity
  <2>2. Whole(Quantity, S) /\ SumOf(Quantity, S, tradeSeq) \in Nat
    BY <1>1, <2>1, TotalType
  <2>3. \A t \in S : Quantity[t] = QuantityOf(S)[t]
    BY DEF Quantity, QuantityOf
  <2>4. SumOf(Quantity, S, tradeSeq) = SumOf(QuantityOf(S), S, tradeSeq)
    BY <2>3, TotalSame
  <2> QED BY <2>1, <2>2, <2>4 DEF TotalQty
<1>5. \A A, s, action : TradesIn(A, s, action) \in SUBSET DOMAIN trades
  BY DEF TradesIn
<1> QED BY <1>1, <1>3, <1>4, <1>5

(* The trades of one account are those of a key.                           *)
LEMMA TotalOfKey ==
  ASSUME LedgerInv, NEW a, NEW s, NEW action
  PROVE  TotalQty(TradesIn({a}, s, action)) = RunningSum(QtyOf(trades, <<a, s>>, action))[tradeSeq]
<1>1. \A t \in DOMAIN trades : trades[t].key \in {a} \X {s} <=> trades[t].key = <<a, s>>
  OBVIOUS
<1>2. \A t : t \in TradesIn({a}, s, action)
               <=> t \in DOMAIN trades /\ trades[t].key = <<a, s>> /\ trades[t].action = action
  BY <1>1 DEF TradesIn
<1>3. \A t \in DOMAIN trades : Quantity[t] = trades[t].qty
  BY DEF Quantity
<1>4. Only(Quantity, TradesIn({a}, s, action)) = QtyOf(trades, <<a, s>>, action)
  BY <1>2, <1>3 DEF Only, QtyOf
<1> QED BY <1>4 DEF TotalQty, SumOf

(* What the sales of a key come to, its BUYs come to.                      *)
LEMMA KeyCovered ==
  ASSUME LedgerInv, ChainInv, NEW a \in Account, NEW s \in Symbol
  PROVE  TotalQty(TradesIn({a}, s, "SELL")) <= TotalQty(TradesIn({a}, s, "BUY"))
<1>1. /\ tradeSeq \in Nat /\ lotSeq \in Nat /\ LogTable(trades, tradeSeq) /\ LotTable(lots, lotSeq)
      /\ <<a, s>> \in Key
  BY DEF LedgerInv, TypeOK, LogTable, LotTable, Key
<1>2. Available(Queue(lots, <<a, s>>), lotSeq)
        = Bought(trades, <<a, s>>)[tradeSeq] - SoldOf(trades, <<a, s>>)[tradeSeq]
  BY <1>1 DEF ChainInv, Chain
<1>3. Available(Queue(lots, <<a, s>>), lotSeq) \in Nat
  <2>1. Queue(lots, <<a, s>>) \in [Nat -> Nat]
    BY <1>1, LotColumns
  <2> QED BY <1>1, <2>1, SumNatural DEF Available
<1>4. Bought(trades, <<a, s>>)[tradeSeq] \in Nat /\ SoldOf(trades, <<a, s>>)[tradeSeq] \in Nat
  BY <1>1, QtyColumn DEF Bought, SoldOf
<1>5. /\ TotalQty(TradesIn({a}, s, "SELL")) = SoldOf(trades, <<a, s>>)[tradeSeq]
      /\ TotalQty(TradesIn({a}, s, "BUY")) = Bought(trades, <<a, s>>)[tradeSeq]
  BY TotalOfKey DEF SoldOf, Bought
<1> QED BY <1>2, <1>3, <1>4, <1>5

(* The accounts of A with a trade among the first m. *)
Among(A, m) == {a \in A : \E t \in DOMAIN trades : t <= m /\ trades[t].key[1] = a}

(* What the sales of several accounts come to, their BUYs come to.         *)
LEMMA ScopeCovered ==
  ASSUME LedgerInv, ChainInv, NEW A \in SUBSET Account, NEW s \in Symbol
  PROVE  TotalQty(TradesIn(A, s, "SELL")) <= TotalQty(TradesIn(A, s, "BUY"))
<1> DEFINE Fine(B) == TotalQty(TradesIn(B, s, "SELL")) <= TotalQty(TradesIn(B, s, "BUY"))
<1> DEFINE S == {m \in Nat : Fine(Among(A, m))}
<1>1. /\ tradeSeq \in Nat /\ DOMAIN trades \subseteq 1..tradeSeq
      /\ \A t \in DOMAIN trades : trades[t].key \in Key /\ t \in Nat \ {0}
  BY LogTotals
<1>2. ASSUME NEW B, NEW a, a \notin B, NEW action
      PROVE  TotalQty(TradesIn(B \cup {a}, s, action))
               = TotalQty(TradesIn(B, s, action)) + TotalQty(TradesIn({a}, s, action))
  <2>1. TradesIn(B \cup {a}, s, action) = TradesIn(B, s, action) \cup TradesIn({a}, s, action)
    BY DEF TradesIn
  <2>2. TradesIn(B, s, action) \cap TradesIn({a}, s, action) = {}
    BY <1>2 DEF TradesIn
  <2>3. PICK T, U : T = TradesIn(B, s, action) /\ U = TradesIn({a}, s, action)
    OBVIOUS
  <2>4. Whole(Quantity, T \cup U)
    <3>1. T \cup U \in SUBSET DOMAIN trades
      BY <2>3, LogTotals
    <3> QED BY <3>1, LogTotals
  <2>5. SumOf(Quantity, T \cup U, tradeSeq) = SumOf(Quantity, T, tradeSeq) + SumOf(Quantity, U, tradeSeq)
    <3>1. T \cap U = {} /\ tradeSeq \in Nat
      BY <1>1, <2>2, <2>3
    <3> QED BY ONLY <2>4, <3>1, TotalSplit
  <2>6. TradesIn(B \cup {a}, s, action) = T \cup U
    BY <2>1, <2>3
  <2> QED BY <2>3, <2>5, <2>6 DEF TotalQty
<1>3. 0 \in S
  <2>1. Among(A, 0) = {}
    BY <1>1 DEF Among
  <2>2. TradesIn({}, s, "SELL") = {} /\ TradesIn({}, s, "BUY") = {}
    BY DEF TradesIn
  <2>3. TotalQty({}) = 0
    BY <1>1, TotalOfNone DEF TotalQty
  <2> QED BY <2>1, <2>2, <2>3
<1>4. ASSUME NEW m \in Nat, m \in S PROVE m + 1 \in S
  <2>1. PICK B : B = Among(A, m)
    OBVIOUS
  <2>2. Fine(B) /\ B \subseteq A
    BY <1>4, <2>1 DEF Among
  <2>3. Among(A, m + 1) = B \/ \E a \in A \ B : Among(A, m + 1) = B \cup {a}
    <3>1. \A t \in DOMAIN trades : t <= m + 1 <=> t <= m \/ t = m + 1
      BY <1>1
    <3>2. CASE m + 1 \in DOMAIN trades /\ trades[m + 1].key[1] \in A \ B
      <4>1. Among(A, m + 1) = B \cup {trades[m + 1].key[1]}
        BY <2>1, <3>1, <3>2 DEF Among
      <4> QED BY <3>2, <4>1
    <3>3. CASE ~ (m + 1 \in DOMAIN trades /\ trades[m + 1].key[1] \in A \ B)
      <4>1. Among(A, m + 1) = B
        BY <2>1, <3>1, <3>3 DEF Among
      <4> QED BY <4>1
    <3> QED BY <3>2, <3>3
  <2>4. ASSUME NEW a \in A \ B PROVE Fine(B \cup {a})
    <3>1. Fine({a})
      BY KeyCovered
    <3>2. /\ TotalQty(TradesIn(B, s, "SELL")) \in Nat /\ TotalQty(TradesIn(B, s, "BUY")) \in Nat
          /\ TotalQty(TradesIn({a}, s, "SELL")) \in Nat /\ TotalQty(TradesIn({a}, s, "BUY")) \in Nat
      BY LogTotals
    <3>3. /\ TotalQty(TradesIn(B \cup {a}, s, "SELL"))
               = TotalQty(TradesIn(B, s, "SELL")) + TotalQty(TradesIn({a}, s, "SELL"))
          /\ TotalQty(TradesIn(B \cup {a}, s, "BUY"))
               = TotalQty(TradesIn(B, s, "BUY")) + TotalQty(TradesIn({a}, s, "BUY"))
      BY <1>2
    <3> QED BY ONLY <2>2, <3>1, <3>2, <3>3
  <2> QED BY <2>2, <2>3, <2>4
<1> HIDE DEF S
<1>5. tradeSeq \in S
  BY <1>1, <1>3, <1>4, SetInduction
<1>6. ASSUME NEW action PROVE TradesIn(Among(A, tradeSeq), s, action) = TradesIn(A, s, action)
  <2>1. ASSUME NEW t \in DOMAIN trades
        PROVE  trades[t].key \in Among(A, tradeSeq) \X {s} <=> trades[t].key \in A \X {s}
    <3>1. trades[t].key = <<trades[t].key[1], trades[t].key[2]>> /\ t <= tradeSeq
      BY <1>1 DEF Key
    <3> HIDE <1>1
    <3>2. trades[t].key[1] \in Among(A, tradeSeq) <=> trades[t].key[1] \in A
      BY <3>1 DEF Among
    <3>3. \A B : trades[t].key \in B \X {s} <=> trades[t].key[1] \in B /\ trades[t].key[2] = s
      BY <3>1
    <3> QED BY <3>2, <3>3
  <2>2. \A B, t : t \in TradesIn(B, s, action)
                   <=> t \in DOMAIN trades /\ trades[t].key \in B \X {s} /\ trades[t].action = action
    BY DEF TradesIn
  <2>3. \A t : t \in TradesIn(Among(A, tradeSeq), s, action) <=> t \in TradesIn(A, s, action)
    BY ONLY <2>1, <2>2, Zenon
  <2> QED BY ONLY <2>3
<1> QED BY <1>5, <1>6 DEF S

(* The BUYs and the SELLs of a form stand in two lines.                    *)
LEMMA FormLines ==
  ASSUME LedgerInv, NEW A, NEW s, NEW o, o = Form(A, s)
  PROVE  /\ Lines(o, tradeSeq) /\ Full(o)
         /\ DOMAIN o.left = TradesIn(A, s, "BUY") /\ DOMAIN o.wanted = TradesIn(A, s, "SELL")
         /\ o.left = QuantityOf(TradesIn(A, s, "BUY"))
         /\ o.wanted = QuantityOf(TradesIn(A, s, "SELL"))
         /\ o.buyDay = Day /\ o.takerDay = Day
<1>1. PICK buys, sales : buys = TradesIn(A, s, "BUY") /\ sales = TradesIn(A, s, "SELL")
  OBVIOUS
<1>2. /\ o.left = QuantityOf(buys) /\ o.wanted = QuantityOf(sales) /\ o.may = buys \X sales
      /\ o.buyDay = Day /\ o.takerDay = Day
  BY <1>1 DEF Form
<1>3. DOMAIN o.left = buys /\ DOMAIN o.wanted = sales
  BY <1>2 DEF QuantityOf
<1>4. ASSUME NEW S \in SUBSET DOMAIN trades
      PROVE  Line(QuantityOf(S), Day, tradeSeq)
  <2>1. /\ tradeSeq \in Nat /\ S \subseteq 1..tradeSeq
        /\ \A t \in S : trades[t].qty \in Nat /\ trades[t].date \in Nat /\ t \in Nat
    BY LogTotals
  <2>2. Dated(Day, S)
    BY <2>1 DEF Dated, Day
  <2>3. QuantityOf(S) \in [S -> Nat] /\ DOMAIN QuantityOf(S) = S
    BY <2>1 DEF QuantityOf
  <2> QED BY <2>1, <2>2, <2>3 DEF Line
<1>5. buys \in SUBSET DOMAIN trades /\ sales \in SUBSET DOMAIN trades
  BY <1>1, LogTotals
<1>6. Line(o.left, o.buyDay, tradeSeq) /\ Line(o.wanted, o.takerDay, tradeSeq)
  BY <1>2, <1>4, <1>5
<1>7. Offering(o, tradeSeq, tradeSeq)
  BY <1>6 DEF Line, Offering
<1> QED BY <1>1, <1>2, <1>3, <1>6, <1>7 DEF Lines, Full

(* What lies before a trade of a form.                                     *)
LEMMA BeforeIs ==
  ASSUME LedgerInv, NEW S \in SUBSET DOMAIN trades, NEW t \in S
  PROVE  /\ Before(t, S) = Ahead(QuantityOf(S), Day, t, tradeSeq)
         /\ Before(t, S) \in Nat /\ trades[t].qty = QuantityOf(S)[t] /\ trades[t].qty \in Nat
<1> DEFINE sooner == {u \in S : u # t /\ NotLater(u, t)}
<1>1. \A u \in S : NotLater(u, t) <=> Older(Day, u, t)
  BY DEF NotLater, Older, Day
<1>2. DOMAIN QuantityOf(S) = S /\ \A u \in S : QuantityOf(S)[u] = trades[u].qty /\ Quantity[u] = trades[u].qty
  BY DEF QuantityOf, Quantity
<1>3. AheadOf(QuantityOf(S), Day, t) = sooner
  BY <1>1, <1>2 DEF AheadOf
<1>4. \A u \in sooner : Quantity[u] = QuantityOf(S)[u]
  BY <1>2
<1>5. sooner \in SUBSET DOMAIN trades /\ Before(t, S) = TotalQty(sooner)
  BY DEF Before
<1> HIDE DEF sooner
<1>6. SumOf(Quantity, sooner, tradeSeq) = SumOf(QuantityOf(S), sooner, tradeSeq)
  BY ONLY <1>4, TotalSame
<1>7. TotalQty(sooner) \in Nat /\ trades[t].qty \in Nat
  BY <1>5, LogTotals
<1> QED BY <1>2, <1>3, <1>5, <1>6, <1>7 DEF Ahead, TotalQty

(* A form has come to an end in the state m, and no SELL wants more.       *)
FormDone(A, s, o, all, m) ==
  /\ m.rows = MatchedPairs(A, s) /\ FormBooks(o, tradeSeq, all, m)
  /\ \A c \in DOMAIN o.wanted : m.wanted[c] = 0

(* The rows of a form when it is done: what Counted and the point say.     *)
LEMMA FormTells ==
  ASSUME LedgerInv, ChainInv, NEW A \in SUBSET Account, NEW s \in Symbol
  PROVE  LET o == Form(A, s)  all == TotalQty(TradesIn(A, s, "SELL"))
         IN  FormDone(A, s, o, all, Drained(o)[all])
<1>0. PICK o, all, m : o = Form(A, s) /\ all = TotalQty(TradesIn(A, s, "SELL")) /\ m = Drained(o)[all]
  OBVIOUS
<1>1. /\ Lines(o, tradeSeq) /\ Full(o)
      /\ DOMAIN o.left = TradesIn(A, s, "BUY") /\ DOMAIN o.wanted = TradesIn(A, s, "SELL")
      /\ o.left = QuantityOf(TradesIn(A, s, "BUY")) /\ o.wanted = QuantityOf(TradesIn(A, s, "SELL"))
  BY <1>0, FormLines
<1>2. /\ all = SumOf(o.wanted, DOMAIN o.wanted, tradeSeq)
      /\ TotalQty(TradesIn(A, s, "BUY")) = SumOf(o.left, DOMAIN o.left, tradeSeq)
  BY <1>0, <1>1, LogTotals
<1>3. all <= SumOf(o.left, DOMAIN o.left, tradeSeq)
  BY <1>0, <1>2, ScopeCovered
<1>4. FormBooks(o, tradeSeq, all, m) /\ \A c \in DOMAIN o.wanted : m.wanted[c] = 0
  BY <1>0, <1>1, <1>2, <1>3, FormEnds
<1>5. m.rows = MatchedPairs(A, s)
  BY <1>0 DEF MatchedPairs
<1> QED BY <1>0, <1>4, <1>5 DEF FormDone

(* The form of a scope pairs what first-in-first-out pairs.                *)
LEMMA FormPairs ==
  ASSUME LedgerInv, ChainInv, NEW A \in SUBSET Account, NEW s \in Symbol,
         NEW sale \in TradesIn(A, s, "SELL")
  PROVE  /\ \A buy \in TradesIn(A, s, "BUY") :
              Shared(MatchedPairs(A, s), {buy}, {sale}) = Overlap(buy, sale, A, s)
         /\ Shared(MatchedPairs(A, s), TradesIn(A, s, "BUY"), {sale}) = trades[sale].qty
<1>1. PICK o, buys, sales, all :
        /\ o = Form(A, s) /\ buys = TradesIn(A, s, "BUY") /\ sales = TradesIn(A, s, "SELL")
        /\ all = TotalQty(sales)
  OBVIOUS
<1>0. PICK m : m = Drained(o)[all]
  OBVIOUS
<1>2. /\ m.rows = MatchedPairs(A, s) /\ FormBooks(o, tradeSeq, all, m)
      /\ \A c \in DOMAIN o.wanted : m.wanted[c] = 0
  <2>1. FormDone(A, s, o, all, m)
    BY <1>0, <1>1, FormTells
  <2> QED BY <2>1 DEF FormDone
<1>3. /\ Lines(o, tradeSeq) /\ DOMAIN o.left = buys /\ DOMAIN o.wanted = sales
      /\ o.left = QuantityOf(buys) /\ o.wanted = QuantityOf(sales)
      /\ o.buyDay = Day /\ o.takerDay = Day
  BY <1>1, FormLines
<1>4. buys \in SUBSET DOMAIN trades /\ sales \in SUBSET DOMAIN trades /\ sale \in sales
  BY <1>1, LogTotals
<1>5. all \in Nat
  BY <1>1, <1>4, LogTotals
<1>6. /\ Before(sale, sales) = Ahead(o.wanted, o.takerDay, sale, tradeSeq)
      /\ Before(sale, sales) \in Nat /\ trades[sale].qty = o.wanted[sale] /\ trades[sale].qty \in Nat
  BY <1>3, <1>4, BeforeIs
<1>7. Before(sale, sales) + trades[sale].qty <= all
  <2>1. o.wanted[sale] - m.wanted[sale]
          = Smaller(o.wanted[sale], Rest(all - Ahead(o.wanted, o.takerDay, sale, tradeSeq)))
    BY <1>2, <1>3, <1>4 DEF FormBooks, Placed
  <2>2. m.wanted[sale] = 0
    BY <1>2, <1>3, <1>4
  <2>3. PICK c, q : c = Before(sale, sales) /\ q = trades[sale].qty
    OBVIOUS
  <2>4. q - 0 = Smaller(q, Rest(all - c)) /\ q \in Nat \ {0} /\ c \in Nat
    BY <1>4, <1>6, <2>1, <2>2, <2>3, LogTotals
  <2>5. c + q <= all
    BY ONLY <1>5, <2>4 DEF Smaller, Rest
  <2> QED BY <2>3, <2>5
<1>8. ASSUME NEW buy \in buys PROVE Shared(m.rows, {buy}, {sale}) = Overlap(buy, sale, A, s)
  <2>1. /\ Before(buy, buys) = Ahead(o.left, o.buyDay, buy, tradeSeq)
        /\ Before(buy, buys) \in Nat /\ trades[buy].qty = o.left[buy] /\ trades[buy].qty \in Nat
    BY <1>3, <1>4, BeforeIs
  <2>2. PICK a, p, c, q : /\ a = Before(buy, buys) /\ p = trades[buy].qty
                          /\ c = Before(sale, sales) /\ q = trades[sale].qty
    OBVIOUS
  <2>3. Shared(m.rows, {buy}, {sale}) = Pair(o, tradeSeq, all, buy, sale)
    BY <1>2, <1>3, <1>4 DEF FormBooks
  <2>4. Pair(o, tradeSeq, all, buy, sale) = Common(all, a, p, c, q)
    BY <1>6, <2>1, <2>2 DEF Pair
  <2>5. Overlap(buy, sale, A, s) = Larger(0, Smaller(a + p, c + q) - Larger(a, c))
    BY <1>1, <2>2 DEF Overlap
  <2>6. a \in Nat /\ p \in Nat /\ c \in Nat /\ q \in Nat /\ c + q <= all
    BY <1>6, <1>7, <2>1, <2>2
  <2>7. Common(all, a, p, c, q) = Larger(0, Smaller(a + p, c + q) - Larger(a, c))
    BY ONLY <1>5, <2>6 DEF Common, Rest, Smaller, Larger
  <2> QED BY <2>3, <2>4, <2>5, <2>7
<1>9. Shared(m.rows, buys, {sale}) = trades[sale].qty
  <2>1. m.wanted[sale] + Shared(m.rows, buys, {sale}) = o.wanted[sale] /\ m.rows \in Seq(ShareRow)
    BY <1>2, <1>3, <1>4 DEF FormBooks, Counted
  <2>2. m.wanted[sale] = 0 /\ Shared(m.rows, buys, {sale}) \in Nat
    BY <1>2, <1>3, <1>4, <2>1, SharedType
  <2> QED BY <1>6, <2>1, <2>2
<1> QED BY <1>1, <1>2, <1>8, <1>9

(* The rows of the capital gains form say what first-in-first-out says of  *)
(* every BUY and SELL of a scope, in whatever order they were recorded,    *)
(* and no SELL is left over.                                               *)
THEOREM LedgerFormIsFifo == LedgerSpec => []FormIsFifo
<1>1. Init => LedgerInv /\ ChainInv
  BY InitLedger, InitChains
<1>2. LedgerInv /\ ChainInv /\ [RecordNext]_ledgerVars => (LedgerInv /\ ChainInv)'
  BY StepLedger, StepChains
<1>3. LedgerInv /\ ChainInv => FormIsFifo
  <2>1. SUFFICES ASSUME LedgerInv, ChainInv, NEW A \in Scope, NEW s \in Symbol,
                        NEW sale \in TradesIn(A, s, "SELL")
                 PROVE  /\ \A buy \in TradesIn(A, s, "BUY") :
                             Shared(MatchedPairs(A, s), {buy}, {sale}) = Overlap(buy, sale, A, s)
                        /\ Shared(MatchedPairs(A, s), TradesIn(A, s, "BUY"), {sale}) = trades[sale].qty
    BY DEF FormIsFifo
  <2>2. A \in SUBSET Account
    BY DEF Scope
  <2> QED BY <2>1, <2>2, FormPairs
<1> QED BY <1>1, <1>2, <1>3, PTL DEF LedgerSpec

--------------------------------------------------------------------------------
(* Wash sales. *)

(* What is given in rows of q shares divides by q.                         *)
LEMMA DividesByFactor ==
  ASSUME NEW q \in Nat \ {0}, NEW x \in Nat
  PROVE  (q * x) \div q = x
OBVIOUS

(* A loss on q shares, and the part of it that n of them are.              *)
LEMMA PartOfLoss ==
  ASSUME NEW q \in Nat \ {0}, NEW bought \in Nat, NEW sold \in Nat, sold < bought, NEW n \in Nat
  PROVE  (-(q * (sold - bought)) * n) \div q = (bought - sold) * n
<1>1. PICK w \in Nat : w = bought - sold
  OBVIOUS
<1>2. sold - bought = -w
  BY <1>1
<1>3. -(q * (-w)) = q * w
  OBVIOUS
<1>4. (q * w) * n = q * (w * n) /\ w * n \in Nat
  OBVIOUS
<1>5. (q * (w * n)) \div q = w * n
  BY <1>4, DividesByFactor
<1> QED BY <1>1, <1>2, <1>3, <1>4, <1>5

(* The loss on q shares less the part of it that n of them are, r. *)
LossLess(q, bought, sold, n, g, r) ==
  g = q * (sold - bought) /\ r = (bought - sold) * n => g < 0 /\ r >= 0 /\ g + r <= 0

(* It is no gain.                                                          *)
LEMMA LossStays ==
  ASSUME NEW q \in Nat \ {0}, NEW bought \in Nat, NEW sold \in Nat, sold < bought, NEW n \in Nat, n <= q,
         NEW g, NEW r
  PROVE  LossLess(q, bought, sold, n, g, r)
<1>1. PICK w \in Nat \ {0} : w = bought - sold
  OBVIOUS
<1>2. sold - bought = -w
  BY <1>1
<1>3. q * (-w) = -(q * w) /\ q * w > 0
  OBVIOUS
<1>4. w * n <= q * w /\ w * n >= 0
  OBVIOUS
<1> QED BY <1>1, <1>2, <1>3, <1>4 DEF LossLess

(* Only the takers of a report count.                                      *)
LEMMA SharedWithin ==
  ASSUME NEW o, NEW rows \in Seq(OfferRow(o)), NEW X, NEW Y, NEW Z,
         Y \cap DOMAIN o.wanted = Z \cap DOMAIN o.wanted
  PROVE  Shared(rows, X, Y) = Shared(rows, X, Z)
<1>1. \A i \in DOMAIN rows : rows[i].taker \in DOMAIN o.wanted
  <2>1. \A i \in DOMAIN rows : rows[i] \in OfferRow(o)
    BY ElementOfSeq
  <2> QED BY <2>1 DEF OfferRow
<1>2. {i \in DOMAIN rows : rows[i].buy \in X /\ rows[i].taker \in Y}
        = {i \in DOMAIN rows : rows[i].buy \in X /\ rows[i].taker \in Z}
  BY <1>1
<1> QED BY <1>2 DEF Shared

(* What a list of rows at a loss asks of a scope is an offer of its BUYs.  *)
LEMMA ClaimsOffer ==
  ASSUME LedgerInv, NEW A, NEW s, NEW rows \in Seq(OfferRow(Form(A, s))), NEW o, o = Claims(A, s, rows)
  PROVE  /\ Offering(o, tradeSeq, Len(rows))
         /\ o.left = QuantityOf(TradesIn(A, s, "BUY")) /\ DOMAIN o.left = TradesIn(A, s, "BUY")
         /\ DOMAIN o.wanted = {i \in DOMAIN rows : Gain(rows[i]) < 0}
         /\ \A i \in DOMAIN o.wanted : o.wanted[i] = rows[i].qty
<1>1. PICK buys, losses : /\ buys = TradesIn(A, s, "BUY")
                          /\ losses = {i \in DOMAIN rows : Gain(rows[i]) < 0}
  OBVIOUS
<1>2. /\ o.left = QuantityOf(buys) /\ o.wanted = [i \in losses |-> rows[i].qty]
      /\ o.buyDay = Day /\ o.takerDay = [i \in losses |-> Day[rows[i].taker]]
  BY <1>1 DEF Claims
<1>3. PICK form : form = Form(A, s)
  OBVIOUS
<1>4. /\ Lines(form, tradeSeq) /\ DOMAIN form.left = buys /\ form.left = QuantityOf(buys)
      /\ DOMAIN form.wanted = TradesIn(A, s, "SELL") /\ form.buyDay = Day
  BY <1>1, <1>3, FormLines
<1>5. /\ tradeSeq \in Nat /\ buys \subseteq 1..tradeSeq /\ QuantityOf(buys) \in [buys -> Nat]
      /\ Dated(Day, buys)
  BY <1>4 DEF Lines, Offering
<1>6. ASSUME NEW i \in losses
      PROVE  rows[i].qty \in Nat /\ Day[rows[i].taker] \in Nat /\ i \in Nat /\ i \in 1..Len(rows)
  <2>1. rows[i] \in OfferRow(form) /\ i \in 1..Len(rows) /\ i \in Nat
    BY <1>1, <1>3, ElementOfSeq
  <2>2. rows[i].qty \in Nat /\ rows[i].taker \in TradesIn(A, s, "SELL")
    BY <1>4, <2>1 DEF OfferRow
  <2>3. Day[rows[i].taker] \in Nat
    BY <2>2, LogTotals DEF Day
  <2> QED BY <2>1, <2>2, <2>3
<1>7. o.wanted \in [losses -> Nat] /\ DOMAIN o.wanted = losses /\ losses \subseteq 1..Len(rows)
  BY <1>2, <1>6
<1>8. Dated(o.takerDay, losses)
  BY <1>2, <1>6 DEF Dated
<1>9. DOMAIN o.left = buys
  BY <1>2 DEF QuantityOf
<1>10. Offering(o, tradeSeq, Len(rows))
  BY <1>2, <1>5, <1>7, <1>8, <1>9 DEF Offering
<1> QED BY <1>1, <1>2, <1>7, <1>9, <1>10

(* The claims of a report, and the rows they are on.                       *)
LEMMA ClaimsCount ==
  ASSUME LedgerInv, ChainInv, NEW A \in SUBSET Account, NEW s \in Symbol,
         NEW rows, rows = MatchedPairs(A, s), NEW o, o = Claims(A, s, rows)
  PROVE  /\ rows \in Seq(OfferRow(Form(A, s)))
         /\ \E m : m.rows = WashSales(A, s, rows) /\ Counted(o, m)
<1>1. PICK form : form = Form(A, s)
  OBVIOUS
<1>2. rows \in Seq(OfferRow(form)) /\ rows \in Seq(ShareRow)
  <2>1. PICK m : m = Drained(form)[TotalQty(TradesIn(A, s, "SELL"))]
    OBVIOUS
  <2>2. m.rows = rows /\ Counted(form, m)
    BY <1>1, <2>1, FormTells DEF FormDone, FormBooks
  <2> QED BY <2>2 DEF Counted
<1>3. PICK k : k = Shared(rows, DOMAIN trades, DOMAIN trades)
  OBVIOUS
<1>4. k \in Nat
  BY <1>2, <1>3, SharedType
<1>5. Offering(o, tradeSeq, Len(rows))
  BY <1>1, <1>2, ClaimsOffer
<1>6. Counted(o, Drained(o)[k])
  BY <1>4, <1>5, DrainedKeeps
<1>7. Drained(o)[k].rows = WashSales(A, s, rows)
  BY <1>3 DEF WashSales
<1> QED BY <1>1, <1>2, <1>6, <1>7

(* A row at a loss, by the two prices. *)
SoldBelow(rows, i, bought, sold) ==
  /\ rows[i].qty \in Nat \ {0} /\ bought \in Nat /\ sold \in Nat /\ sold < bought
  /\ Gain(rows[i]) = rows[i].qty * (sold - bought)

(* What was claimed for it is disallowed, at the loss of a share. *)
DisallowsClaimed(o, rows, claims, i, bought, sold) ==
  DisallowedFor(rows, claims, {i}) = (bought - sold) * Shared(claims, DOMAIN o.left, {i})

(* The part of the loss of a row that is disallowed is that of the shares  *)
(* that were claimed for it.                                               *)
LEMMA DisallowedIs ==
  ASSUME NEW o, NEW claims \in Seq(OfferRow(o)), claims \in Seq(ShareRow), NEW rows, NEW i,
         NEW bought, NEW sold, SoldBelow(rows, i, bought, sold)
  PROVE  DisallowsClaimed(o, rows, claims, i, bought, sold)
<1> DEFINE n == Len(claims)
<1> DEFINE f == [c \in DOMAIN claims |-> claims[c].qty]
<1> DEFINE g == [c \in DOMAIN claims |-> Disallowed(rows, claims[c])]
<1> DEFINE S == {c \in DOMAIN claims : claims[c].taker \in {i}}
<1>7. bought \in Nat /\ sold \in Nat /\ sold < bought /\ rows[i].qty \in Nat \ {0}
  BY DEF SoldBelow
<1>0. PICK w \in Nat : w = bought - sold
  BY <1>7
<1>1. /\ n \in Nat /\ DOMAIN claims = 1..n
      /\ \A c \in DOMAIN claims : claims[c].qty \in Nat /\ claims[c].buy \in DOMAIN o.left
  <2>1. \A c \in DOMAIN claims : claims[c] \in OfferRow(o)
    BY ElementOfSeq
  <2> QED BY <2>1 DEF OfferRow
<1>2. ASSUME NEW c \in S PROVE g[c] = w * f[c] /\ f[c] \in Nat
  <2>1. c \in DOMAIN claims /\ claims[c].taker = i /\ claims[c].qty \in Nat
    BY <1>1
  <2>2. PICK q, x : q = rows[i].qty /\ x = claims[c].qty
    OBVIOUS
  <2>3. Disallowed(rows, claims[c]) = (-(q * (sold - bought)) * x) \div q
    BY <2>1, <2>2 DEF Disallowed, SoldBelow
  <2>4. (-(q * (sold - bought)) * x) \div q = (bought - sold) * x
    <3>1. q \in Nat \ {0} /\ x \in Nat
      BY <1>7, <2>1, <2>2
    <3> QED BY ONLY <3>1, <1>7, PartOfLoss
  <2> QED BY <1>0, <2>1, <2>2, <2>3, <2>4
<1>3. Shared(claims, DOMAIN o.left, {i}) = SumOf(f, S, n)
  <2>1. S = {c \in DOMAIN claims : claims[c].buy \in DOMAIN o.left /\ claims[c].taker \in {i}}
    BY <1>1
  <2> QED BY <2>1 DEF Shared
<1>4. DisallowedFor(rows, claims, {i}) = SumOf(g, S, n)
  BY DEF DisallowedFor
<1> HIDE DEF f, g, S, n
<1>5. /\ Only(f, S) \in [Nat -> Nat] /\ Only(g, S) \in [Nat -> Nat]
      /\ \A x \in Nat : Only(g, S)[x] = w * Only(f, S)[x]
  <2>1. \A c \in S : w * f[c] \in Nat
    BY <1>2
  <2>2. \A x \in Nat : IF x \in S THEN Only(f, S)[x] = f[x] /\ Only(g, S)[x] = w * f[x]
                                  ELSE Only(f, S)[x] = 0 /\ Only(g, S)[x] = 0
    BY <1>2 DEF Only
  <2>3. Only(f, S) \in [Nat -> Nat]
    BY <1>2 DEF Only
  <2>4. Only(g, S) \in [Nat -> Nat]
    BY <1>2, <2>1 DEF Only
  <2>5. w * 0 = 0
    OBVIOUS
  <2> QED BY <2>2, <2>3, <2>4, <2>5
<1>6. SumOf(g, S, n) = w * SumOf(f, S, n)
  <2>1. PICK one, two : one = Only(f, S) /\ two = Only(g, S)
    OBVIOUS
  <2>2. RunningSum(two)[n] = w * RunningSum(one)[n]
    BY <1>1, <1>5, <2>1, SumScaled
  <2> QED BY <2>1, <2>2 DEF SumOf
<1> QED BY <1>0, <1>3, <1>4, <1>6 DEF DisallowsClaimed

(* What WashSalesCountOnce asks of a row, and of a scope and symbol. *)
RowWashedOnce(A, s, rows, claims, i) ==
  /\ Shared(claims, TradesIn(A, s, "BUY"), {i}) <= rows[i].qty
  /\ SameRows(rows, i) = {i} =>
       AdjustedGain(rows, claims, i) = Gain(rows[i]) + DisallowedFor(rows, claims, {i})

WashedOnce(A, s, rows, claims) ==
  /\ \A b \in TradesIn(A, s, "BUY") : Shared(claims, {b}, DOMAIN rows) <= trades[b].qty
  /\ \A i \in DOMAIN rows : RowWashedOnce(A, s, rows, claims, i)

(* A row of a form is at a loss, or nothing of it is claimed.              *)
LEMMA AdjustedByClaims ==
  ASSUME LedgerInv, NEW A \in SUBSET Account, NEW s \in Symbol,
         NEW rows \in Seq(OfferRow(Form(A, s))), NEW o, o = Claims(A, s, rows),
         NEW m, Counted(o, m), NEW i \in DOMAIN rows
  PROVE  RowWashedOnce(A, s, rows, m.rows, i)
<1>1. PICK buys, claims, got : /\ buys = TradesIn(A, s, "BUY") /\ claims = m.rows
                               /\ got = Shared(claims, buys, {i})
  OBVIOUS
<1>2. /\ claims \in Seq(OfferRow(o)) /\ claims \in Seq(ShareRow)
      /\ \A c \in DOMAIN o.wanted : /\ m.wanted[c] \in Nat
                                    /\ m.wanted[c] + Shared(claims, DOMAIN o.left, {c}) = o.wanted[c]
  BY <1>1 DEF Counted
<1>3. /\ DOMAIN o.left = buys /\ DOMAIN o.wanted = {j \in DOMAIN rows : Gain(rows[j]) < 0}
      /\ \A j \in DOMAIN o.wanted : o.wanted[j] = rows[j].qty
  BY <1>1, ClaimsOffer
<1>4. got \in Nat
  BY <1>1, <1>2, SharedType
<1>5. PICK q, bought, sold : /\ q = rows[i].qty /\ bought = trades[rows[i].buy].unit
                             /\ sold = trades[rows[i].taker].unit
  OBVIOUS
<1>6. q \in Nat \ {0} /\ bought \in Nat /\ sold \in Nat /\ Gain(rows[i]) = q * (sold - bought)
  <2>1. rows[i] \in OfferRow(Form(A, s))
    BY ElementOfSeq
  <2>2. PICK form : form = Form(A, s)
    OBVIOUS
  <2>3. DOMAIN form.left = buys /\ DOMAIN form.wanted = TradesIn(A, s, "SELL")
    BY <1>1, <2>2, FormLines
  <2>4. q \in Nat \ {0} /\ rows[i].buy \in DOMAIN trades /\ rows[i].taker \in DOMAIN trades
    BY <1>1, <1>5, <2>1, <2>2, <2>3 DEF OfferRow, TradesIn
  <2>5. \A t \in DOMAIN trades : trades[t].unit \in Nat
    BY LedgerAssumption DEF LedgerInv, TypeOK, TradeRow
  <2> QED BY <1>5, <2>4, <2>5 DEF Gain
<1>7. CASE i \in DOMAIN o.wanted
  <2>1. got <= q
    BY <1>1, <1>2, <1>3, <1>4, <1>5, <1>7
  <2>2. sold < bought
    <3>1. q * (sold - bought) < 0
      BY <1>3, <1>6, <1>7
    <3>2. sold - bought \in Nat => q * (sold - bought) >= 0
      BY <1>6
    <3> QED BY <1>6, <3>1, <3>2
  <2>3. PICK d : d = (bought - sold) * got
    OBVIOUS
  <2>4. DisallowedFor(rows, claims, {i}) = d
    <3>1. SoldBelow(rows, i, bought, sold)
      BY <1>5, <1>6, <2>2 DEF SoldBelow
    <3>2. DisallowsClaimed(o, rows, claims, i, bought, sold)
      BY <1>2, <3>1, DisallowedIs
    <3> QED BY <1>1, <1>3, <2>3, <3>2 DEF DisallowsClaimed
  <2>5. PICK g : g = q * (sold - bought)
    OBVIOUS
  <2>6. g \in Int /\ d \in Int /\ g < 0 /\ g + d <= 0 /\ d >= 0
    <3>1. g \in Int /\ d \in Int
      BY <1>4, <1>6, <2>3, <2>5
    <3>2. LossLess(q, bought, sold, got, g, d)
      <4>1. q \in Nat \ {0} /\ bought \in Nat /\ sold \in Nat
        BY <1>6
      <4> QED BY ONLY <1>4, <2>1, <2>2, <4>1, LossStays
    <3> QED BY ONLY <2>3, <2>5, <3>1, <3>2 DEF LossLess
  <2>7. SameRows(rows, i) = {i} => AdjustedGain(rows, claims, i) = g + d
    <3>1. SUFFICES ASSUME SameRows(rows, i) = {i} PROVE AdjustedGain(rows, claims, i) = g + d
      OBVIOUS
    <3>2. AdjustedGain(rows, claims, i) = IF d <= 0 THEN g ELSE Smaller(0, g + d)
      BY <1>6, <2>4, <2>5, <3>1 DEF AdjustedGain
    <3> QED BY ONLY <2>6, <3>2 DEF Smaller
  <2> QED BY <1>1, <1>5, <1>6, <2>1, <2>4, <2>5, <2>7 DEF RowWashedOnce
<1>8. CASE i \notin DOMAIN o.wanted
  <2>1. \A c \in DOMAIN claims : claims[c].taker # i
    <3>1. \A c \in DOMAIN claims : claims[c] \in OfferRow(o)
      BY <1>2, ElementOfSeq
    <3> QED BY <1>8, <3>1 DEF OfferRow
  <2>2. got = 0
    <3>1. {c \in DOMAIN claims : claims[c].buy \in buys /\ claims[c].taker \in {i}} = {}
      BY <2>1
    <3>2. Len(claims) \in Nat
      BY <1>2
    <3> QED BY <1>1, <3>1, <3>2, TotalOfNone DEF Shared
  <2>3. DisallowedFor(rows, claims, {i}) = 0
    <3>1. {c \in DOMAIN claims : claims[c].taker \in {i}} = {}
      BY <2>1
    <3>2. Len(claims) \in Nat
      BY <1>2
    <3> QED BY <3>1, <3>2, TotalOfNone DEF DisallowedFor
  <2>4. Gain(rows[i]) \in Int
    BY <1>6
  <2>5. SameRows(rows, i) = {i} => AdjustedGain(rows, claims, i) = Gain(rows[i])
    BY <2>3 DEF AdjustedGain
  <2> QED BY <1>1, <1>5, <1>6, <2>2, <2>3, <2>4, <2>5 DEF RowWashedOnce
<1> QED BY <1>7, <1>8

(* Claims of one scope and symbol count every share once.                  *)
LEMMA WashSalesCount ==
  ASSUME LedgerInv, ChainInv, NEW A \in SUBSET Account, NEW s \in Symbol,
         NEW rows, rows = MatchedPairs(A, s), NEW claims, claims = WashSales(A, s, rows)
  PROVE  WashedOnce(A, s, rows, claims)
<1>1. PICK o : o = Claims(A, s, rows)
  OBVIOUS
<1>2. rows \in Seq(OfferRow(Form(A, s))) /\ \E m : m.rows = claims /\ Counted(o, m)
  BY <1>1, ClaimsCount
<1>3. PICK m : m.rows = claims /\ Counted(o, m)
  BY <1>2
<1>4. /\ claims \in Seq(OfferRow(o)) /\ claims \in Seq(ShareRow)
      /\ \A b \in DOMAIN o.left : /\ m.left[b] \in Nat
                                  /\ m.left[b] + Shared(claims, {b}, DOMAIN o.wanted) = o.left[b]
  BY <1>3 DEF Counted
<1>5. /\ o.left = QuantityOf(TradesIn(A, s, "BUY")) /\ DOMAIN o.left = TradesIn(A, s, "BUY")
      /\ DOMAIN o.wanted \subseteq DOMAIN rows
  BY <1>1, <1>2, ClaimsOffer
<1>6. ASSUME NEW b \in TradesIn(A, s, "BUY") PROVE Shared(claims, {b}, DOMAIN rows) <= trades[b].qty
  <2>1. Shared(claims, {b}, DOMAIN rows) = Shared(claims, {b}, DOMAIN o.wanted)
    <3>1. (DOMAIN rows) \cap DOMAIN o.wanted = (DOMAIN o.wanted) \cap DOMAIN o.wanted
      BY <1>5
    <3> QED BY <1>4, <3>1, SharedWithin
  <2>2. o.left[b] = trades[b].qty
    BY <1>5 DEF QuantityOf
  <2>3. m.left[b] \in Nat /\ m.left[b] + Shared(claims, {b}, DOMAIN o.wanted) = o.left[b]
    BY <1>4, <1>5
  <2>4. Shared(claims, {b}, DOMAIN o.wanted) \in Nat
    BY <1>4, SharedType
  <2> QED BY <2>1, <2>2, <2>3, <2>4
<1>7. ASSUME NEW i \in DOMAIN rows
      PROVE  RowWashedOnce(A, s, rows, claims, i)
  <2>1. RowWashedOnce(A, s, rows, m.rows, i)
    BY <1>1, <1>2, <1>3, AdjustedByClaims
  <2> QED BY <1>3, <2>1
<1> QED BY <1>6, <1>7 DEF WashedOnce

(* A share bought replaces at most one share sold, a row is washed at most *)
(* once, and the form adds back what the detector disallowed on it.        *)
THEOREM LedgerWashesOnce == LedgerSpec => []WashSalesCountOnce
<1>1. Init => LedgerInv /\ ChainInv
  BY InitLedger, InitChains
<1>2. LedgerInv /\ ChainInv /\ [RecordNext]_ledgerVars => (LedgerInv /\ ChainInv)'
  BY StepLedger, StepChains
<1>3. LedgerInv /\ ChainInv => WashSalesCountOnce
  <2>1. SUFFICES ASSUME LedgerInv, ChainInv, NEW A \in Scope, NEW s \in Symbol,
                        NEW rows, rows = MatchedPairs(A, s),
                        NEW claims, claims = WashSales(A, s, rows)
                 PROVE  WashedOnce(A, s, rows, claims)
    BY DEF WashSalesCountOnce, WashedOnce, RowWashedOnce
  <2>2. A \in SUBSET Account
    BY DEF Scope
  <2> QED BY <2>1, <2>2, WashSalesCount
<1> QED BY <1>1, <1>2, <1>3, PTL DEF LedgerSpec

--------------------------------------------------------------------------------
(* The gain of a form. *)

(* What the amounts f of some trades are worth. *)
ValueOf(f) == [t \in DOMAIN f |-> f[t] * trades[t].unit]
Value(f, n) == SumOf(ValueOf(f), DOMAIN f, n)

(* Amounts of trades of 1..n. *)
Stock(f, n) ==
  /\ n \in Nat /\ DOMAIN f \subseteq 1..n /\ f \in [DOMAIN f -> Nat]
  /\ \A t \in DOMAIN f : trades[t].unit \in Nat

(* less is f without d of the trade x. *)
ValueLess(f, n, x, d, less) ==
  Value(less, n) = Value(f, n) - d * trades[x].unit /\ Value(f, n) \in Int

(* The value of amounts falls by what is taken.                            *)
LEMMA ValueTaken ==
  ASSUME NEW f, NEW n, Stock(f, n), NEW x \in DOMAIN f, NEW d \in Nat, NEW less,
         less \in [DOMAIN f -> Nat], less[x] = f[x] - d,
         \A y \in DOMAIN f : y # x => less[y] = f[y]
  PROVE  ValueLess(f, n, x, d, less)
<1>1. /\ n \in Nat /\ x \in 1..n /\ DOMAIN less = DOMAIN f /\ f[x] \in Nat /\ less[x] \in Nat
      /\ trades[x].unit \in Nat
  BY DEF Stock
<1>2. \A y \in DOMAIN f : f[y] * trades[y].unit \in Nat
  BY DEF Stock
<1>3. PICK v, w : v = ValueOf(f) /\ w = ValueOf(less)
  OBVIOUS
<1>4. Whole(v, DOMAIN f) /\ Amounts(v, DOMAIN f)
  BY <1>2, <1>3 DEF Whole, Amounts, ValueOf
<1>5. PICK e : e = d * trades[x].unit
  OBVIOUS
<1>6. e \in Int /\ w[x] = v[x] - e
  <2>1. v[x] = f[x] * trades[x].unit /\ w[x] = less[x] * trades[x].unit
    BY <1>1, <1>3 DEF ValueOf
  <2>2. PICK a, u : a = f[x] /\ u = trades[x].unit
    OBVIOUS
  <2>3. a \in Nat /\ u \in Nat
    BY <1>1, <2>2
  <2>4. (a - d) * u = a * u - d * u
    BY <2>3
  <2> QED BY <1>5, <2>1, <2>2, <2>3, <2>4
<1>7. \A y \in DOMAIN f : y # x => w[y] = v[y]
  BY <1>1, <1>3 DEF ValueOf
<1>8. SumOf(w, DOMAIN f, n) = SumOf(v, DOMAIN f, n) - e
  BY <1>1, <1>4, <1>6, <1>7, TotalLess
<1>9. SumOf(v, DOMAIN f, n) \in Int
  BY <1>1, <1>4, TotalType
<1>10. Value(less, n) = SumOf(w, DOMAIN f, n) /\ Value(f, n) = SumOf(v, DOMAIN f, n)
  BY <1>1, <1>3 DEF Value
<1> QED BY <1>5, <1>8, <1>9, <1>10 DEF ValueLess

(* A row more adds its gain.                                               *)
LEMMA GainMore ==
  ASSUME NEW rows, NEW n, rows \in Seq(ShareRow), NEW row,
         \A i \in DOMAIN rows : Gain(rows[i]) \in Int, Gain(row) \in Int, NEW more, more = Append(rows, row)
  PROVE  TotalGain(more) = TotalGain(rows) + Gain(row) /\ TotalGain(rows) \in Int
<1> DEFINE m == Len(rows)
<1> DEFINE f == [i \in DOMAIN rows |-> Gain(rows[i])]
<1> DEFINE g == [i \in DOMAIN more |-> Gain(more[i])]
<1>1. /\ m \in Nat /\ DOMAIN rows = 1..m /\ DOMAIN more = 1..(m + 1) /\ Len(more) = m + 1
      /\ more[m + 1] = row /\ \A i \in 1..m : more[i] = rows[i]
  OBVIOUS
<1> HIDE DEF m
<1>2. \A i \in 1..m : g[i] = f[i]
  BY <1>1
<1>3. Whole(f, 1..m) /\ g[m + 1] = Gain(row)
  BY <1>1 DEF Whole
<1>4. 1..(m + 1) = 1..m \cup {m + 1} /\ m + 1 \in 1..(m + 1)
  BY <1>1, OneMorePlace
<1>5. TotalGain(rows) = SumOf(f, 1..m, m) /\ TotalGain(more) = SumOf(g, 1..(m + 1), m + 1)
  <2>1. TotalGain(rows) = SumOf(f, DOMAIN rows, Len(rows)) /\ TotalGain(more) = SumOf(g, DOMAIN more, Len(more))
    BY DEF TotalGain
  <2> HIDE DEF f, g
  <2>2. Len(rows) = m
    BY DEF m
  <2> QED BY ONLY <1>1, <2>1, <2>2
<1> HIDE DEF f, g
<1>6. PICK S, T : S = 1..m /\ T = 1..(m + 1)
  OBVIOUS
<1>7. SumOf(g, T, m + 1) = SumOf(f, S, m) + g[m + 1]
  <2>1. Extends(f, S, m, g, T) /\ m + 1 \in T
    BY <1>1, <1>2, <1>3, <1>4, <1>6 DEF Extends
  <2>2. SumOf(g, T, m + 1) = SumOf(f, S, m) + (IF m + 1 \in T THEN g[m + 1] ELSE 0)
    BY ONLY <2>1, TotalAppended
  <2> QED BY <2>1, <2>2
<1>8. SumOf(f, 1..m, m) \in Int
  BY <1>1, <1>3, TotalType
<1> QED BY <1>3, <1>5, <1>6, <1>7, <1>8

(* The rows gained what the takers got for their shares less what the BUYs *)
(* had paid for theirs.                                                    *)
GainBooks(o, n, m) ==
  TotalGain(m.rows) = (Value(o.wanted, n) - Value(m.wanted, n)) - (Value(o.left, n) - Value(m.left, n))

Priced(o, n) == Stock(o.left, n) /\ Stock(o.wanted, n)

(* The gain of a row is a number.                                          *)
LEMMA GainType ==
  ASSUME NEW o, NEW n, Priced(o, n), NEW row \in OfferRow(o)
  PROVE  Gain(row) \in Int
<1>1. trades[row.taker].unit \in Nat /\ trades[row.buy].unit \in Nat /\ row.qty \in Nat
  BY DEF Priced, Stock, OfferRow
<1> QED BY <1>1 DEF Gain

(* Rows of what is left are worth what they are.                           *)
LEMMA StockLeft ==
  ASSUME NEW f, NEW n, Stock(f, n), NEW g \in [DOMAIN f -> Nat]
  PROVE  Stock(g, n) /\ Value(g, n) \in Int
<1>1. Stock(g, n) /\ DOMAIN g = DOMAIN f
  BY DEF Stock
<1>2. Whole(ValueOf(g), DOMAIN g) /\ n \in Nat
  BY <1>1 DEF Stock, ValueOf, Whole
<1>3. SumOf(ValueOf(g), DOMAIN g, n) \in Int
  BY <1>2, TotalType
<1> QED BY <1>1, <1>3 DEF Value

(* Giving shares keeps the gain on the rows.                               *)
LEMMA GiveGains ==
  ASSUME NEW o, NEW n, NEW p, Offering(o, n, p), Priced(o, n), NEW m, Counted(o, m), GainBooks(o, n, m),
         NEW b, NEW c, NEW d, NEW then, Gives(o, m, b, c, d, then)
  PROVE  GainBooks(o, n, then)
<1>1. /\ b \in DOMAIN o.left /\ c \in DOMAIN o.wanted /\ d \in Nat \ {0}
      /\ then.left \in [DOMAIN o.left -> Nat] /\ then.left[b] = m.left[b] - d
      /\ \A x \in DOMAIN o.left : x # b => then.left[x] = m.left[x]
      /\ then.wanted \in [DOMAIN o.wanted -> Nat] /\ then.wanted[c] = m.wanted[c] - d
      /\ \A x \in DOMAIN o.wanted : x # c => then.wanted[x] = m.wanted[x]
      /\ then.rows = Append(m.rows, Row(b, c, d))
  BY DEF Gives
<1>2. /\ m.left \in [DOMAIN o.left -> Nat] /\ m.wanted \in [DOMAIN o.wanted -> Nat]
      /\ m.rows \in Seq(ShareRow) /\ m.rows \in Seq(OfferRow(o))
  BY DEF Counted
<1>3. /\ Stock(m.left, n) /\ Stock(m.wanted, n) /\ Value(m.left, n) \in Int /\ Value(m.wanted, n) \in Int
      /\ Value(o.left, n) \in Int /\ Value(o.wanted, n) \in Int
  <2>1. Stock(o.left, n) /\ Stock(o.wanted, n)
    BY DEF Priced
  <2>2. o.left \in [DOMAIN o.left -> Nat] /\ o.wanted \in [DOMAIN o.wanted -> Nat]
    BY DEF Offering
  <2> QED BY <1>2, <2>1, <2>2, StockLeft
<1>4. ValueLess(m.left, n, b, d, then.left)
  <2>1. DOMAIN m.left = DOMAIN o.left /\ d \in Nat
    BY <1>1, <1>2
  <2> QED BY <1>1, <1>3, <2>1, ValueTaken
<1>5. ValueLess(m.wanted, n, c, d, then.wanted)
  <2>1. DOMAIN m.wanted = DOMAIN o.wanted /\ d \in Nat
    BY <1>1, <1>2
  <2> QED BY <1>1, <1>3, <2>1, ValueTaken
<1>6. PICK row : row = Row(b, c, d)
  OBVIOUS
<1>7. row \in OfferRow(o) /\ row.buy = b /\ row.taker = c /\ row.qty = d
  BY <1>1, <1>6 DEF Row, OfferRow
<1>8. TotalGain(then.rows) = TotalGain(m.rows) + Gain(row) /\ TotalGain(m.rows) \in Int
  <2>1. \A i \in DOMAIN m.rows : Gain(m.rows[i]) \in Int
    <3>1. \A i \in DOMAIN m.rows : m.rows[i] \in OfferRow(o)
      BY <1>2, ElementOfSeq
    <3> QED BY <3>1, GainType
  <2>2. Gain(row) \in Int
    BY <1>7, GainType
  <2>3. PICK rows, more : rows = m.rows /\ more = then.rows
    OBVIOUS
  <2>4. rows \in Seq(ShareRow) /\ more = Append(rows, row) /\ \A i \in DOMAIN rows : Gain(rows[i]) \in Int
    BY <1>1, <1>2, <1>6, <2>1, <2>3
  <2>5. TotalGain(more) = TotalGain(rows) + Gain(row) /\ TotalGain(rows) \in Int
    BY ONLY <2>2, <2>4, GainMore
  <2> QED BY <2>3, <2>5
<1>9. PICK u, v : u = trades[c].unit /\ v = trades[b].unit
  OBVIOUS
<1>10. u \in Nat /\ v \in Nat
  BY <1>1, <1>9 DEF Priced, Stock
<1>11. Gain(row) = d * u - d * v /\ d * u \in Int /\ d * v \in Int
  <2>1. Gain(row) = d * (u - v)
    BY <1>7, <1>9 DEF Gain
  <2>2. d * (u - v) = d * u - d * v
    BY <1>1, <1>10
  <2> QED BY <1>1, <1>10, <2>1, <2>2
<1>12. /\ Value(then.left, n) = Value(m.left, n) - d * v
       /\ Value(then.wanted, n) = Value(m.wanted, n) - d * u
  BY <1>4, <1>5, <1>9 DEF ValueLess
<1>13. TotalGain(m.rows) = (Value(o.wanted, n) - Value(m.wanted, n)) - (Value(o.left, n) - Value(m.left, n))
  BY DEF GainBooks
<1>14. PICK x, y : x = d * u /\ y = d * v /\ x \in Int /\ y \in Int
  BY <1>11
<1>15. TotalGain(then.rows)
         = (Value(o.wanted, n) - Value(then.wanted, n)) - (Value(o.left, n) - Value(then.left, n))
  <2>1. TotalGain(then.rows) = TotalGain(m.rows) + (x - y)
    BY <1>8, <1>11, <1>14
  <2>2. Value(then.left, n) = Value(m.left, n) - y /\ Value(then.wanted, n) = Value(m.wanted, n) - x
    BY <1>12, <1>14
  <2> QED BY ONLY <1>3, <1>8, <1>13, <1>14, <2>1, <2>2
<1> QED BY <1>15 DEF GainBooks

(* The gain of every list of rows that drains an offer.                    *)
LEMMA DrainedGains ==
  ASSUME NEW o, NEW n, NEW p, Offering(o, n, p), Priced(o, n)
  PROVE  \A k \in Nat : GainBooks(o, n, Drained(o)[k])
<1> DEFINE S == {k \in Nat : GainBooks(o, n, Drained(o)[k])}
<1>1. 0 \in S
  <2>1. Drained(o)[0] = Start(o)
    BY DrainedRounds
  <2>2. TotalGain(<<>>) = 0
    <3>1. DOMAIN <<>> = {} /\ Len(<<>>) \in Nat
      OBVIOUS
    <3> QED BY <3>1, TotalOfNone DEF TotalGain
  <2>3. Value(o.left, n) \in Int /\ Value(o.wanted, n) \in Int
    <3>1. o.left \in [DOMAIN o.left -> Nat] /\ o.wanted \in [DOMAIN o.wanted -> Nat]
      BY DEF Offering
    <3> QED BY <3>1, StockLeft DEF Priced
  <2>4. GainBooks(o, n, Start(o))
    BY <2>2, <2>3 DEF GainBooks, Start
  <2> QED BY <2>1, <2>4
<1>2. ASSUME NEW k \in Nat, k \in S PROVE k + 1 \in S
  <2>1. PICK m : m = Drained(o)[k]
    OBVIOUS
  <2>2. Counted(o, m) /\ GainBooks(o, n, m) /\ Drained(o)[k + 1] = Round(o, m)
    BY <1>2, <2>1, DrainedRounds, DrainedKeeps
  <2>3. GainBooks(o, n, Round(o, m))
    <3>1. CASE Waiting(o, m) = {}
      BY <2>2, <3>1 DEF Round
    <3>2. CASE Waiting(o, m) # {}
      <4>1. PICK b, c, d : Gives(o, m, b, c, d, Round(o, m))
        BY <2>2, <3>2, RoundGives
      <4> QED BY <2>2, <4>1, GiveGains
    <3> QED BY <3>1, <3>2
  <2> QED BY <2>2, <2>3
<1> HIDE DEF S
<1>3. Nat \subseteq S
  BY <1>1, <1>2, SetInduction
<1> QED BY <1>3 DEF S

--------------------------------------------------------------------------------
(* The gain of a form and that of the ledger. *)

(* g at S is f at the places p of T, each at most once, and the rest of f  *)
(* is 0.                                                                   *)
Carried(g, S, m, p, f, T, n) ==
  /\ m \in Nat /\ n \in Nat /\ S \subseteq 1..m /\ T \subseteq 1..n /\ Whole(f, T)
  /\ \A l \in S : p[l] \in T /\ g[l] = f[p[l]]
  /\ \A l, j \in S : p[l] = p[j] => l = j
  /\ \A t \in T : (\A l \in S : p[l] # t) => f[t] = 0

(* Then they come to the same.                                             *)
LEMMA TotalCarried ==
  ASSUME NEW g, NEW S, NEW m, NEW p, NEW f, NEW T, NEW n, Carried(g, S, m, p, f, T, n)
  PROVE  SumOf(g, S, m) = SumOf(f, T, n)
<1>1. /\ m \in Nat /\ n \in Nat /\ S \subseteq 1..m /\ T \subseteq 1..n /\ \A t \in T : f[t] \in Int
      /\ \A l \in S : p[l] \in T /\ g[l] = f[p[l]]
      /\ \A l, j \in S : p[l] = p[j] => l = j
  BY DEF Carried, Whole
<1>2. PICK A : A = [j \in Nat |-> {l \in S : l <= j}]
  OBVIOUS
<1>3. PICK B : B = [j \in Nat |-> {t \in T : \E l \in A[j] : t = p[l]}]
  OBVIOUS
<1>4. \A j \in Nat : /\ \A l : l \in A[j] <=> l \in S /\ l <= j
                     /\ \A t : t \in B[j] <=> t \in T /\ \E l \in S : l <= j /\ t = p[l]
  BY <1>2, <1>3
<1> DEFINE I == {j \in Nat : SumOf(g, A[j], m) = SumOf(f, B[j], n)}
<1>5. 0 \in I
  <2>1. \A l \in S : ~ (l <= 0)
    BY <1>1
  <2>2. A[0] = {} /\ B[0] = {}
    <3>1. /\ \A l : l \in A[0] <=> l \in S /\ l <= 0
          /\ \A t : t \in B[0] <=> t \in T /\ \E l \in S : l <= 0 /\ t = p[l]
      BY <1>4
    <3> QED BY ONLY <2>1, <3>1
  <2>3. SumOf(g, {}, m) = 0 /\ SumOf(f, {}, n) = 0
    BY <1>1, TotalOfNone
  <2> QED BY <2>2, <2>3
<1>6. ASSUME NEW j \in Nat, j \in I PROVE j + 1 \in I
  <2>0. /\ \A l \in S : l \in Nat /\ (l <= j + 1 <=> l <= j \/ l = j + 1)
        /\ j + 1 \in Nat /\ ~ (j + 1 <= j)
    BY <1>1
  <2>1. CASE j + 1 \in S
    <3>1. PICK C, D, l, t : C = A[j] /\ D = B[j] /\ l = j + 1 /\ t = p[l]
      OBVIOUS
    <3>2. l \in S /\ l \notin C /\ l \in 1..m /\ t \in T /\ t \in 1..n /\ g[l] = f[t]
      BY <1>1, <1>4, <2>0, <2>1, <3>1
    <3>3. A[j + 1] = C \cup {l}
      BY <1>4, <2>0, <2>1, <3>1
    <3>4. B[j + 1] = D \cup {t}
      <4>1. \A x : x \in B[j + 1] <=> x \in T /\ \E y \in S : y <= j + 1 /\ x = p[y]
        BY <1>4, <2>0
      <4>2. \A x : x \in D <=> x \in T /\ \E y \in S : y <= j /\ x = p[y]
        BY <1>4, <3>1
      <4>3. \A x : x \in B[j + 1] <=> x \in D \/ x = t
        BY ONLY <2>0, <3>1, <3>2, <4>1, <4>2
      <4> QED BY <4>3
    <3>5. t \notin D
      <4>1. \A y \in S : y <= j => y # l
        BY <2>0, <3>1
      <4> QED BY <1>1, <1>4, <3>1, <3>2, <4>1
    <3>6. Whole(g, C \cup {l}) /\ Whole(f, D \cup {t})
      <4>1. C \cup {l} \subseteq S /\ D \cup {t} \subseteq T
        BY <1>4, <3>1, <3>2
      <4> QED BY <1>1, <4>1 DEF Whole
    <3>7. SumOf(g, C, m) = SumOf(f, D, n)
      BY <1>6, <3>1
    <3> HIDE DEF I
    <3>8. SumOf(g, C \cup {l}, m) = SumOf(g, C, m) + g[l]
      BY <1>1, <3>2, <3>6, TotalWith
    <3>9. SumOf(f, D \cup {t}, n) = SumOf(f, D, n) + f[t]
      BY <1>1, <3>2, <3>5, <3>6, TotalWith
    <3>10. SumOf(g, A[j + 1], m) = SumOf(f, B[j + 1], n)
      BY <3>2, <3>3, <3>4, <3>7, <3>8, <3>9
    <3> QED BY <2>0, <3>10 DEF I
  <2>2. CASE j + 1 \notin S
    <3>1. A[j + 1] = A[j] /\ B[j + 1] = B[j]
      <4>1. \A y \in S : y <= j + 1 <=> y <= j
        BY <2>0, <2>2
      <4>2. /\ \A l : l \in A[j + 1] <=> l \in S /\ l <= j + 1
            /\ \A t : t \in B[j + 1] <=> t \in T /\ \E l \in S : l <= j + 1 /\ t = p[l]
            /\ \A l : l \in A[j] <=> l \in S /\ l <= j
            /\ \A t : t \in B[j] <=> t \in T /\ \E l \in S : l <= j /\ t = p[l]
        BY <1>4, <2>0
      <4>3. /\ \A l : l \in A[j + 1] <=> l \in A[j]
            /\ \A t : t \in B[j + 1] <=> t \in B[j]
        BY ONLY <4>1, <4>2
      <4>4. PICK C, D, E, F : C = A[j + 1] /\ D = A[j] /\ E = B[j + 1] /\ F = B[j]
        OBVIOUS
      <4>5. C = D /\ E = F
        BY ONLY <4>3, <4>4
      <4> QED BY <4>4, <4>5
    <3> QED BY <1>6, <2>0, <3>1
  <2> QED BY <2>1, <2>2
<1>7. m \in I
  <2> HIDE DEF I
  <2> QED BY <1>1, <1>5, <1>6, SetInduction
<1>8. A[m] = S
  <2>1. \A l \in S : l <= m
    BY <1>1
  <2> QED BY <1>1, <1>4, <2>1
<1>9. Only(f, B[m]) = Only(f, T)
  <2>1. B[m] \subseteq T /\ \A t \in T : t \notin B[m] => \A l \in S : p[l] # t
    BY <1>1, <1>4, <1>8
  <2>2. \A t \in T : t \notin B[m] => f[t] = 0
    BY <2>1 DEF Carried
  <2>3. \A t \in Nat : (IF t \in B[m] THEN f[t] ELSE 0) = (IF t \in T THEN f[t] ELSE 0)
    BY <2>1, <2>2
  <2> QED BY <2>3 DEF Only
<1>10. SumOf(g, A[m], m) = SumOf(f, B[m], n)
  BY <1>7
<1> HIDE DEF I
<1> QED BY <1>8, <1>9, <1>10 DEF SumOf

(* Nothing from m on adds nothing.                                         *)
LEMMA SumRests ==
  ASSUME NEW f \in [Nat -> Int], NEW m \in Nat, NEW n \in Nat, m <= n,
         \A i \in (m + 1)..n : f[i] = 0
  PROVE  RunningSum(f)[n] = RunningSum(f)[m]
<1> DEFINE F == RunningSum(f)
<1> DEFINE S == {j \in Nat : j >= m /\ j <= n => F[j] = F[m]}
<1>1. F \in [Nat -> Int] /\ F[0] = 0 /\ \A j \in Nat : F[j + 1] = F[j] + f[j + 1]
  BY RunningSumDef
<1> HIDE DEF F
<1>2. 0 \in S
  OBVIOUS
<1>3. ASSUME NEW j \in Nat, j \in S PROVE j + 1 \in S
  <2>1. CASE j + 1 >= m + 1 /\ j + 1 <= n
    <3>1. f[j + 1] = 0 /\ F[j] = F[m] /\ F[j + 1] = F[j] + f[j + 1] /\ F[j] \in Int
      BY <1>1, <1>3, <2>1
    <3> QED BY <3>1
  <2>2. CASE ~ (j + 1 >= m + 1 /\ j + 1 <= n)
    <3>1. j + 1 >= m /\ j + 1 <= n => j + 1 = m
      BY <2>2
    <3> QED BY <3>1
  <2> QED BY <2>1, <2>2
<1>4. n \in S
  <2> HIDE DEF S
  <2> QED BY <1>2, <1>3, SetInduction
<1> QED BY <1>4 DEF F

(* In a position recorded in order, what lies before a BUY is what was     *)
(* recorded before it.                                                     *)
LEMMA BeforeInOrder ==
  ASSUME LedgerInv, NEW a, NEW s, RecordedInOrder(<<a, s>>), NEW t \in TradesIn({a}, s, "BUY")
  PROVE  Before(t, TradesIn({a}, s, "BUY")) = Bought(trades, <<a, s>>)[t - 1]
<1>1. PICK k, buys : k = <<a, s>> /\ buys = TradesIn({a}, s, "BUY")
  OBVIOUS
<1>2. /\ tradeSeq \in Nat /\ buys \subseteq 1..tradeSeq /\ t \in 1..tradeSeq
      /\ \A u \in buys : u \in Nat /\ trades[u].qty \in Nat /\ trades[u].date \in Nat
  <2>1. buys \in SUBSET DOMAIN trades
    BY <1>1, LogTotals
  <2> QED BY <1>1, <2>1, LogTotals
<1>3. \A u : u \in buys <=> u \in DOMAIN trades /\ trades[u].key = k /\ trades[u].action = "BUY"
  <2>1. \A u \in DOMAIN trades : trades[u].key \in {a} \X {s} <=> trades[u].key = <<a, s>>
    OBVIOUS
  <2> QED BY <1>1, <2>1 DEF TradesIn
<1>4. t \in buys
  BY <1>1
<1> DEFINE sooner == {u \in buys : u # t /\ NotLater(u, t)}
<1>5. \A u \in buys : (u # t /\ NotLater(u, t)) <=> u <= t - 1
  <2>1. SUFFICES ASSUME NEW u \in buys PROVE (u # t /\ NotLater(u, t)) <=> u <= t - 1
    OBVIOUS
  <2>2. /\ u <= t => trades[u].date <= trades[t].date
        /\ t <= u => trades[t].date <= trades[u].date
    BY <1>1, <1>3, <1>4 DEF RecordedInOrder
  <2>3. u \in Nat /\ t \in Nat /\ trades[u].date \in Nat /\ trades[t].date \in Nat
    BY <1>2, <1>4
  <2> QED BY <2>2, <2>3 DEF NotLater
<1>6. \A u : u \in sooner <=> u \in buys /\ u <= t - 1
  BY <1>5
<1>7. Before(t, buys) = TotalQty(sooner)
  BY DEF Before
<1> HIDE DEF sooner
<1> DEFINE f == Only(Quantity, sooner)
<1> DEFINE g == QtyOf(trades, k, "BUY")
<1>8. f \in [Nat -> Int] /\ g \in [Nat -> Int]
  <2>1. f \in [Nat -> Int]
    <3>1. \A u \in sooner : Quantity[u] \in Nat
      BY <1>2, <1>3, <1>6 DEF Quantity
    <3> QED BY <3>1 DEF Only
  <2>2. LogTable(trades, tradeSeq)
    BY DEF LedgerInv, TypeOK, LogTable
  <2> QED BY <1>2, <2>1, <2>2, QtyColumn
<1>9. t - 1 \in Nat /\ t - 1 <= tradeSeq /\ \A i \in (t - 1 + 1)..tradeSeq : f[i] = 0
  <2>1. \A i \in (t - 1 + 1)..tradeSeq : i \in Nat /\ ~ (i <= t - 1)
    BY <1>2
  <2> QED BY <1>2, <1>6, <2>1 DEF Only
<1>10. \A i \in 1..(t - 1) : f[i] = g[i]
  <2>1. SUFFICES ASSUME NEW i \in 1..(t - 1) PROVE f[i] = g[i]
    OBVIOUS
  <2>2. i \in Nat /\ (i \in sooner <=> i \in buys)
    BY <1>2, <1>6
  <2>3. f[i] = IF i \in buys THEN Quantity[i] ELSE 0
    BY <2>2 DEF Only
  <2>4. g[i] = IF i \in buys THEN trades[i].qty ELSE 0
    BY <1>3, <2>2 DEF QtyOf
  <2>5. i \in buys => Quantity[i] = trades[i].qty
    BY <1>3 DEF Quantity
  <2> QED BY <2>3, <2>4, <2>5
<1>11. TotalQty(sooner) = RunningSum(f)[tradeSeq]
  BY DEF TotalQty, SumOf
<1> HIDE DEF f, g
<1>12. RunningSum(f)[tradeSeq] = RunningSum(f)[t - 1]
  <2>1. PICK u \in Nat : u = t - 1
    BY <1>9
  <2>2. u <= tradeSeq /\ \A i \in (u + 1)..tradeSeq : f[i] = 0
    BY <1>9, <2>1
  <2>3. RunningSum(f)[tradeSeq] = RunningSum(f)[u]
    BY ONLY <1>2, <1>8, <2>2, u \in Nat, SumRests
  <2> QED BY <2>1, <2>3
<1>13. RunningSum(f)[t - 1] = RunningSum(g)[t - 1]
  <2>1. PICK u \in Nat : u = t - 1
    BY <1>9
  <2>2. \A i \in 1..u : f[i] = g[i]
    BY <1>10, <2>1
  <2>3. RunningSum(f)[u] = RunningSum(g)[u]
    BY ONLY <1>8, <2>2, u \in Nat, SumEqual
  <2> QED BY <2>1, <2>3
<1> QED BY <1>1, <1>7, <1>11, <1>12, <1>13 DEF Bought, g

(* What the form leaves of a BUY is what the ledger leaves of its lot.     *)
LEMMA FormLeavesLot ==
  ASSUME LedgerInv, ChainInv, NEW a \in Account, NEW s \in Symbol, RecordedInOrder(<<a, s>>),
         NEW o, o = Form({a}, s), NEW m,
         FormBooks(o, tradeSeq, TotalQty(TradesIn({a}, s, "SELL")), m),
         NEW l \in DOMAIN lots, lots[l].key = <<a, s>>
  PROVE  /\ lots[l].trade \in TradesIn({a}, s, "BUY")
         /\ m.left[lots[l].trade] = lots[l].remaining
<1>1. PICK k, t, buys, all : /\ k = <<a, s>> /\ t = lots[l].trade /\ buys = TradesIn({a}, s, "BUY")
                             /\ all = TotalQty(TradesIn({a}, s, "SELL"))
  OBVIOUS
<1>2. /\ tradeSeq \in Nat /\ LogTable(trades, tradeSeq) /\ DOMAIN trades \subseteq 1..tradeSeq
      /\ k \in Key
  BY <1>1 DEF LedgerInv, TypeOK, LogTable, Key
<1>3. t \in DOMAIN trades /\ trades[t].key = k /\ trades[t].action = "BUY"
  BY <1>1 DEF ChainInv, LotOf
<1>4. t \in buys /\ t \in 1..tradeSeq
  <2>1. trades[t].key \in {a} \X {s}
    BY <1>1, <1>3
  <2> QED BY <1>1, <1>2, <1>3, <2>1 DEF TradesIn
<1>5. PICK b, q : b = Before(t, buys) /\ q = trades[t].qty
  OBVIOUS
<1>6. /\ DOMAIN o.left = buys /\ o.left = QuantityOf(buys) /\ o.buyDay = Day
      /\ m.left \in [buys -> Nat]
  <2>1. DOMAIN o.left = buys /\ o.left = QuantityOf(buys) /\ o.buyDay = Day
    BY <1>1, FormLines
  <2> QED BY <2>1 DEF FormBooks, Placed
<1>7. /\ b = Ahead(o.left, o.buyDay, t, tradeSeq) /\ b \in Nat /\ q = o.left[t] /\ q \in Nat
  <2>1. buys \in SUBSET DOMAIN trades
    BY <1>1, LogTotals
  <2> QED BY <1>4, <1>5, <1>6, <2>1, BeforeIs
<1>8. q - m.left[t] = Smaller(q, Rest(all - b)) /\ m.left[t] \in Nat /\ all \in Nat
  <2>1. o.left[t] - m.left[t] = Smaller(o.left[t], Rest(all - Ahead(o.left, o.buyDay, t, tradeSeq)))
    BY <1>1, <1>4, <1>6 DEF FormBooks, Placed
  <2>2. all \in Nat
    BY <1>1, LogTotals
  <2> QED BY <1>4, <1>6, <1>7, <2>1, <2>2
<1>9. /\ BuyColumn(k) = QtyOf(trades, k, "BUY") /\ SellColumn(k) = QtyOf(trades, k, "SELL")
  BY DEF BuyColumn, SellColumn, QtyOf
<1>10. all = Sold(k)
  <2>1. all = RunningSum(QtyOf(trades, <<a, s>>, "SELL"))[tradeSeq]
    BY <1>1, TotalOfKey
  <2> QED BY <1>1, <1>9, <2>1 DEF Sold
<1>11. RunningSum(BuyColumn(k))[t] = b + q /\ BuyColumn(k)[t] = q
  <2>1. b = Bought(trades, k)[t - 1]
    BY <1>1, <1>4, <1>5, BeforeInOrder
  <2>2. BuyColumn(k) \in [Nat -> Nat]
    BY <1>2, <1>9, QtyColumn
  <2>3. BuyColumn(k)[t] = q
    BY <1>2, <1>3, <1>4, <1>5 DEF BuyColumn
  <2>4. PICK u \in Nat : u = t - 1 /\ u + 1 = t
    BY <1>4
  <2>5. RunningSum(BuyColumn(k))[u + 1] = RunningSum(BuyColumn(k))[u] + BuyColumn(k)[u + 1]
    BY <2>2, SumNatural
  <2> QED BY <1>9, <2>1, <2>3, <2>4, <2>5 DEF Bought
<1>12. lots[l].remaining = LeftAfter(BuyColumn(k), Sold(k), t)
  BY <1>1, ChainsTell
<1>13. lots[l].remaining = IF b + q - all <= 0 THEN 0 ELSE Smaller(b + q - all, q)
  <2>1. PICK c : c = BuyColumn(k)
    OBVIOUS
  <2>2. LeftAfter(c, all, t) = IF RunningSum(c)[t] - all <= 0 THEN 0
                                                            ELSE Smaller(RunningSum(c)[t] - all, c[t])
    BY DEF LeftAfter
  <2>3. RunningSum(c)[t] = b + q /\ c[t] = q
    BY <1>11, <2>1
  <2>4. LeftAfter(c, all, t) = IF b + q - all <= 0 THEN 0 ELSE Smaller(b + q - all, q)
    <3>1. b \in Nat /\ q \in Nat /\ all \in Nat
      BY <1>7, <1>8
    <3> QED BY ONLY <2>2, <2>3, <3>1
  <2> QED BY <1>10, <1>12, <2>1, <2>4
<1>14. m.left[t] = IF b + q - all <= 0 THEN 0 ELSE Smaller(b + q - all, q)
  <2>1. PICK x : x = m.left[t]
    OBVIOUS
  <2>2. q - x = Smaller(q, Rest(all - b)) /\ x \in Nat /\ all \in Nat /\ b \in Nat /\ q \in Nat
    BY <1>7, <1>8, <2>1
  <2>3. x = IF b + q - all <= 0 THEN 0 ELSE Smaller(b + q - all, q)
    BY ONLY <2>2 DEF Smaller, Rest
  <2> QED BY <2>1, <2>3
<1> QED BY <1>1, <1>4, <1>13, <1>14

(* Two open lots of a key are not of one BUY.                              *)
LEMMA LotsApart ==
  ASSUME LedgerInv, ChainInv, NEW k \in Key, NEW l \in OpenLots(lots, k), NEW j \in OpenLots(lots, k),
         l < j
  PROVE  lots[l].trade # lots[j].trade
<1>1. /\ tradeSeq \in Nat /\ lotSeq \in Nat /\ LotTable(lots, lotSeq)
      /\ l \in DOMAIN lots /\ j \in DOMAIN lots /\ lots[l].key = k /\ lots[j].key = k
      /\ l \in Nat \ {0} /\ j \in Nat \ {0}
  BY DEF LedgerInv, TypeOK, LotTable, OpenLots
<1>2. SUFFICES ASSUME lots[l].trade = lots[j].trade PROVE FALSE
  OBVIOUS
<1> DEFINE Q == RunningSum(Queue(lots, k))
<1>3. Q[l - 1] = Q[j - 1] /\ Q[l] = Q[j]
  <2>1. PICK t, sold : t = lots[l].trade /\ sold = SoldOf(trades, k)[tradeSeq]
    OBVIOUS
  <2>2. /\ Q[l] = Rest(Bought(trades, k)[t] - sold) /\ Q[l - 1] = Rest(Bought(trades, k)[t - 1] - sold)
        /\ Q[j] = Rest(Bought(trades, k)[t] - sold) /\ Q[j - 1] = Rest(Bought(trades, k)[t - 1] - sold)
    BY <1>1, <1>2, <2>1 DEF ChainInv, Chain
  <2> QED BY <2>2
<1>4. Queue(lots, k) \in [Nat -> Nat] /\ Queue(lots, k)[l] = lots[l].remaining
  <2>1. Queue(lots, k) \in [Nat -> Nat]
    BY <1>1, LotColumns
  <2> QED BY <1>1, <2>1 DEF Queue
<1>5. lots[l].remaining > 0
  <2>1. lots[l].remaining \in Nat
    BY <1>1 DEF LotTable, LotRow
  <2>2. ~ lots[l].exhausted
    BY DEF OpenLots
  <2>3. LotOf(lots[l], trades)
    BY <1>1 DEF ChainInv
  <2>4. lots[l].remaining # 0
    BY <2>2, <2>3, Zenon DEF LotOf
  <2> QED BY <2>1, <2>4
<1>6. PICK i \in Nat, h \in Nat : i = l - 1 /\ h = j - 1 /\ i + 1 = l
  BY <1>1
<1>7. /\ Q \in [Nat -> Nat] /\ \A x \in Nat : Q[x + 1] = Q[x] + Queue(lots, k)[x + 1]
      /\ \A x, y \in Nat : x <= y => Q[x] <= Q[y]
  BY <1>4, SumNatural
<1> HIDE DEF Q
<1>8. Q[l] = Q[i] + lots[l].remaining /\ Q[l] <= Q[h] /\ Q[i] = Q[h] /\ Q[i] \in Nat
  <2>1. l <= h
    BY <1>1, <1>6
  <2> QED BY <1>1, <1>3, <1>4, <1>6, <1>7, <2>1
<1>9. lots[l].remaining \in Nat
  BY <1>1 DEF LotTable, LotRow
<1> QED BY <1>5, <1>8, <1>9

(* What the form leaves of the BUYs costs what the open lots cost.         *)
LEMMA LeftIsBasis ==
  ASSUME LedgerInv, ChainInv, NEW a \in Account, NEW s \in Symbol, RecordedInOrder(<<a, s>>),
         NEW o, o = Form({a}, s), NEW m,
         FormBooks(o, tradeSeq, TotalQty(TradesIn({a}, s, "SELL")), m)
  PROVE  Value(m.left, tradeSeq) = RunningSum(Basis(lots, <<a, s>>))[lotSeq]
<1>1. PICK k, buys : k = <<a, s>> /\ buys = TradesIn({a}, s, "BUY")
  OBVIOUS
<1>2. /\ tradeSeq \in Nat /\ lotSeq \in Nat /\ LotTable(lots, lotSeq) /\ k \in Key
      /\ DOMAIN lots \subseteq 1..lotSeq
  BY <1>1 DEF LedgerInv, TypeOK, LotTable, Key
<1>3. m.left \in [buys -> Nat] /\ buys \subseteq 1..tradeSeq
  <2>1. DOMAIN o.left = buys
    BY <1>1, FormLines
  <2>2. buys \in SUBSET DOMAIN trades
    BY <1>1, LogTotals
  <2> QED BY <2>1, <2>2, LogTotals DEF FormBooks, Placed
<1>4. \A l \in DOMAIN lots : lots[l].key = k =>
        lots[l].trade \in buys /\ m.left[lots[l].trade] = lots[l].remaining
  BY <1>1, FormLeavesLot
<1>5. \A l \in DOMAIN lots : /\ lots[l].cost = trades[lots[l].trade].unit
                             /\ lots[l].exhausted => lots[l].remaining = 0
                             /\ lots[l].trade \in DOMAIN trades
                             /\ trades[lots[l].trade].key = lots[l].key
  BY DEF ChainInv, LotOf
<1> DEFINE open == OpenLots(lots, k)
<1> DEFINE p == [l \in open |-> lots[l].trade]
<1> DEFINE f == ValueOf(m.left)
<1> DEFINE g == Basis(lots, k)
<1>6. \A t \in buys : f[t] = m.left[t] * trades[t].unit
  BY <1>3 DEF ValueOf
<1>7. \A t \in buys : f[t] \in Int
  <2>1. \A t \in buys : m.left[t] \in Nat /\ trades[t].unit \in Nat
    <3>1. \A t \in DOMAIN trades : trades[t].unit \in Nat
      BY LedgerAssumption DEF LedgerInv, TypeOK, TradeRow
    <3> QED BY <1>1, <1>3, <3>1 DEF TradesIn
  <2> QED BY <1>6, <2>1
<1>8. \A l \in open : /\ l \in DOMAIN lots /\ lots[l].key = k /\ l \in 1..lotSeq
                      /\ g[l] = lots[l].remaining * lots[l].cost
  BY <1>2 DEF OpenLots, Basis, Queue, UnitCost
<1>9. \A l \in open : p[l] = lots[l].trade /\ p[l] \in buys /\ g[l] = f[p[l]]
  BY <1>4, <1>5, <1>6, <1>8
<1>10. \A l, j \in open : p[l] = p[j] => l = j
  <2>1. SUFFICES ASSUME NEW l \in open, NEW j \in open, l # j PROVE p[l] # p[j]
    OBVIOUS
  <2>2. l < j \/ j < l
    BY <1>2, <1>8, <2>1
  <2>3. lots[l].trade # lots[j].trade
    BY <1>2, <2>2, LotsApart
  <2> QED BY <1>9, <2>3
<1>11. ASSUME NEW t \in buys, \A l \in open : p[l] # t PROVE f[t] = 0
  <2>1. t \in DOMAIN trades /\ trades[t].action = "BUY" /\ trades[t].key = k
    BY <1>1 DEF TradesIn
  <2>2. PICK l \in DOMAIN lots : lots[l].trade = t
    BY <2>1 DEF ChainInv, Listed
  <2>3. lots[l].key = k
    BY <1>5, <2>1, <2>2
  <2>4. l \notin open
    BY <1>9, <1>11, <2>2
  <2>5. lots[l].exhausted
    BY <2>3, <2>4 DEF OpenLots
  <2>6. m.left[t] = 0
    BY <1>4, <1>5, <2>2, <2>3, <2>5
  <2>7. trades[t].unit \in Nat
    BY <2>1, LedgerAssumption DEF LedgerInv, TypeOK, TradeRow
  <2> QED BY <1>6, <2>6, <2>7
<1>12. Only(g, open) = g
  <2>1. \A l \in Nat : l \notin open => g[l] = 0
    <3>1. \A l \in Nat : l \notin open => Queue(lots, k)[l] = 0 /\ UnitCost(lots, k)[l] = 0
      BY DEF Queue, UnitCost
    <3> QED BY <3>1 DEF Basis
  <2>2. g \in [Nat -> Nat]
    BY <1>2, LotColumns
  <2> HIDE DEF g, open
  <2> QED BY <2>1, <2>2 DEF Only
<1>13. Value(m.left, tradeSeq) = SumOf(f, buys, tradeSeq)
  BY <1>3 DEF Value
<1> HIDE DEF open, p, f, g
<1>14. Carried(g, open, lotSeq, p, f, buys, tradeSeq)
  <2>1. open \subseteq 1..lotSeq
    BY <1>8
  <2>2. Whole(f, buys)
    BY <1>7 DEF Whole
  <2> QED BY <1>2, <1>3, <1>9, <1>10, <1>11, <2>1, <2>2 DEF Carried
<1>15. SumOf(g, open, lotSeq) = SumOf(f, buys, tradeSeq)
  BY <1>14, TotalCarried
<1>16. SumOf(g, open, lotSeq) = RunningSum(g)[lotSeq]
  BY <1>12 DEF SumOf
<1> QED BY <1>1, <1>13, <1>15, <1>16 DEF g

(* The trades of a key are worth what they moved in cash.                  *)
LEMMA CashIs ==
  ASSUME LedgerInv, NEW a, NEW s, NEW o, o = Form({a}, s)
  PROVE  /\ RunningSum(CashOf(trades, <<a, s>>))[tradeSeq] = Value(o.left, tradeSeq) - Value(o.wanted, tradeSeq)
         /\ Value(o.left, tradeSeq) \in Int /\ Value(o.wanted, tradeSeq) \in Int
         /\ Priced(o, tradeSeq)
<1>1. PICK k, buys, sales : /\ k = <<a, s>> /\ buys = TradesIn({a}, s, "BUY")
                            /\ sales = TradesIn({a}, s, "SELL")
  OBVIOUS
<1>2. /\ DOMAIN o.left = buys /\ DOMAIN o.wanted = sales /\ o.left = QuantityOf(buys)
      /\ o.wanted = QuantityOf(sales) /\ Lines(o, tradeSeq)
  BY <1>1, FormLines
<1>3. Priced(o, tradeSeq)
  <2>1. Line(o.left, o.buyDay, tradeSeq) /\ Line(o.wanted, o.takerDay, tradeSeq)
    BY <1>2 DEF Lines
  <2>2. \A t \in DOMAIN trades : trades[t].unit \in Nat
    BY LedgerAssumption DEF LedgerInv, TypeOK, TradeRow
  <2>3. \A t \in buys \cup sales : trades[t].unit \in Nat
    BY <1>1, <2>2 DEF TradesIn
  <2> QED BY <1>2, <2>1, <2>3 DEF Priced, Stock, Line
<1>4. Value(o.left, tradeSeq) \in Int /\ Value(o.wanted, tradeSeq) \in Int
  BY <1>3, StockLeft DEF Priced, Stock
<1>5. \A t \in Nat : /\ t \in buys <=> t \in DOMAIN trades /\ trades[t].key = k /\ trades[t].action = "BUY"
                     /\ t \in sales <=> t \in DOMAIN trades /\ trades[t].key = k /\ trades[t].action = "SELL"
  <2>1. \A u \in DOMAIN trades : trades[u].key \in {a} \X {s} <=> trades[u].key = <<a, s>>
    OBVIOUS
  <2> QED BY <1>1, <2>1 DEF TradesIn
<1>6. \A t \in DOMAIN trades : /\ trades[t].qty \in Nat /\ trades[t].unit \in Nat
                               /\ trades[t].action \in {"BUY", "SELL"}
  BY LedgerAssumption DEF LedgerInv, TypeOK, TradeRow
<1> DEFINE f == Only(ValueOf(o.left), buys)
<1> DEFINE g == Only(ValueOf(o.wanted), sales)
<1> DEFINE h == CashOf(trades, k)
<1>7. f \in [Nat -> Int] /\ g \in [Nat -> Int] /\ tradeSeq \in Nat
  <2>1. Whole(ValueOf(o.left), buys) /\ Whole(ValueOf(o.wanted), sales) /\ tradeSeq \in Nat
    <3>1. /\ tradeSeq \in Nat /\ o.left \in [buys -> Nat] /\ o.wanted \in [sales -> Nat]
          /\ \A t \in buys : trades[t].unit \in Nat
          /\ \A t \in sales : trades[t].unit \in Nat
      BY <1>2, <1>3 DEF Priced, Stock
    <3>2. /\ \A t \in buys : ValueOf(o.left)[t] = o.left[t] * trades[t].unit /\ o.left[t] \in Nat
          /\ \A t \in sales : ValueOf(o.wanted)[t] = o.wanted[t] * trades[t].unit /\ o.wanted[t] \in Nat
      BY <3>1 DEF ValueOf
    <3>3. \A x \in Nat, y \in Nat : x * y \in Int
      OBVIOUS
    <3>4. \A t \in buys : ValueOf(o.left)[t] \in Int
      BY <3>1, <3>2, <3>3
    <3>5. \A t \in sales : ValueOf(o.wanted)[t] \in Int
      BY <3>1, <3>2, <3>3
    <3> QED BY <3>1, <3>4, <3>5 DEF Whole
  <2> QED BY <2>1, TotalType
<1>8. h \in [Nat -> Int]
  <2>1. LogTable(trades, tradeSeq)
    BY DEF LedgerInv, TypeOK, LogTable
  <2> QED BY <1>7, <2>1, CashColumnType
<1>9. \A t \in Nat : h[t] = f[t] - g[t]
  <2>1. SUFFICES ASSUME NEW t \in Nat PROVE h[t] = f[t] - g[t]
    OBVIOUS
  <2>2. f[t] = IF t \in buys THEN trades[t].qty * trades[t].unit ELSE 0
    BY <1>2 DEF Only, ValueOf, QuantityOf
  <2>3. g[t] = IF t \in sales THEN trades[t].qty * trades[t].unit ELSE 0
    BY <1>2 DEF Only, ValueOf, QuantityOf
  <2>4. h[t] = IF t \in DOMAIN trades /\ trades[t].key = k
               THEN IF trades[t].action = "BUY" THEN trades[t].qty * trades[t].unit
                                                ELSE -(trades[t].qty * trades[t].unit)
               ELSE 0
    BY DEF CashOf, Cash
  <2> HIDE DEF f, g, h
  <2>5. CASE t \in DOMAIN trades /\ trades[t].key = k
    <3>1. PICK x \in Int : x = trades[t].qty * trades[t].unit
      BY <1>6, <2>5
    <3>2. trades[t].action = "BUY" \/ (trades[t].action = "SELL" /\ trades[t].action # "BUY")
      BY <1>6, <2>5
    <3>3. CASE trades[t].action = "BUY"
      <4>1. t \in buys /\ t \notin sales
        BY <1>5, <2>5, <3>3
      <4>2. f[t] = x /\ g[t] = 0 /\ h[t] = x
        BY <2>2, <2>3, <2>4, <2>5, <3>1, <3>3, <4>1
      <4> QED BY <4>2
    <3>4. CASE trades[t].action = "SELL"
      <4>1. t \notin buys /\ t \in sales
        BY <1>5, <2>5, <3>4
      <4>2. f[t] = 0 /\ g[t] = x /\ h[t] = -x
        BY <2>2, <2>3, <2>4, <2>5, <3>1, <3>2, <3>4, <4>1
      <4> QED BY <4>2
    <3> QED BY <3>2, <3>3, <3>4
  <2>6. CASE ~ (t \in DOMAIN trades /\ trades[t].key = k)
    <3>1. t \notin buys /\ t \notin sales
      BY <1>5, <2>6
    <3>2. f[t] = 0 /\ g[t] = 0 /\ h[t] = 0
      BY <2>2, <2>3, <2>4, <2>6, <3>1
    <3> QED BY <3>2
  <2> QED BY <2>5, <2>6
<1>10. Value(o.left, tradeSeq) = RunningSum(f)[tradeSeq] /\ Value(o.wanted, tradeSeq) = RunningSum(g)[tradeSeq]
  BY <1>2 DEF Value, SumOf
<1> HIDE DEF f, g, h
<1>11. RunningSum(h)[tradeSeq] = RunningSum(f)[tradeSeq] - RunningSum(g)[tradeSeq]
  BY <1>7, <1>8, <1>9, SumDifference
<1> QED BY <1>1, <1>3, <1>4, <1>10, <1>11 DEF h

(* The form of an account reports the gain its ledger realised.            *)
LEMMA FormGain ==
  ASSUME LedgerInv, ChainInv, NEW k \in DOMAIN positions, RecordedInOrder(k)
  PROVE  TotalGain(MatchedPairs({k[1]}, k[2])) = positions[k].realized_pnl
<1>1. k \in Key /\ positions[k].realized_pnl \in Int
  BY DEF LedgerInv, TypeOK, PositionRow
<1>2. PICK a \in Account, s \in Symbol, A \in SUBSET Account :
        k = <<a, s>> /\ a = k[1] /\ s = k[2] /\ A = {a}
  <2>1. PICK a \in Account, s \in Symbol : k = <<a, s>> /\ a = k[1] /\ s = k[2]
    BY <1>1 DEF Key
  <2>2. {a} \in SUBSET Account
    OBVIOUS
  <2> QED BY <2>1, <2>2
<1>3. PICK o, n, all : o = Form({a}, s) /\ n = tradeSeq /\ all = TotalQty(TradesIn({a}, s, "SELL"))
  OBVIOUS
<1>4. PICK m : m = Drained(o)[all]
  OBVIOUS
<1>5. /\ m.rows = MatchedPairs(A, s) /\ FormBooks(o, n, all, m)
      /\ \A c \in DOMAIN o.wanted : m.wanted[c] = 0
  <2>1. o = Form(A, s) /\ all = TotalQty(TradesIn(A, s, "SELL"))
    BY <1>2, <1>3
  <2>2. FormDone(A, s, o, all, m)
    BY <1>4, <2>1, FormTells
  <2> QED BY <1>3, <2>2 DEF FormDone
<1>6. /\ Lines(o, n) /\ n \in Nat /\ all \in Nat
      /\ RunningSum(CashOf(trades, k))[n] = Value(o.left, n) - Value(o.wanted, n)
      /\ Value(o.left, n) \in Int /\ Value(o.wanted, n) \in Int /\ Priced(o, n)
  <2>1. Lines(o, n)
    BY <1>3, FormLines
  <2>2. n \in Nat /\ all \in Nat
    BY <1>3, LogTotals
  <2>3. /\ RunningSum(CashOf(trades, k))[n] = Value(o.left, n) - Value(o.wanted, n)
        /\ Value(o.left, n) \in Int /\ Value(o.wanted, n) \in Int /\ Priced(o, n)
    <3>1. /\ RunningSum(CashOf(trades, <<a, s>>))[tradeSeq] = Value(o.left, tradeSeq) - Value(o.wanted, tradeSeq)
          /\ Value(o.left, tradeSeq) \in Int /\ Value(o.wanted, tradeSeq) \in Int
          /\ Priced(o, tradeSeq)
      BY ONLY LedgerInv, <1>3, CashIs
    <3> QED BY <1>2, <1>3, <3>1
  <2> QED BY <2>1, <2>2, <2>3
<1>7. GainBooks(o, n, m)
  BY <1>4, <1>6, DrainedGains DEF Lines
<1>8. Value(m.wanted, n) = 0
  <2>1. m.wanted \in [DOMAIN o.wanted -> Nat]
    BY <1>5 DEF FormBooks, Counted
  <2>2. \A t \in DOMAIN o.wanted : trades[t].unit \in Nat
    BY <1>6 DEF Priced, Stock
  <2>3. \A t \in DOMAIN o.wanted : ValueOf(m.wanted)[t] = 0
    BY <1>5, <2>1, <2>2 DEF ValueOf
  <2>4. Only(ValueOf(m.wanted), DOMAIN m.wanted) \in [Nat -> Int]
        /\ \A i \in Nat : Only(ValueOf(m.wanted), DOMAIN m.wanted)[i] = 0
    BY <2>1, <2>3 DEF Only
  <2> QED BY <1>6, <2>4, SumZero DEF Value, SumOf
<1>9. Value(m.left, n) = RunningSum(Basis(lots, k))[lotSeq]
  BY <1>2, <1>3, <1>5, LeftIsBasis
<1>10. Value(m.left, n) \in Int
  <2>1. m.left \in [DOMAIN o.left -> Nat]
    BY <1>5 DEF FormBooks, Counted
  <2> QED BY <1>6, <2>1, StockLeft DEF Priced
<1>11. TotalGain(m.rows) = (Value(o.wanted, n) - Value(m.wanted, n)) - (Value(o.left, n) - Value(m.left, n))
  BY <1>7 DEF GainBooks
<1>12. RunningSum(Basis(lots, k))[lotSeq] - positions[k].realized_pnl = RunningSum(CashOf(trades, k))[n]
  BY <1>1, <1>3 DEF LedgerInv, Balanced, PriorRealized
<1>13. TotalGain(m.rows) = positions[k].realized_pnl
  BY ONLY <1>1, <1>6, <1>8, <1>9, <1>10, <1>11, <1>12
<1> QED BY <1>2, <1>5, <1>13

(* Two computations of one number agree: the rows of the form of a         *)
(* position whose trades were recorded in order gain what its sales, one   *)
(* by one, realised from its lots.                                         *)
THEOREM LedgerFormAgrees == LedgerSpec => []FormAgreesWithLedger
<1>1. Init => LedgerInv /\ ChainInv
  BY InitLedger, InitChains
<1>2. LedgerInv /\ ChainInv /\ [RecordNext]_ledgerVars => (LedgerInv /\ ChainInv)'
  BY StepLedger, StepChains
<1>3. LedgerInv /\ ChainInv => FormAgreesWithLedger
  BY FormGain DEF FormAgreesWithLedger
<1> QED BY <1>1, <1>2, <1>3, PTL DEF LedgerSpec
================================================================================
