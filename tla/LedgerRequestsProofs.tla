-------------------------- MODULE LedgerRequestsProofs --------------------------
(***************************************************************************)
(* However requests interleave, no share goes missing, and requests that   *)
(* do not overlap keep the books: for every set of requests, every list of *)
(* rows they record, and every opening inventory.                          *)
(*                                                                         *)
(* Sound holds the types and says whose an uncommitted lot is.  A request  *)
(* is followed through its View, the lots as it will leave them once its   *)
(* UPDATE has written what it planned: the view moves in one step, when a  *)
(* lot is inserted or a sale computed, and not while single rows are       *)
(* locked and written.                                                     *)
(*                                                                         *)
(* SharesNeverLost needs a floor under every lot: so many of its shares no *)
(* committed request has sold.  Every remaining quantity that is           *)
(* committed, written or planned is at least the floor of its lot plus     *)
(* what the request itself moves; the floors add up to the book.  Stale    *)
(* reads and overwritten rows only ever leave more than the floor.         *)
(*                                                                         *)
(* SerialInv says, while no two requests have overlapped, that the lots    *)
(* are the book exactly, and that the view of the one request in progress  *)
(* is the book with the rows it has done.                                  *)
(***************************************************************************)
EXTENDS LedgerRequests, FifoEngineProofs

(* Tables and transactions. *)

LotTable(table, last) ==
  /\ DOMAIN table \subseteq 1..last
  /\ \A l \in DOMAIN table : table[l] \in LotRow

Columns == {"row", "wrote", "plan", "gain", "rollup", "upserted"}

(* The lots as the request with transaction t will leave them once its     *)
(* UPDATE has written what it planned.                                     *)
View(table, t) ==
  [l \in DOMAIN table \cup DOMAIN t.wrote |->
     LET seen == IF l \in DOMAIN t.wrote THEN t.wrote[l] ELSE table[l]
     IN  [remaining |-> IF l \in DOMAIN t.plan THEN t.plan[l] ELSE seen.remaining,
          cost      |-> seen.cost]]

(* How many rows of a request its lots account for. *)
Done(label, t) == IF label \in {"write", "list", "get", "upsert", "commit"} THEN t.row ELSE t.row - 1

NetShares(r, n) == RunningSum(SharesColumn(Rows[r]))[n]
NetValue(r, n) == RunningSum(ValueColumn(Rows[r]))[n]

TxnSound(r) ==
  /\ DOMAIN txn[r] = Columns
  /\ txn[r].row \in 1..Len(Rows[r])
  /\ LotTable(txn[r].wrote, lotSeq)
  /\ DOMAIN txn[r].plan \subseteq DOMAIN lots \cup DOMAIN txn[r].wrote
  /\ \A l \in DOMAIN txn[r].plan : txn[r].plan[l] \in Nat
  /\ pc[r] # "write" => DOMAIN txn[r].plan = {}
  /\ txn[r].gain \in Int
  /\ txn[r].rollup \in [quantity : Nat, total_cost : Nat, realized_pnl : Int]
  /\ txn[r].upserted \in BOOLEAN
  /\ pc[r] \notin Progress => txn[r] = NewTxn
  /\ pc[r] = "commit" => txn[r].row = Len(Rows[r])
  /\ pc[r] = "trade" => Len(Rows[r]) = 1
  /\ pc[r] = "read" => Rows[r][txn[r].row].action = "SELL"

(* A lot that is not committed belongs to the request that inserted it. *)
OwnLots == \A p, q \in Request : p # q => DOMAIN txn[p].wrote \cap DOMAIN txn[q].wrote \subseteq DOMAIN lots

Sound ==
  /\ lotSeq \in Nat /\ LotTable(lots, lotSeq)
  /\ trades \in Seq(TradeRow)
  /\ position \in [quantity : Nat, total_cost : Nat, realized_pnl : Int]
  /\ overlapped \in BOOLEAN
  /\ DOMAIN pc = Request /\ DOMAIN txn = Request
  /\ \A r \in Request : TxnSound(r)
  /\ OwnLots

(* What a view guarantees of every lot: at least its floor and what the    *)
(* request itself moves.  Only a lot of its own can have gained.           *)
ViewFloor(floor, net, table, view, last, moved) ==
  /\ \A l \in Nat : /\ l \in DOMAIN table => net[l] <= 0
                    /\ l \notin DOMAIN view => net[l] = 0
  /\ \A l \in DOMAIN view : view[l].remaining >= floor[l] + net[l]
  /\ RunningSum(net)[last] = moved

RequestFloor(floor, net, r) ==
  ViewFloor(floor, net, lots, View(lots, txn[r]), lotSeq, NetShares(r, Done(pc[r], txn[r])))

Floors(floor, net) ==
  /\ \A l \in Nat : l \notin DOMAIN lots => floor[l] = 0
  /\ \A l \in DOMAIN lots : lots[l].remaining >= floor[l]
  /\ RunningSum(floor)[lotSeq] = BookShares
  /\ \A r \in Request : RequestFloor(floor, net[r], r)

HasFloors ==
  \E floor \in [Nat -> Int], net \in [Request -> [Nat -> Int]] : Floors(floor, net)

(* The realised total r will write, as far as it is known. *)
RealizedSoFar(r) ==
  IF pc[r] \in {"upsert", "commit"} THEN txn[r].rollup.realized_pnl
  ELSE IF pc[r] \in {"write", "list", "get"} THEN RealizedSeen(r) + txn[r].gain
  ELSE RealizedSeen(r)

InBalance(r) ==
  LET view == View(lots, txn[r])  done == Done(pc[r], txn[r]) IN
  /\ Available(Queue(view), lotSeq) = BookShares + NetShares(r, done)
  /\ RunningSum(Basis(view))[lotSeq] - RealizedSoFar(r) = BookValue + NetValue(r, done)
  /\ pc[r] \in {"get", "upsert", "commit"} =>
       /\ txn[r].rollup.quantity = Available(Queue(view), lotSeq)
       /\ txn[r].rollup.total_cost = RunningSum(Basis(view))[lotSeq]
  /\ Len(trades) + Len(Rows[r]) <= TradesPerMonth

SerialInv ==
  ~ overlapped =>
    /\ \A p, q \in Request : pc[p] \in Progress /\ pc[q] \in Progress => p = q
    /\ Available(Queue(lots), lotSeq) = BookShares
    /\ position.quantity = Available(Queue(lots), lotSeq)
    /\ position.total_cost = RunningSum(Basis(lots))[lotSeq]
    /\ position.total_cost - position.realized_pnl = BookValue
    /\ Len(trades) <= TradesPerMonth
    /\ \A r \in Request : pc[r] \in Progress => InBalance(r)

RequestsInv == Sound /\ HasFloors /\ SerialInv

--------------------------------------------------------------------------------
(* Columns of lots. *)

(* The columns of a table of lots are natural and end with the table.      *)
LEMMA LotColumns ==
  ASSUME NEW table, NEW last \in Nat, LotTable(table, last)
  PROVE  /\ Queue(table) \in [Nat -> Nat]
         /\ UnitCost(table) \in [Nat -> Nat]
         /\ Basis(table) \in [Nat -> Nat]
         /\ Queue(table)[last + 1] = 0 /\ Basis(table)[last + 1] = 0
         /\ Available(Queue(table), last) \in Nat
         /\ RunningSum(Basis(table))[last] \in Nat
<1>1. \A l \in DOMAIN table : table[l].remaining \in Nat /\ table[l].cost \in Nat
  BY DEF LotTable, LotRow
<1>2. Queue(table) \in [Nat -> Nat] /\ UnitCost(table) \in [Nat -> Nat]
  BY <1>1 DEF Queue, UnitCost
<1>3. \A l \in Nat : Basis(table)[l] = Queue(table)[l] * UnitCost(table)[l]
  BY DEF Basis
<1>4. \A l \in Nat : Queue(table)[l] * UnitCost(table)[l] \in Nat
  BY <1>2
<1>5. Basis(table) \in [Nat -> Nat]
  BY <1>4 DEF Basis
<1>6. last + 1 \in Nat /\ last + 1 \notin DOMAIN table
  BY DEF LotTable
<1>7. Queue(table)[last + 1] = 0 /\ UnitCost(table)[last + 1] = 0
  BY <1>6 DEF Queue, UnitCost
<1>8. Basis(table)[last + 1] = 0
  BY <1>3, <1>6, <1>7
<1>9. Available(Queue(table), last) \in Nat /\ RunningSum(Basis(table))[last] \in Nat
  BY <1>2, <1>5, SumNatural DEF Available
<1> QED BY <1>2, <1>5, <1>7, <1>8, <1>9

(* An id drawn and not in the table changes no total.                      *)
LEMMA TotalsStay ==
  ASSUME NEW table, NEW last \in Nat, LotTable(table, last)
  PROVE  /\ LotTable(table, last + 1)
         /\ Available(Queue(table), last + 1) = Available(Queue(table), last)
         /\ RunningSum(Basis(table))[last + 1] = RunningSum(Basis(table))[last]
<1>1. LotTable(table, last + 1)
  BY DEF LotTable
<1>2. /\ Queue(table) \in [Nat -> Int] /\ Basis(table) \in [Nat -> Int]
      /\ Queue(table)[last + 1] = 0 /\ Basis(table)[last + 1] = 0
  <2>1. Queue(table) \in [Nat -> Nat] /\ Basis(table) \in [Nat -> Nat]
    BY LotColumns
  <2> QED BY <2>1, LotColumns
<1>3. RunningSum(Queue(table))[last + 1] = RunningSum(Queue(table))[last]
  BY <1>2, TotalStays
<1>4. RunningSum(Basis(table))[last + 1] = RunningSum(Basis(table))[last]
  BY <1>2, TotalStays
<1> QED BY <1>1, <1>3, <1>4 DEF Available

(* A lot added with a fresh id adds its shares and its cost.               *)
LEMMA LotAdded ==
  ASSUME NEW table, NEW last \in Nat, LotTable(table, last), NEW row \in LotRow
  PROVE  /\ LotTable(Put(table, last + 1, row), last + 1)
         /\ Available(Queue(Put(table, last + 1, row)), last + 1)
              = Available(Queue(table), last) + row.remaining
         /\ RunningSum(Basis(Put(table, last + 1, row)))[last + 1]
              = RunningSum(Basis(table))[last] + row.remaining * row.cost
<1> DEFINE more == Put(table, last + 1, row)
<1>1. last + 1 \in Nat /\ last + 1 \notin DOMAIN table
  BY DEF LotTable
<1>2. /\ DOMAIN more = DOMAIN table \cup {last + 1} /\ more[last + 1] = row
      /\ \A l \in DOMAIN table : more[l] = table[l]
  BY <1>1 DEF Put
<1> HIDE DEF more
<1>3. LotTable(more, last + 1)
  BY <1>2 DEF LotTable
<1>4. /\ Queue(more)[last + 1] = row.remaining /\ UnitCost(more)[last + 1] = row.cost
      /\ \A i \in 1..last : Queue(more)[i] = Queue(table)[i] /\ UnitCost(more)[i] = UnitCost(table)[i]
  BY <1>1, <1>2 DEF Queue, UnitCost
<1>5. Basis(more)[last + 1] = row.remaining * row.cost
  BY <1>1, <1>4 DEF Basis
<1>6. \A i \in 1..last : Basis(more)[i] = Basis(table)[i]
  BY <1>4 DEF Basis
<1>7. /\ Queue(table) \in [Nat -> Int] /\ Basis(table) \in [Nat -> Int]
      /\ Queue(more) \in [Nat -> Int] /\ Basis(more) \in [Nat -> Int]
  <2>1. Queue(table) \in [Nat -> Nat] /\ Basis(table) \in [Nat -> Nat]
    BY LotColumns
  <2>2. Queue(more) \in [Nat -> Nat] /\ Basis(more) \in [Nat -> Nat]
    BY <1>1, <1>3, LotColumns
  <2> QED BY <2>1, <2>2
<1>8. RunningSum(Queue(more))[last + 1] = RunningSum(Queue(table))[last] + Queue(more)[last + 1]
  BY <1>4, <1>7, TotalGrows
<1>9. RunningSum(Basis(more))[last + 1] = RunningSum(Basis(table))[last] + Basis(more)[last + 1]
  BY <1>6, <1>7, TotalGrows
<1> QED BY <1>3, <1>4, <1>5, <1>8, <1>9 DEF Available, more

(* A table after a sale, lot by lot. *)
Sold(table, qty) ==
  [l \in DOMAIN table |-> [remaining |-> table[l].remaining - Consumed(Queue(table), qty)[l],
                           cost      |-> table[l].cost]]

(* A sale takes what it sells, and the cost of it, out of the table.       *)
LEMMA SaleTakes ==
  ASSUME NEW table, NEW last \in Nat, LotTable(table, last),
         NEW qty \in Nat, qty <= Available(Queue(table), last)
  PROVE  /\ LotTable(Sold(table, qty), last)
         /\ Consumed(Queue(table), qty) \in [Nat -> Nat]
         /\ RunningSum(Consumed(Queue(table), qty))[last] = qty
         /\ \A l \in Nat : l \notin DOMAIN table => Consumed(Queue(table), qty)[l] = 0
         /\ \A l \in DOMAIN table : Consumed(Queue(table), qty)[l] <= table[l].remaining
         /\ Available(Queue(Sold(table, qty)), last) = Available(Queue(table), last) - qty
         /\ CostOfSale(Queue(table), UnitCost(table), qty, last) \in Nat
         /\ RunningSum(Basis(Sold(table, qty)))[last]
              = RunningSum(Basis(table))[last] - CostOfSale(Queue(table), UnitCost(table), qty, last)
<1> DEFINE taken == Consumed(Queue(table), qty)
<1> DEFINE after == Sold(table, qty)
<1> DEFINE value == [i \in Nat |-> taken[i] * UnitCost(table)[i]]
<1>1. /\ Queue(table) \in [Nat -> Nat] /\ UnitCost(table) \in [Nat -> Nat]
      /\ Basis(table) \in [Nat -> Nat]
  BY LotColumns
<1>2. taken \in [Nat -> Nat] /\ \A i \in Nat : taken[i] <= Queue(table)[i]
  BY <1>1, ConsumedBounds
<1>3. Available(Queue(table), last) \in Nat
  BY LotColumns
<1>4. RunningSum(taken)[last] = Smaller(qty, Available(Queue(table), last))
  BY <1>1, ConsumedTotal
<1>5. RunningSum(taken)[last] = qty
  BY <1>3, <1>4 DEF Smaller
<1>6. CostOfSale(Queue(table), UnitCost(table), qty, last) = RunningSum(value)[last]
  BY DEF CostOfSale
<1>7. after = [l \in DOMAIN table |-> [remaining |-> table[l].remaining - taken[l],
                                       cost      |-> table[l].cost]]
  BY DEF Sold
<1> HIDE DEF taken
<1>8. \A l \in DOMAIN table : /\ l \in Nat /\ table[l].remaining \in Nat /\ table[l].cost \in Nat
                              /\ Queue(table)[l] = table[l].remaining
                              /\ UnitCost(table)[l] = table[l].cost
  <2>1. \A l \in DOMAIN table : l \in Nat /\ table[l].remaining \in Nat /\ table[l].cost \in Nat
    BY DEF LotTable, LotRow
  <2> QED BY <2>1 DEF Queue, UnitCost
<1>9. \A l \in DOMAIN table : taken[l] \in Nat /\ taken[l] <= table[l].remaining
  BY <1>2, <1>8
<1>10. \A l \in Nat : l \notin DOMAIN table => taken[l] = 0
  <2>1. \A l \in Nat : l \notin DOMAIN table => Queue(table)[l] = 0
    BY DEF Queue
  <2> QED BY <1>2, <2>1
<1> HIDE DEF after
<1>11. /\ DOMAIN after = DOMAIN table
       /\ \A l \in DOMAIN table : /\ after[l].remaining = table[l].remaining - taken[l]
                                  /\ after[l].cost = table[l].cost
                                  /\ after[l] \in LotRow
  <2>1. \A l \in DOMAIN table : table[l].remaining - taken[l] \in Nat
    BY <1>8, <1>9
  <2> QED BY <1>7, <1>8, <2>1 DEF LotRow
<1>12. LotTable(after, last)
  BY <1>11 DEF LotTable
<1>13. \A l \in Nat : /\ Queue(after)[l] = Queue(table)[l] - taken[l]
                      /\ UnitCost(after)[l] = UnitCost(table)[l]
  <2>1. SUFFICES ASSUME NEW l \in Nat
                 PROVE  /\ Queue(after)[l] = Queue(table)[l] - taken[l]
                        /\ UnitCost(after)[l] = UnitCost(table)[l]
    OBVIOUS
  <2>2. CASE l \in DOMAIN table
    BY <1>8, <1>11, <2>2 DEF Queue, UnitCost
  <2>3. CASE l \notin DOMAIN table
    BY <1>10, <1>11, <2>3 DEF Queue, UnitCost
  <2> QED BY <2>2, <2>3
<1>14. value \in [Nat -> Nat] /\ \A i \in Nat : value[i] = taken[i] * UnitCost(table)[i]
  <2>1. \A i \in Nat : taken[i] * UnitCost(table)[i] \in Nat
    BY <1>1, <1>2
  <2> QED BY <2>1
<1> HIDE DEF value
<1>15. \A l \in Nat : Basis(after)[l] = Basis(table)[l] - value[l]
  <2>1. SUFFICES ASSUME NEW l \in Nat PROVE Basis(after)[l] = Basis(table)[l] - value[l]
    OBVIOUS
  <2>2. /\ Basis(after)[l] = Queue(after)[l] * UnitCost(after)[l]
        /\ Basis(table)[l] = Queue(table)[l] * UnitCost(table)[l]
    BY DEF Basis
  <2>3. Queue(table)[l] \in Nat /\ UnitCost(table)[l] \in Nat /\ taken[l] \in Nat
    BY <1>1, <1>2
  <2>4. (Queue(table)[l] - taken[l]) * UnitCost(table)[l]
          = Queue(table)[l] * UnitCost(table)[l] - taken[l] * UnitCost(table)[l]
    BY <2>3
  <2> QED BY <1>13, <1>14, <2>2, <2>4
<1>16. /\ Queue(after) \in [Nat -> Int] /\ Basis(after) \in [Nat -> Int]
       /\ Queue(table) \in [Nat -> Int] /\ Basis(table) \in [Nat -> Int]
       /\ taken \in [Nat -> Int] /\ value \in [Nat -> Int]
  <2>1. Queue(after) \in [Nat -> Nat] /\ Basis(after) \in [Nat -> Nat]
    BY <1>12, LotColumns
  <2> QED BY <1>1, <1>2, <1>14, <2>1
<1>17. RunningSum(Queue(after))[last] = RunningSum(Queue(table))[last] - RunningSum(taken)[last]
  <2>1. \A l \in Nat : Queue(after)[l] = Queue(table)[l] - taken[l]
    BY <1>13
  <2>2. Queue(after) \in [Nat -> Int] /\ Queue(table) \in [Nat -> Int] /\ taken \in [Nat -> Int]
    BY <1>16
  <2> QED BY <2>1, <2>2, SumDifference
<1>18. RunningSum(Basis(after))[last] = RunningSum(Basis(table))[last] - RunningSum(value)[last]
  BY <1>15, <1>16, SumDifference, SMTT(30)
<1>19. RunningSum(value)[last] \in Nat
  BY <1>14, SumNatural
<1> QED BY <1>2, <1>5, <1>6, <1>9, <1>10, <1>12, <1>17, <1>18, <1>19 DEF Available, after, taken

--------------------------------------------------------------------------------
(* What a log of trades moves. *)

(* The columns of a log are integers, and a row moves what it says.        *)
LEMMA LogColumns ==
  ASSUME NEW log \in Seq(TradeRow)
  PROVE  /\ SharesColumn(log) \in [Nat -> Int]
         /\ ValueColumn(log) \in [Nat -> Int]
<1>1. \A i \in DOMAIN log : log[i] \in TradeRow
  OBVIOUS
<1>2. \A i \in DOMAIN log : log[i].qty \in Nat /\ log[i].unit \in Nat
  BY <1>1 DEF TradeRow
<1>3. \A i \in DOMAIN log : log[i].qty * log[i].unit \in Nat
  BY <1>2
<1>4. SharesColumn(log) \in [Nat -> Int]
  BY <1>2 DEF SharesColumn
<1>5. ValueColumn(log) \in [Nat -> Int]
  BY <1>3 DEF ValueColumn
<1> QED BY <1>4, <1>5

(* A row more of a request moves the quantity and the value of that row.   *)
LEMMA RowMoves ==
  ASSUME NEW r \in Request, NEW n \in 1..Len(Rows[r])
  PROVE  /\ Rows[r][n] \in TradeRow /\ Rows[r][n].qty \in Nat /\ Rows[r][n].unit \in Nat
         /\ NetShares(r, n - 1) \in Int /\ NetValue(r, n - 1) \in Int
         /\ NetShares(r, n) = NetShares(r, n - 1)
              + (IF Rows[r][n].action = "BUY" THEN Rows[r][n].qty ELSE -Rows[r][n].qty)
         /\ NetValue(r, n) = NetValue(r, n - 1)
              + (IF Rows[r][n].action = "BUY" THEN Rows[r][n].qty * Rows[r][n].unit
                                              ELSE -(Rows[r][n].qty * Rows[r][n].unit))
<1> DEFINE log == Rows[r]
<1>1. log \in Seq(TradeRow)
  BY RequestsAssumption
<1>2. DOMAIN log = 1..Len(log) /\ Len(log) \in Nat
  BY <1>1
<1>3. n \in DOMAIN log /\ log[n] \in TradeRow /\ n \in Nat /\ n - 1 \in Nat /\ (n - 1) + 1 = n
  BY <1>1, <1>2
<1>4. SharesColumn(log) \in [Nat -> Int] /\ ValueColumn(log) \in [Nat -> Int]
  BY <1>1, LogColumns
<1>5. SharesColumn(log)[n] = IF log[n].action = "BUY" THEN log[n].qty ELSE -log[n].qty
  BY <1>3 DEF SharesColumn
<1>6. ValueColumn(log)[n] = IF log[n].action = "BUY" THEN log[n].qty * log[n].unit
                                                     ELSE -(log[n].qty * log[n].unit)
  BY <1>3 DEF ValueColumn
<1> HIDE DEF log
<1>7. /\ RunningSum(SharesColumn(log)) \in [Nat -> Int]
      /\ RunningSum(SharesColumn(log))[(n - 1) + 1]
           = RunningSum(SharesColumn(log))[n - 1] + SharesColumn(log)[(n - 1) + 1]
  BY <1>3, <1>4, RunningSumDef
<1>8. /\ RunningSum(ValueColumn(log)) \in [Nat -> Int]
      /\ RunningSum(ValueColumn(log))[(n - 1) + 1]
           = RunningSum(ValueColumn(log))[n - 1] + ValueColumn(log)[(n - 1) + 1]
  BY <1>3, <1>4, RunningSumDef
<1>9. log[n].qty \in Nat /\ log[n].unit \in Nat
  BY <1>3 DEF TradeRow
<1> QED BY <1>3, <1>5, <1>6, <1>7, <1>8, <1>9 DEF log, NetShares, NetValue

(* A request that has done nothing has moved nothing, and its commit adds  *)
(* to the log what its rows move.                                          *)
LEMMA LogGrows ==
  ASSUME NEW log \in Seq(TradeRow), NEW r \in Request
  PROVE  /\ NetShares(r, 0) = 0 /\ NetValue(r, 0) = 0
         /\ log \o Rows[r] \in Seq(TradeRow)
         /\ Len(log \o Rows[r]) = Len(log) + Len(Rows[r])
         /\ RunningSum(SharesColumn(log \o Rows[r]))[Len(log \o Rows[r])]
              = RunningSum(SharesColumn(log))[Len(log)] + NetShares(r, Len(Rows[r]))
         /\ RunningSum(ValueColumn(log \o Rows[r]))[Len(log \o Rows[r])]
              = RunningSum(ValueColumn(log))[Len(log)] + NetValue(r, Len(Rows[r]))
         /\ RunningSum(SharesColumn(log))[Len(log)] \in Int
         /\ RunningSum(ValueColumn(log))[Len(log)] \in Int
         /\ NetShares(r, Len(Rows[r])) \in Int
         /\ NetValue(r, Len(Rows[r])) \in Int
<1> DEFINE rows == Rows[r]
<1> DEFINE all == log \o rows
<1>1. rows \in Seq(TradeRow)
  BY RequestsAssumption
<1>2. /\ all \in Seq(TradeRow) /\ Len(all) = Len(log) + Len(rows)
      /\ Len(log) \in Nat /\ Len(rows) \in Nat
      /\ DOMAIN all = 1..(Len(log) + Len(rows)) /\ DOMAIN log = 1..Len(log) /\ DOMAIN rows = 1..Len(rows)
      /\ \A i \in 1..Len(log) : all[i] = log[i]
      /\ \A i \in 1..Len(rows), j \in Nat : j = Len(log) + i => all[j] = rows[i]
  <2>1. log \in Seq(TradeRow) /\ rows \in Seq(TradeRow)
    BY <1>1
  <2> HIDE DEF rows
  <2> QED BY <2>1
<1> HIDE DEF rows, all
<1>3. /\ SharesColumn(log) \in [Nat -> Int] /\ ValueColumn(log) \in [Nat -> Int]
      /\ SharesColumn(rows) \in [Nat -> Int] /\ ValueColumn(rows) \in [Nat -> Int]
      /\ SharesColumn(all) \in [Nat -> Int] /\ ValueColumn(all) \in [Nat -> Int]
  BY <1>1, <1>2, LogColumns
<1>4. \A i \in 1..Len(log) : i \in Nat /\ i \in DOMAIN log /\ i \in DOMAIN all
  BY <1>2
<1>5. \A i \in 1..Len(log) : /\ SharesColumn(all)[i] = SharesColumn(log)[i]
                             /\ ValueColumn(all)[i] = ValueColumn(log)[i]
  BY <1>2, <1>4 DEF SharesColumn, ValueColumn
<1>6. ASSUME NEW i \in Nat, NEW j \in Nat, i > 0, j = Len(log) + i
      PROVE  /\ SharesColumn(all)[j] = SharesColumn(rows)[i]
             /\ ValueColumn(all)[j] = ValueColumn(rows)[i]
  <2>1. CASE i \in 1..Len(rows)
    <3>1. i \in DOMAIN rows /\ j \in DOMAIN all
      BY <1>2, <1>6, <2>1
    <3>2. all[j] = rows[i]
      BY <1>2, <1>6, <2>1
    <3> QED BY <3>1, <3>2 DEF SharesColumn, ValueColumn
  <2>2. CASE i \notin 1..Len(rows)
    <3>1. i \notin DOMAIN rows /\ j \notin DOMAIN all
      BY <1>2, <1>6, <2>2
    <3> QED BY <3>1 DEF SharesColumn, ValueColumn
  <2> QED BY <2>1, <2>2
<1>7. RunningSum(SharesColumn(all))[Len(log) + Len(rows)]
        = RunningSum(SharesColumn(log))[Len(log)] + RunningSum(SharesColumn(rows))[Len(rows)]
  <2>1. \A i \in 1..Len(log) : SharesColumn(all)[i] = SharesColumn(log)[i]
    BY <1>5
  <2>2. \A i, j \in Nat : i > 0 /\ j = Len(log) + i => SharesColumn(all)[j] = SharesColumn(rows)[i]
    BY <1>6
  <2>3. /\ SharesColumn(log) \in [Nat -> Int] /\ SharesColumn(rows) \in [Nat -> Int]
        /\ SharesColumn(all) \in [Nat -> Int]
    BY <1>3
  <2>4. Len(log) \in Nat /\ Len(rows) \in Nat
    BY <1>2
  <2> DEFINE f == SharesColumn(log)
  <2> DEFINE g == SharesColumn(rows)
  <2> DEFINE h == SharesColumn(all)
  <2> DEFINE n == Len(log)
  <2> HIDE DEF f, g, h, n
  <2>5. \A m \in Nat : RunningSum(h)[n + m] = RunningSum(f)[n] + RunningSum(g)[m]
    <3>1. f \in [Nat -> Int] /\ g \in [Nat -> Int] /\ h \in [Nat -> Int] /\ n \in Nat
      BY <2>3, <2>4 DEF f, g, h, n
    <3>2. \A i \in 1..n : h[i] = f[i]
      BY <2>1 DEF f, h, n
    <3>3. \A i, j \in Nat : i > 0 /\ j = n + i => h[j] = g[i]
      BY <2>2 DEF g, h, n
    <3> QED BY ONLY <3>1, <3>2, <3>3, SumAppend, ZenonT(60)
  <2> QED BY <2>4, <2>5 DEF f, g, h, n
<1>8. RunningSum(ValueColumn(all))[Len(log) + Len(rows)]
        = RunningSum(ValueColumn(log))[Len(log)] + RunningSum(ValueColumn(rows))[Len(rows)]
  <2>1. \A i \in 1..Len(log) : ValueColumn(all)[i] = ValueColumn(log)[i]
    BY <1>5
  <2>2. \A i, j \in Nat : i > 0 /\ j = Len(log) + i => ValueColumn(all)[j] = ValueColumn(rows)[i]
    BY <1>6
  <2>3. /\ ValueColumn(log) \in [Nat -> Int] /\ ValueColumn(rows) \in [Nat -> Int]
        /\ ValueColumn(all) \in [Nat -> Int]
    BY <1>3
  <2>4. Len(log) \in Nat /\ Len(rows) \in Nat
    BY <1>2
  <2> DEFINE f == ValueColumn(log)
  <2> DEFINE g == ValueColumn(rows)
  <2> DEFINE h == ValueColumn(all)
  <2> DEFINE n == Len(log)
  <2> HIDE DEF f, g, h, n
  <2>5. \A m \in Nat : RunningSum(h)[n + m] = RunningSum(f)[n] + RunningSum(g)[m]
    <3>1. f \in [Nat -> Int] /\ g \in [Nat -> Int] /\ h \in [Nat -> Int] /\ n \in Nat
      BY <2>3, <2>4 DEF f, g, h, n
    <3>2. \A i \in 1..n : h[i] = f[i]
      BY <2>1 DEF f, h, n
    <3>3. \A i, j \in Nat : i > 0 /\ j = n + i => h[j] = g[i]
      BY <2>2 DEF g, h, n
    <3> QED BY ONLY <3>1, <3>2, <3>3, SumAppend, ZenonT(60)
  <2> QED BY <2>4, <2>5 DEF f, g, h, n
<1>9. /\ RunningSum(SharesColumn(log)) \in [Nat -> Int] /\ RunningSum(ValueColumn(log)) \in [Nat -> Int]
      /\ RunningSum(SharesColumn(rows)) \in [Nat -> Int] /\ RunningSum(ValueColumn(rows)) \in [Nat -> Int]
      /\ RunningSum(SharesColumn(rows))[0] = 0 /\ RunningSum(ValueColumn(rows))[0] = 0
  BY <1>3, RunningSumDef
<1> QED BY <1>2, <1>7, <1>8, <1>9 DEF NetShares, NetValue, rows, all

--------------------------------------------------------------------------------
(* Views. *)

(* A view is a table of lots.                                              *)
LEMMA ViewTable ==
  ASSUME NEW table, NEW t, NEW last \in Nat, LotTable(table, last), LotTable(t.wrote, last),
         \A l \in DOMAIN t.plan : t.plan[l] \in Nat
  PROVE  /\ LotTable(View(table, t), last)
         /\ DOMAIN View(table, t) = DOMAIN table \cup DOMAIN t.wrote
<1>1. DOMAIN View(table, t) = DOMAIN table \cup DOMAIN t.wrote
  BY DEF View
<1>2. ASSUME NEW l \in DOMAIN table \cup DOMAIN t.wrote PROVE View(table, t)[l] \in LotRow
  <2> DEFINE seen == IF l \in DOMAIN t.wrote THEN t.wrote[l] ELSE table[l]
  <2> DEFINE left == IF l \in DOMAIN t.plan THEN t.plan[l] ELSE seen.remaining
  <2>1. seen \in LotRow
    BY DEF LotTable
  <2>2. View(table, t)[l] = [remaining |-> left, cost |-> seen.cost]
    BY DEF View
  <2>3. left \in Nat /\ seen.cost \in Nat
    BY <2>1 DEF LotRow
  <2> HIDE DEF seen, left
  <2> QED BY <2>2, <2>3 DEF LotRow
<1> QED BY <1>1, <1>2 DEF LotTable

(* A request with nothing planned sees its view.                           *)
LEMMA SeesView ==
  ASSUME Sound, NEW r \in Request, DOMAIN txn[r].plan = {}
  PROVE  Visible(r) = View(lots, txn[r])
<1> DEFINE seen(l) == IF l \in DOMAIN txn[r].wrote THEN txn[r].wrote[l] ELSE lots[l]
<1>1. ASSUME NEW l \in DOMAIN lots \cup DOMAIN txn[r].wrote
      PROVE  View(lots, txn[r])[l] = seen(l)
  <2>1. seen(l) \in LotRow
    BY DEF Sound, TxnSound, LotTable
  <2>2. View(lots, txn[r])[l] = [remaining |-> seen(l).remaining, cost |-> seen(l).cost]
    BY DEF View
  <2> HIDE DEF seen
  <2> QED BY <2>1, <2>2 DEF LotRow
<1>2. Visible(r) = [l \in DOMAIN lots \cup DOMAIN txn[r].wrote |-> seen(l)]
  BY DEF Visible
<1>3. /\ View(lots, txn[r]) = [l \in DOMAIN lots \cup DOMAIN txn[r].wrote |-> View(lots, txn[r])[l]]
  BY DEF View
<1> HIDE DEF seen
<1> QED BY <1>1, <1>2, <1>3

(* The view follows from what is written and planned alone.                *)
LEMMA SameView ==
  ASSUME NEW table, NEW t, NEW u, t.wrote = u.wrote, t.plan = u.plan
  PROVE  View(table, t) = View(table, u)
BY DEF View

(* Before a request writes, its view is the committed lots.                *)
LEMMA NewView ==
  /\ DOMAIN NewTxn = Columns /\ DOMAIN NewTxn.wrote = {} /\ DOMAIN NewTxn.plan = {}
  /\ NewTxn.row = 1 /\ ~ NewTxn.upserted /\ NewTxn.gain = 0
  /\ NewTxn.rollup = [quantity |-> 0, total_cost |-> 0, realized_pnl |-> 0]
  /\ \A table : /\ DOMAIN View(table, NewTxn) = DOMAIN table
                /\ \A l \in DOMAIN table : /\ View(table, NewTxn)[l].remaining = table[l].remaining
                                           /\ View(table, NewTxn)[l].cost = table[l].cost
  /\ \A table : Queue(View(table, NewTxn)) = Queue(table) /\ Basis(View(table, NewTxn)) = Basis(table)
<1>1. /\ DOMAIN NewTxn = Columns /\ DOMAIN NewTxn.wrote = {} /\ DOMAIN NewTxn.plan = {}
      /\ NewTxn.row = 1 /\ ~ NewTxn.upserted /\ NewTxn.gain = 0
      /\ NewTxn.rollup = [quantity |-> 0, total_cost |-> 0, realized_pnl |-> 0]
  BY DEF NewTxn, Columns
<1>2. ASSUME NEW table
      PROVE  /\ DOMAIN View(table, NewTxn) = DOMAIN table
             /\ \A l \in DOMAIN table : /\ View(table, NewTxn)[l].remaining = table[l].remaining
                                        /\ View(table, NewTxn)[l].cost = table[l].cost
  BY <1>1 DEF View
<1>3. ASSUME NEW table
      PROVE  Queue(View(table, NewTxn)) = Queue(table) /\ Basis(View(table, NewTxn)) = Basis(table)
  <2>1. Queue(View(table, NewTxn)) = Queue(table) /\ UnitCost(View(table, NewTxn)) = UnitCost(table)
    BY <1>2 DEF Queue, UnitCost
  <2> QED BY <2>1 DEF Basis
<1> QED BY <1>1, <1>2, <1>3

--------------------------------------------------------------------------------
(* Steps. *)

(* Only r moves. *)
Others(r) ==
  /\ DOMAIN pc' = Request /\ DOMAIN txn' = Request
  /\ \A q \in Request : q # r => pc'[q] = pc[q] /\ txn'[q] = txn[q]

(* What the helpers of the actions do to the other requests.               *)
LEMMA OneRequestMoves ==
  ASSUME Sound, NEW r \in Request, NEW label, NEW t, Goto(r, label), Becomes(r, t)
  PROVE  Others(r) /\ pc'[r] = label /\ txn'[r] = t
BY DEF Sound, Goto, Becomes, Others

(* What is sound stays so for the requests that do not move.               *)
LEMMA SoundKept ==
  ASSUME Sound, NEW r \in Request, Others(r), TxnSound(r)',
         lotSeq' \in {lotSeq, lotSeq + 1}, LotTable(lots', lotSeq'), DOMAIN lots \subseteq DOMAIN lots',
         trades' \in Seq(TradeRow), overlapped' \in BOOLEAN,
         position' \in [quantity : Nat, total_cost : Nat, realized_pnl : Int],
         \A l \in DOMAIN txn'[r].wrote : \/ l \in DOMAIN lots' \cup DOMAIN txn[r].wrote
                                         \/ l = lotSeq + 1
  PROVE  Sound'
<1>1. lotSeq' \in Nat /\ lotSeq \in Nat
  BY DEF Sound
<1>2. ASSUME NEW q \in Request PROVE TxnSound(q)'
  <2>1. CASE q = r
    BY <2>1
  <2>2. CASE q # r
    <3>1. TxnSound(q) /\ pc'[q] = pc[q] /\ txn'[q] = txn[q]
      BY <2>2 DEF Sound, Others
    <3>2. LotTable(txn'[q].wrote, lotSeq')
      BY <1>1, <3>1, SMTT(30) DEF TxnSound, LotTable
    <3>3. DOMAIN txn'[q].plan \subseteq DOMAIN lots' \cup DOMAIN txn'[q].wrote
      BY <3>1 DEF TxnSound
    <3> QED BY <3>1, <3>2, <3>3 DEF TxnSound
  <2> QED BY <2>1, <2>2
<1>3. ASSUME NEW q \in Request, q # r
      PROVE  DOMAIN txn'[r].wrote \cap DOMAIN txn'[q].wrote \subseteq DOMAIN lots'
  <2>1. txn'[q] = txn[q] /\ LotTable(txn[q].wrote, lotSeq)
    BY <1>3 DEF Sound, TxnSound, Others
  <2>2. \A l \in DOMAIN txn[q].wrote : l # lotSeq + 1
    BY <1>1, <2>1 DEF LotTable
  <2>3. DOMAIN txn[r].wrote \cap DOMAIN txn[q].wrote \subseteq DOMAIN lots
    BY <1>3 DEF Sound, OwnLots
  <2> QED BY <2>1, <2>2, <2>3
<1>4. OwnLots'
  <2>1. SUFFICES ASSUME NEW p \in Request, NEW q \in Request, p # q
                 PROVE  DOMAIN txn'[p].wrote \cap DOMAIN txn'[q].wrote \subseteq DOMAIN lots'
    BY DEF OwnLots
  <2>2. CASE p = r
    BY <1>3, <2>1, <2>2
  <2>3. CASE q = r
    BY <1>3, <2>1, <2>3
  <2>4. CASE p # r /\ q # r
    <3>1. txn'[p] = txn[p] /\ txn'[q] = txn[q]
      BY <2>4 DEF Others
    <3>2. DOMAIN txn[p].wrote \cap DOMAIN txn[q].wrote \subseteq DOMAIN lots
      BY <2>1 DEF Sound, OwnLots
    <3> QED BY <3>1, <3>2
  <2> QED BY <2>2, <2>3, <2>4
<1> QED BY <1>1, <1>2, <1>4 DEF Sound, Others

(* Tables that do not move. *)
StoreSame == trades' = trades /\ lots' = lots /\ position' = position /\ lotSeq' = lotSeq

(* A step that leaves every view and every count of rows where it was      *)
(* leaves the floors where they were.                                      *)
LEMMA FloorsStay ==
  ASSUME HasFloors, StoreSame,
         \A q \in Request : /\ View(lots, txn'[q]) = View(lots, txn[q])
                            /\ Done(pc'[q], txn'[q]) = Done(pc[q], txn[q])
  PROVE  HasFloors'
<1>1. PICK floor \in [Nat -> Int], net \in [Request -> [Nat -> Int]] : Floors(floor, net)
  BY DEF HasFloors
<1>2. BookShares' = BookShares
  BY DEF StoreSame, BookShares
<1>3. ASSUME NEW q \in Request PROVE RequestFloor(floor, net[q], q)'
  <2>1. ViewFloor(floor, net[q], lots, View(lots, txn[q]), lotSeq, NetShares(q, Done(pc[q], txn[q])))
    BY <1>1 DEF Floors, RequestFloor
  <2>2. ViewFloor(floor, net[q], lots', View(lots', txn'[q]), lotSeq', NetShares(q, Done(pc'[q], txn'[q])))
    BY <2>1 DEF StoreSame
  <2> QED BY <2>2 DEF RequestFloor
<1>4. Floors(floor, net)'
  BY <1>1, <1>2, <1>3 DEF Floors, StoreSame
<1> QED BY <1>4 DEF HasFloors

(* A request that does not move stays in balance while the tables stay.    *)
LEMMA BalanceStays ==
  ASSUME NEW q \in Request, InBalance(q), StoreSame, pc'[q] = pc[q], txn'[q] = txn[q]
  PROVE  InBalance(q)'
<1>1. RealizedSoFar(q)' = RealizedSoFar(q)
  BY DEF StoreSame, RealizedSoFar, RealizedSeen
<1>2. BookShares' = BookShares /\ BookValue' = BookValue
  BY DEF StoreSame, BookShares, BookValue
<1> QED BY <1>1, <1>2 DEF StoreSame, InBalance

(* A step of a request in progress that moves no share: it checks, locks,  *)
(* writes a row as planned, or computes the position from its view.        *)
LEMMA QuietKeeps ==
  ASSUME RequestsInv, NEW r \in Request, Others(r), StoreSame, TxnSound(r)',
         View(lots, txn'[r]) = View(lots, txn[r]),
         Done(pc'[r], txn'[r]) = Done(pc[r], txn[r]),
         overlapped' \in BOOLEAN, overlapped => overlapped',
         pc[r] \in Progress,
         RealizedSoFar(r)' = RealizedSoFar(r),
         ~ overlapped /\ pc'[r] \in {"get", "upsert", "commit"} =>
           /\ txn'[r].rollup.quantity = Available(Queue(View(lots, txn[r])), lotSeq)
           /\ txn'[r].rollup.total_cost = RunningSum(Basis(View(lots, txn[r])))[lotSeq]
  PROVE  RequestsInv'
<1>1. Sound /\ HasFloors /\ SerialInv
  BY DEF RequestsInv
<1>2. Sound'
  <2>1. DOMAIN View(lots, txn'[r]) = DOMAIN lots \cup DOMAIN txn'[r].wrote
    BY DEF View
  <2>2. DOMAIN View(lots, txn[r]) = DOMAIN lots \cup DOMAIN txn[r].wrote
    BY DEF View
  <2>3. DOMAIN txn'[r].wrote \subseteq DOMAIN lots \cup DOMAIN txn[r].wrote
    BY <2>1, <2>2
  <2>4. /\ LotTable(lots', lotSeq') /\ DOMAIN lots \subseteq DOMAIN lots' /\ trades' \in Seq(TradeRow)
        /\ position' \in [quantity : Nat, total_cost : Nat, realized_pnl : Int]
        /\ lotSeq' \in {lotSeq, lotSeq + 1}
    BY <1>1 DEF Sound, StoreSame
  <2> QED BY <1>1, <2>3, <2>4, SoundKept DEF StoreSame
<1>3. HasFloors'
  BY <1>1, FloorsStay DEF Others
<1>4. SerialInv'
  <2>1. SUFFICES ASSUME ~ overlapped'
                 PROVE  /\ \A p, q \in Request : pc'[p] \in Progress /\ pc'[q] \in Progress => p = q
                        /\ \A q \in Request : pc'[q] \in Progress => InBalance(q)'
    BY <1>1 DEF SerialInv, StoreSame, BookShares, BookValue
  <2>2. ~ overlapped
    BY <2>1
  <2>3. \A q \in Request : pc'[q] \in Progress => pc[q] \in Progress
    BY DEF Others
  <2>4. InBalance(r)
    BY <1>1, <2>2 DEF SerialInv
  <2>5. InBalance(r)'
    <3>1. BookShares' = BookShares /\ BookValue' = BookValue
      BY DEF StoreSame, BookShares, BookValue
    <3> QED BY <2>2, <2>4, <3>1 DEF InBalance, StoreSame
  <2>6. ASSUME NEW q \in Request, q # r, pc'[q] \in Progress PROVE InBalance(q)'
    <3>1. pc'[q] = pc[q] /\ txn'[q] = txn[q] /\ InBalance(q)
      BY <1>1, <2>2, <2>3, <2>6 DEF SerialInv, Others
    <3> QED BY <3>1, BalanceStays
  <2> QED BY <1>1, <2>2, <2>3, <2>5, <2>6 DEF SerialInv
<1> QED BY <1>2, <1>3, <1>4 DEF RequestsInv

(* A request begins: it has written nothing, so its view is the lots.      *)
LEMMA BeginKeeps ==
  ASSUME RequestsInv, NEW r \in Request, Others(r), StoreSame,
         pc[r] \notin Progress, pc'[r] \in {"quota", "insert"}, txn'[r] = txn[r],
         overlapped' = (overlapped \/ \E q \in Request \ {r} : pc[q] \in Progress),
         Len(trades) + Len(Rows[r]) <= TradesPerMonth
  PROVE  RequestsInv'
<1>1. Sound /\ HasFloors /\ SerialInv
  BY DEF RequestsInv
<1>2. txn[r] = NewTxn /\ TxnSound(r)
  BY <1>1 DEF Sound, TxnSound
<1>3. Done(pc'[r], txn'[r]) = 0 /\ Done(pc[r], txn[r]) = 0
  BY <1>2, NewView DEF Done, Progress
<1>4. overlapped' \in BOOLEAN /\ (overlapped => overlapped')
  BY <1>1 DEF Sound
<1>5. TxnSound(r)'
  <2>1. pc'[r] \in Progress /\ pc'[r] # "commit" /\ pc'[r] # "trade" /\ pc[r] # "write" /\ lots' = lots /\ lotSeq' = lotSeq
    BY DEF Progress, StoreSame
  <2> QED BY <1>2, <2>1 DEF TxnSound
<1>6. Sound'
  <2>1. /\ LotTable(lots', lotSeq') /\ DOMAIN lots \subseteq DOMAIN lots' /\ trades' \in Seq(TradeRow)
        /\ position' \in [quantity : Nat, total_cost : Nat, realized_pnl : Int]
        /\ lotSeq' \in {lotSeq, lotSeq + 1}
    BY <1>1 DEF Sound, StoreSame
  <2> QED BY <1>1, <1>4, <1>5, <2>1, SoundKept DEF StoreSame
<1>7. HasFloors'
  <2>1. \A q \in Request : /\ View(lots, txn'[q]) = View(lots, txn[q])
                           /\ Done(pc'[q], txn'[q]) = Done(pc[q], txn[q])
    BY <1>3 DEF Others
  <2> QED BY <1>1, <2>1, FloorsStay
<1>8. SerialInv'
  <2>1. SUFFICES ASSUME ~ overlapped'
                 PROVE  /\ \A p, q \in Request : pc'[p] \in Progress /\ pc'[q] \in Progress => p = q
                        /\ \A q \in Request : pc'[q] \in Progress => InBalance(q)'
    BY <1>1, <1>4 DEF SerialInv, StoreSame, BookShares, BookValue
  <2>2. ~ overlapped /\ \A q \in Request : q # r => pc[q] \notin Progress
    BY <2>1
  <2>3. \A q \in Request : q # r => pc'[q] \notin Progress
    BY <2>2 DEF Others
  <2>4. /\ Available(Queue(lots), lotSeq) = BookShares
        /\ position.total_cost = RunningSum(Basis(lots))[lotSeq]
        /\ position.total_cost - position.realized_pnl = BookValue
    BY <1>1, <2>2 DEF SerialInv
  <2>5. BookShares' = BookShares /\ BookValue' = BookValue
    BY DEF StoreSame, BookShares, BookValue
  <2>6. NetShares(r, 0) = 0 /\ NetValue(r, 0) = 0
    BY <1>1, LogGrows DEF Sound
  <2>7. RealizedSoFar(r)' = position.realized_pnl
    <3>1. ~ txn'[r].upserted
      BY <1>2, NewView
    <3> QED BY <3>1 DEF RealizedSoFar, RealizedSeen, StoreSame
  <2>8. BookShares \in Int /\ BookValue \in Int
    <3>1. Available(Queue(lots), lotSeq) \in Nat /\ RunningSum(Basis(lots))[lotSeq] \in Nat
      BY <1>1, LotColumns DEF Sound
    <3>2. position.realized_pnl \in Int
      BY <1>1 DEF Sound
    <3> QED BY <2>4, <3>1, <3>2
  <2>9. /\ Queue(View(lots, txn'[r])) = Queue(lots) /\ Basis(View(lots, txn'[r])) = Basis(lots)
    BY <1>2, NewView
  <2>10. InBalance(r)'
    <3>1. Available(Queue(View(lots', txn'[r])), lotSeq') = BookShares' + NetShares(r, Done(pc'[r], txn'[r]))
      BY <1>3, <2>4, <2>5, <2>6, <2>8, <2>9 DEF StoreSame
    <3>2. RunningSum(Basis(View(lots', txn'[r])))[lotSeq'] - RealizedSoFar(r)'
            = BookValue' + NetValue(r, Done(pc'[r], txn'[r]))
      BY <1>3, <2>4, <2>5, <2>6, <2>7, <2>8, <2>9 DEF StoreSame
    <3>3. Len(trades') + Len(Rows[r]) <= TradesPerMonth
      BY DEF StoreSame
    <3> QED BY <3>1, <3>2, <3>3 DEF InBalance
  <2> QED BY <2>3, <2>10
<1> QED BY <1>6, <1>7, <1>8 DEF RequestsInv

(* A request that has been answered has an empty transaction. *)
LEMMA FreshSound ==
  ASSUME NEW r \in Request, pc'[r] \in Answered, txn'[r] = NewTxn
  PROVE  TxnSound(r)'
<1>1. pc'[r] \notin Progress /\ pc'[r] \notin {"read", "write", "commit", "trade"}
  BY DEF Answered, Progress
<1>2. 1 \in 1..Len(Rows[r])
  BY RequestsAssumption
<1>3. NewTxn.rollup \in [quantity : Nat, total_cost : Nat, realized_pnl : Int]
  BY NewView
<1>4. NewTxn.upserted \in BOOLEAN
  BY DEF NewTxn
<1>5. LotTable(NewTxn.wrote, lotSeq')
  BY NewView DEF LotTable
<1> QED BY <1>1, <1>2, <1>3, <1>4, <1>5, NewView DEF TxnSound

(* A request that is rolled back leaves nothing behind.                    *)
LEMMA ResetKeeps ==
  ASSUME RequestsInv, NEW r \in Request, Others(r), StoreSame,
         pc'[r] \in Answered, txn'[r] = NewTxn,
         overlapped' \in BOOLEAN, overlapped => overlapped'
  PROVE  RequestsInv'
<1>1. Sound /\ HasFloors /\ SerialInv
  BY DEF RequestsInv
<1>2. pc'[r] \notin Progress /\ pc'[r] \notin {"write", "list", "get", "upsert", "commit"}
  BY DEF Answered, Progress
<1>3. TxnSound(r)'
  BY FreshSound
<1>4. Sound'
  <2>1. /\ LotTable(lots', lotSeq') /\ DOMAIN lots \subseteq DOMAIN lots' /\ trades' \in Seq(TradeRow)
        /\ position' \in [quantity : Nat, total_cost : Nat, realized_pnl : Int]
        /\ lotSeq' \in {lotSeq, lotSeq + 1}
    BY <1>1 DEF Sound, StoreSame
  <2>2. DOMAIN txn'[r].wrote = {}
    BY NewView
  <2> QED BY <1>1, <1>3, <2>1, <2>2, SoundKept DEF StoreSame
<1>5. HasFloors'
  <2>1. PICK floor \in [Nat -> Int], net \in [Request -> [Nat -> Int]] : Floors(floor, net)
    BY <1>1 DEF HasFloors
  <2> DEFINE none == [l \in Nat |-> 0]
  <2> DEFINE rest == [q \in Request |-> IF q = r THEN none ELSE net[q]]
  <2>2. none \in [Nat -> Int] /\ \A l \in Nat : none[l] = 0
    OBVIOUS
  <2> HIDE DEF none
  <2>3. rest \in [Request -> [Nat -> Int]] /\ rest[r] = none /\ \A q \in Request : q # r => rest[q] = net[q]
    BY <2>2
  <2> HIDE DEF rest
  <2>4. BookShares' = BookShares
    BY DEF StoreSame, BookShares
  <2>5. RequestFloor(floor, rest[r], r)'
    <3>1. RunningSum(none)[lotSeq] = 0
      BY <1>1, <2>2, SumZero DEF Sound
    <3>2. Done(pc'[r], txn'[r]) = 0
      BY <1>2, NewView DEF Done
    <3>3. NetShares(r, 0) = 0
      BY <1>1, LogGrows DEF Sound
    <3>4. /\ DOMAIN View(lots, NewTxn) = DOMAIN lots
          /\ \A l \in DOMAIN lots : View(lots, NewTxn)[l].remaining = lots[l].remaining
      BY NewView
    <3>5. \A l \in DOMAIN lots : lots[l].remaining >= floor[l] + none[l]
      <4>1. \A l \in DOMAIN lots : lots[l].remaining >= floor[l]
        BY <2>1 DEF Floors
      <4>2. DOMAIN lots \subseteq Nat
        BY <1>1 DEF Sound, LotTable
      <4>3. \A l \in DOMAIN lots : none[l] = 0
        BY <2>2, <4>2
      <4>4. \A l \in DOMAIN lots : lots[l].remaining \in Nat
        BY <1>1 DEF Sound, LotTable, LotRow
      <4> QED BY <4>1, <4>2, <4>3, <4>4
    <3>6. ViewFloor(floor, none, lots, View(lots, NewTxn), lotSeq, 0)
      BY <2>2, <3>1, <3>4, <3>5 DEF ViewFloor
    <3> QED BY <2>3, <3>2, <3>3, <3>6 DEF RequestFloor, StoreSame
  <2>6. ASSUME NEW q \in Request, q # r PROVE RequestFloor(floor, rest[q], q)'
    <3>1. RequestFloor(floor, net[q], q) /\ pc'[q] = pc[q] /\ txn'[q] = txn[q]
      BY <2>1, <2>6 DEF Floors, Others
    <3>2. ViewFloor(floor, net[q], lots', View(lots', txn'[q]), lotSeq', NetShares(q, Done(pc'[q], txn'[q])))
      BY <3>1 DEF RequestFloor, StoreSame
    <3> QED BY <2>3, <2>6, <3>2 DEF RequestFloor
  <2>7. Floors(floor, rest)'
    BY <2>1, <2>4, <2>5, <2>6 DEF Floors, StoreSame
  <2> QED BY <2>3, <2>7 DEF HasFloors
<1>6. SerialInv'
  <2>1. SUFFICES ASSUME ~ overlapped'
                 PROVE  /\ \A p, q \in Request : pc'[p] \in Progress /\ pc'[q] \in Progress => p = q
                        /\ \A q \in Request : pc'[q] \in Progress => InBalance(q)'
    BY <1>1 DEF SerialInv, StoreSame, BookShares, BookValue
  <2>2. \A q \in Request : pc'[q] \in Progress => q # r /\ pc'[q] = pc[q] /\ txn'[q] = txn[q]
    BY <1>2 DEF Others
  <2>3. \A q \in Request : pc'[q] \in Progress => InBalance(q)
    BY <1>1, <2>1, <2>2 DEF SerialInv
  <2> QED BY <1>1, <2>1, <2>2, <2>3, BalanceStays DEF SerialInv
<1> QED BY <1>4, <1>5, <1>6 DEF RequestsInv

--------------------------------------------------------------------------------
(* The statements that move no share.                                      *)

(* The duplicate check of a batch writes nothing.                          *)
LEMMA CheckBatchKeeps ==
  ASSUME RequestsInv, NEW r \in Request, CheckBatch(r)
  PROVE  RequestsInv'
<1>1. Sound /\ pc[r] = "import" /\ pc[r] \notin Progress
  BY DEF RequestsInv, CheckBatch, Progress
<1>2. txn[r] = NewTxn /\ txn[r].row = 1
  BY <1>1, NewView DEF Sound, TxnSound
<1>3. /\ StoreSame /\ txn' = txn
      /\ overlapped' = (overlapped \/ \E q \in Request \ {r} : pc[q] \in Progress)
      /\ \/ TradesSeen(r) + Len(Rows[r]) > TradesPerMonth /\ Goto(r, "refused")
         \/ ~ (TradesSeen(r) + Len(Rows[r]) > TradesPerMonth) /\ Goto(r, "quota")
  BY DEF CheckBatch, StoreSame, NoteOverlap
<1>4. overlapped' \in BOOLEAN /\ (overlapped => overlapped')
  BY <1>1, <1>3 DEF Sound
<1>5. Others(r)
  BY <1>1, <1>3 DEF Sound, Others, Goto
<1>6. CASE Goto(r, "refused")
  <2>1. pc'[r] \in Answered /\ txn'[r] = NewTxn
    BY <1>1, <1>2, <1>3, <1>6 DEF Goto, Answered, Sound
  <2> QED BY <1>3, <1>4, <1>5, <2>1, ResetKeeps
<1>7. CASE ~ (TradesSeen(r) + Len(Rows[r]) > TradesPerMonth) /\ Goto(r, "quota")
  <2>1. pc'[r] = "quota" /\ txn'[r] = txn[r]
    BY <1>1, <1>3, <1>7 DEF Goto, Sound
  <2>2. Len(trades) + Len(Rows[r]) <= TradesPerMonth
    <3>1. Len(trades) \in Nat
      BY <1>1 DEF Sound
    <3>2. Rows[r] \in Seq(TradeRow) /\ TradesPerMonth \in Nat
      BY RequestsAssumption
    <3>3. Len(Rows[r]) \in Nat
      BY <3>2
    <3>4. TradesSeen(r) = Len(trades) + 1 - 1
      BY <1>2 DEF TradesSeen
    <3> QED BY <1>7, <3>1, <3>2, <3>3, <3>4
  <2> QED BY <1>1, <1>3, <1>5, <2>1, <2>2, BeginKeeps
<1> QED BY <1>3, <1>6, <1>7

(* The quota check writes nothing.                                         *)
LEMMA CheckQuotaKeeps ==
  ASSUME RequestsInv, NEW r \in Request, CheckQuota(r)
  PROVE  RequestsInv'
<1>1. Sound /\ TxnSound(r) /\ pc[r] \in {"trade", "quota"}
  BY DEF RequestsInv, CheckQuota, Sound
<1>2. /\ StoreSame
      /\ overlapped' = (overlapped \/ \E q \in Request \ {r} : pc[q] \in Progress)
      /\ \/ Refuse(r)
         \/ TradesSeen(r) < TradesPerMonth /\ Goto(r, "insert") /\ txn' = txn
  BY DEF CheckQuota, StoreSame, NoteOverlap
<1>3. overlapped' \in BOOLEAN /\ (overlapped => overlapped')
  BY <1>1, <1>2 DEF Sound
<1>4. CASE Refuse(r)
  <2>1. Others(r) /\ pc'[r] = "refused" /\ txn'[r] = NewTxn
    BY <1>1, <1>4, OneRequestMoves DEF Refuse
  <2> QED BY <1>2, <1>3, <2>1, ResetKeeps DEF Answered
<1>5. CASE TradesSeen(r) < TradesPerMonth /\ Goto(r, "insert") /\ txn' = txn
  <2>1. Others(r) /\ pc'[r] = "insert" /\ txn'[r] = txn[r]
    BY <1>1, <1>5 DEF Sound, Others, Goto
  <2>2. CASE pc[r] = "trade"
    <3>1. pc[r] \notin Progress
      BY <2>2 DEF Progress
    <3>2. txn[r].row = 1 /\ Len(Rows[r]) = 1
      BY <1>1, <2>2, <3>1, NewView DEF TxnSound
    <3>3. Len(trades) \in Nat /\ TradesPerMonth \in Nat
      BY <1>1, RequestsAssumption DEF Sound
    <3>4. Len(trades) + Len(Rows[r]) <= TradesPerMonth
      BY <1>5, <3>2, <3>3 DEF TradesSeen
    <3> QED BY <1>2, <2>1, <3>1, <3>4, BeginKeeps
  <2>3. CASE pc[r] = "quota"
    <3>1. pc[r] \in Progress /\ pc'[r] # "write" /\ pc'[r] # "commit" /\ pc'[r] # "trade" /\ pc'[r] \in Progress
      BY <2>1, <2>3 DEF Progress
    <3>2. TxnSound(r)'
      BY <1>1, <1>2, <2>1, <2>3, <3>1 DEF TxnSound, StoreSame
    <3>3. View(lots, txn'[r]) = View(lots, txn[r]) /\ Done(pc'[r], txn'[r]) = Done(pc[r], txn[r])
      BY <2>1, <2>3 DEF Done
    <3>4. RealizedSoFar(r)' = RealizedSoFar(r)
      BY <1>2, <2>1, <2>3 DEF RealizedSoFar, RealizedSeen, StoreSame
    <3> QED BY <1>2, <1>3, <2>1, <3>1, <3>2, <3>3, <3>4, QuietKeeps
  <2> QED BY <1>1, <2>2, <2>3
<1> QED BY <1>2, <1>4, <1>5

(* A lot is written as planned: the view was there before.                 *)
LEMMA UpdateLotKeeps ==
  ASSUME RequestsInv, NEW r \in Request, UpdateLot(r)
  PROVE  RequestsInv'
<1>1. Sound /\ TxnSound(r) /\ pc[r] = "write"
  BY DEF RequestsInv, UpdateLot, Sound
<1>2. PICK l \in DOMAIN txn[r].plan :
        LET updated == [remaining |-> txn[r].plan[l], cost |-> Visible(r)[l].cost]
            t == [txn[r] EXCEPT !.wrote = Put(txn[r].wrote, l, updated)]
        IN  Becomes(r, [t EXCEPT !.plan = [k \in ToWrite(r) \ {l} |-> txn[r].plan[k]]])
  BY DEF UpdateLot, ToWrite
<1> DEFINE updated == [remaining |-> txn[r].plan[l], cost |-> Visible(r)[l].cost]
           wrote == Put(txn[r].wrote, l, updated)
           plan == [k \in DOMAIN txn[r].plan \ {l} |-> txn[r].plan[k]]
           t == [txn[r] EXCEPT !.wrote = wrote]
           u == [t EXCEPT !.plan = plan]
<1>3. Becomes(r, u)
  BY <1>2 DEF ToWrite
<1> HIDE DEF wrote, plan
<1>4. /\ DOMAIN u = Columns /\ u.row = txn[r].row /\ u.wrote = wrote /\ u.plan = plan
      /\ u.gain = txn[r].gain /\ u.rollup = txn[r].rollup /\ u.upserted = txn[r].upserted
  BY <1>1 DEF TxnSound, Columns
<1> HIDE DEF t, u
<1>5. /\ StoreSame /\ pc' = pc /\ overlapped' = overlapped
  BY DEF UpdateLot, StoreSame
<1>6. Others(r) /\ txn'[r] = u
  BY <1>1, <1>3, <1>5 DEF Sound, Becomes, Others
<1>7. l \in DOMAIN lots \cup DOMAIN txn[r].wrote /\ txn[r].plan[l] \in Nat
  BY <1>1 DEF TxnSound
<1>8. Visible(r)[l] \in LotRow /\ Visible(r)[l] = IF l \in DOMAIN txn[r].wrote THEN txn[r].wrote[l] ELSE lots[l]
  BY <1>1, <1>7 DEF Visible, Sound, TxnSound, LotTable
<1>9. updated \in LotRow /\ updated.remaining = txn[r].plan[l] /\ updated.cost = Visible(r)[l].cost
  BY <1>7, <1>8 DEF LotRow
<1> HIDE DEF updated
<1>10. /\ DOMAIN wrote = DOMAIN txn[r].wrote \cup {l} /\ wrote[l] = updated
       /\ \A k \in DOMAIN txn[r].wrote : k # l => wrote[k] = txn[r].wrote[k]
       /\ DOMAIN plan = DOMAIN txn[r].plan \ {l}
       /\ \A k \in DOMAIN plan : plan[k] = txn[r].plan[k]
  BY DEF wrote, plan, Put
<1>11. View(lots, u) = View(lots, txn[r])
  <2>1. DOMAIN lots \cup DOMAIN u.wrote = DOMAIN lots \cup DOMAIN txn[r].wrote
    BY <1>4, <1>7, <1>10
  <2> DEFINE row(v, k) == LET seen == IF k \in DOMAIN v.wrote THEN v.wrote[k] ELSE lots[k]
                          IN  [remaining |-> IF k \in DOMAIN v.plan THEN v.plan[k] ELSE seen.remaining,
                               cost      |-> seen.cost]
  <2>2. ASSUME NEW k \in DOMAIN lots \cup DOMAIN txn[r].wrote
        PROVE  row(u, k) = row(txn[r], k)
    <3>1. CASE k = l
      <4>1. k \in DOMAIN u.wrote /\ u.wrote[k] = updated /\ k \notin DOMAIN u.plan
        BY <1>4, <1>10, <3>1
      <4>2. row(u, k) = [remaining |-> updated.remaining, cost |-> updated.cost]
        BY <4>1
      <4>3. row(txn[r], k) = [remaining |-> txn[r].plan[k], cost |-> Visible(r)[l].cost]
        BY <1>8, <3>1
      <4> QED BY <1>9, <3>1, <4>2, <4>3
    <3>2. CASE k # l
      BY <1>4, <1>10, <3>2
    <3> QED BY <3>1, <3>2
  <2>3. /\ View(lots, u) = [k \in DOMAIN lots \cup DOMAIN u.wrote |-> row(u, k)]
        /\ View(lots, txn[r]) = [k \in DOMAIN lots \cup DOMAIN txn[r].wrote |-> row(txn[r], k)]
    BY DEF View
  <2> HIDE DEF row
  <2> QED BY <2>1, <2>2, <2>3
<1>12. TxnSound(r)'
  <2>1. LotTable(u.wrote, lotSeq')
    <3>1. \A k \in DOMAIN lots \cup DOMAIN txn[r].wrote : k \in 1..lotSeq
      BY <1>1 DEF Sound, TxnSound, LotTable
    <3>2. \A k \in DOMAIN txn[r].wrote : txn[r].wrote[k] \in LotRow
      BY <1>1 DEF TxnSound, LotTable
    <3> QED BY <1>4, <1>5, <1>7, <1>9, <1>10, <3>1, <3>2 DEF LotTable, StoreSame
  <2>2. /\ DOMAIN u.plan \subseteq DOMAIN lots' \cup DOMAIN u.wrote
        /\ \A k \in DOMAIN u.plan : u.plan[k] \in Nat
    BY <1>1, <1>4, <1>5, <1>10 DEF TxnSound, StoreSame
  <2>3. pc'[r] = "write" /\ pc'[r] \in Progress
    BY <1>1, <1>5 DEF Progress
  <2> QED BY <1>1, <1>4, <1>6, <2>1, <2>2, <2>3 DEF TxnSound
<1>13. Done(pc'[r], txn'[r]) = Done(pc[r], txn[r])
  BY <1>4, <1>5, <1>6 DEF Done
<1>14. RealizedSoFar(r)' = RealizedSoFar(r)
  BY <1>4, <1>5, <1>6 DEF RealizedSoFar, RealizedSeen, StoreSame
<1>15. pc[r] \in Progress /\ overlapped' \in BOOLEAN /\ pc'[r] = "write"
  BY <1>1, <1>5 DEF Progress, Sound
<1> QED BY <1>5, <1>6, <1>11, <1>12, <1>13, <1>14, <1>15, QuietKeeps

(* A finished update goes on to the position.                              *)
LEMMA UpdateDoneKeeps ==
  ASSUME RequestsInv, NEW r \in Request, UpdateDone(r)
  PROVE  RequestsInv'
<1>1. Sound /\ TxnSound(r) /\ pc[r] = "write" /\ DOMAIN txn[r].plan = {}
  BY DEF RequestsInv, UpdateDone, ToWrite, Sound
<1>2. StoreSame /\ txn' = txn /\ overlapped' = overlapped /\ Goto(r, "list")
  BY DEF UpdateDone, StoreSame
<1>3. Others(r) /\ pc'[r] = "list" /\ txn'[r] = txn[r]
  BY <1>1, <1>2 DEF Sound, Others, Goto
<1>4. pc[r] \in Progress /\ pc'[r] \in Progress /\ overlapped' \in BOOLEAN
  BY <1>1, <1>2, <1>3 DEF Progress, Sound
<1>5. TxnSound(r)'
  BY <1>1, <1>2, <1>3, <1>4 DEF TxnSound, StoreSame
<1>6. RealizedSoFar(r)' = RealizedSoFar(r)
  BY <1>1, <1>2, <1>3 DEF RealizedSoFar, RealizedSeen, StoreSame
<1>7. Done(pc'[r], txn'[r]) = Done(pc[r], txn[r])
  BY <1>1, <1>3 DEF Done
<1> QED BY <1>2, <1>3, <1>4, <1>5, <1>6, <1>7, QuietKeeps

(* The quantity and the cost are read off the view.                        *)
LEMMA ListLotsKeeps ==
  ASSUME RequestsInv, NEW r \in Request, ListLots(r)
  PROVE  RequestsInv'
<1>1. Sound /\ TxnSound(r) /\ pc[r] = "list" /\ DOMAIN txn[r].plan = {}
  BY DEF RequestsInv, ListLots, Sound, TxnSound
<1> DEFINE new == [quantity     |-> Held(Visible(r)),
                   total_cost   |-> CostOf(Visible(r)),
                   realized_pnl |-> txn[r].rollup.realized_pnl]
           u == [txn[r] EXCEPT !.rollup = new]
<1>2. Becomes(r, u) /\ Goto(r, "get")
  BY DEF ListLots
<1>3. StoreSame /\ overlapped' = overlapped
  BY DEF ListLots, StoreSame
<1>4. /\ new.quantity = Available(Queue(View(lots, txn[r])), lotSeq)
      /\ new.total_cost = RunningSum(Basis(View(lots, txn[r])))[lotSeq]
      /\ new.realized_pnl = txn[r].rollup.realized_pnl
      /\ new \in [quantity : Nat, total_cost : Nat, realized_pnl : Int]
  <2>1. Visible(r) = View(lots, txn[r])
    BY <1>1, SeesView
  <2>2. LotTable(View(lots, txn[r]), lotSeq) /\ lotSeq \in Nat
    BY <1>1, ViewTable DEF Sound, TxnSound
  <2>3. /\ Available(Queue(View(lots, txn[r])), lotSeq) \in Nat
        /\ RunningSum(Basis(View(lots, txn[r])))[lotSeq] \in Nat
    BY <2>2, LotColumns
  <2>4. txn[r].rollup.realized_pnl \in Int
    BY <1>1 DEF TxnSound
  <2> QED BY <2>1, <2>3, <2>4 DEF Held, CostOf
<1> HIDE DEF new
<1>5. /\ DOMAIN u = Columns /\ u.row = txn[r].row /\ u.wrote = txn[r].wrote /\ u.plan = txn[r].plan
      /\ u.gain = txn[r].gain /\ u.rollup = new /\ u.upserted = txn[r].upserted
  BY <1>1 DEF TxnSound, Columns
<1> HIDE DEF u
<1>6. Others(r) /\ pc'[r] = "get" /\ txn'[r] = u
  BY <1>1, <1>2, OneRequestMoves
<1>7. pc[r] \in Progress /\ pc'[r] \in Progress /\ overlapped' \in BOOLEAN
  BY <1>1, <1>3, <1>6 DEF Progress, Sound
<1>8. TxnSound(r)'
  BY <1>1, <1>3, <1>4, <1>5, <1>6, <1>7 DEF TxnSound, StoreSame
<1>9. View(lots, txn'[r]) = View(lots, txn[r])
  BY <1>5, <1>6, SameView
<1>10. RealizedSoFar(r)' = RealizedSoFar(r)
  BY <1>1, <1>3, <1>4, <1>5, <1>6 DEF RealizedSoFar, RealizedSeen, StoreSame
<1>11. Done(pc'[r], txn'[r]) = Done(pc[r], txn[r])
  BY <1>1, <1>5, <1>6 DEF Done
<1> QED BY <1>3, <1>4, <1>5, <1>6, <1>7, <1>8, <1>9, <1>10, <1>11, QuietKeeps

(* Reading the position writes nothing.                                    *)
LEMMA GetPositionKeeps ==
  ASSUME RequestsInv, NEW r \in Request, GetPosition(r)
  PROVE  RequestsInv'
<1>1. Sound /\ TxnSound(r) /\ pc[r] = "get"
  BY DEF RequestsInv, GetPosition, Sound
<1> DEFINE new == [txn[r].rollup EXCEPT !.realized_pnl = RealizedSeen(r) + txn[r].gain]
           u == [txn[r] EXCEPT !.rollup = new]
<1>2. Becomes(r, u) /\ Goto(r, "upsert")
  BY DEF GetPosition
<1>3. StoreSame /\ overlapped' = overlapped
  BY DEF GetPosition, StoreSame
<1>4. /\ new.quantity = txn[r].rollup.quantity
      /\ new.total_cost = txn[r].rollup.total_cost
      /\ new.realized_pnl = RealizedSeen(r) + txn[r].gain
      /\ new \in [quantity : Nat, total_cost : Nat, realized_pnl : Int]
  <2>1. txn[r].rollup \in [quantity : Nat, total_cost : Nat, realized_pnl : Int] /\ txn[r].gain \in Int
    BY <1>1 DEF TxnSound
  <2>2. RealizedSeen(r) \in Int
    BY <1>1, <2>1 DEF Sound, RealizedSeen
  <2> QED BY <2>1, <2>2
<1> HIDE DEF new
<1>5. /\ DOMAIN u = Columns /\ u.row = txn[r].row /\ u.wrote = txn[r].wrote /\ u.plan = txn[r].plan
      /\ u.gain = txn[r].gain /\ u.rollup = new /\ u.upserted = txn[r].upserted
  BY <1>1 DEF TxnSound, Columns
<1> HIDE DEF u
<1>6. Others(r) /\ pc'[r] = "upsert" /\ txn'[r] = u
  BY <1>1, <1>2, OneRequestMoves
<1>7. pc[r] \in Progress /\ pc'[r] \in Progress /\ overlapped' \in BOOLEAN
  BY <1>1, <1>3, <1>6 DEF Progress, Sound
<1>8. TxnSound(r)'
  BY <1>1, <1>3, <1>4, <1>5, <1>6, <1>7 DEF TxnSound, StoreSame
<1>9. View(lots, txn'[r]) = View(lots, txn[r])
  BY <1>5, <1>6, SameView
<1>10. RealizedSoFar(r)' = RealizedSoFar(r)
  <2>1. RealizedSoFar(r)' = txn'[r].rollup.realized_pnl
    BY <1>6 DEF RealizedSoFar
  <2>2. RealizedSoFar(r) = RealizedSeen(r) + txn[r].gain
    BY <1>1 DEF RealizedSoFar
  <2> QED BY <1>4, <1>5, <1>6, <2>1, <2>2
<1>11. Done(pc'[r], txn'[r]) = Done(pc[r], txn[r])
  BY <1>1, <1>5, <1>6 DEF Done
<1>12. ~ overlapped => /\ txn[r].rollup.quantity = Available(Queue(View(lots, txn[r])), lotSeq)
                       /\ txn[r].rollup.total_cost = RunningSum(Basis(View(lots, txn[r])))[lotSeq]
  BY <1>1, <1>7 DEF RequestsInv, SerialInv, InBalance
<1> QED BY <1>3, <1>4, <1>5, <1>6, <1>7, <1>8, <1>9, <1>10, <1>11, <1>12, QuietKeeps

(* The upsert writes the position of its own transaction.                  *)
LEMMA UpsertKeeps ==
  ASSUME RequestsInv, NEW r \in Request, UpsertPosition(r)
  PROVE  RequestsInv'
<1>1. Sound /\ TxnSound(r) /\ pc[r] = "upsert" /\ DOMAIN txn[r].plan = {}
  BY DEF RequestsInv, UpsertPosition, Sound, TxnSound
<1> DEFINE t == [txn[r] EXCEPT !.upserted = TRUE]
           u == [t EXCEPT !.row = txn[r].row + 1]
<1>2. \/ txn[r].row < Len(Rows[r]) /\ Goto(r, "quota") /\ Becomes(r, u)
      \/ txn[r].row = Len(Rows[r]) /\ Goto(r, "commit") /\ Becomes(r, t)
  BY DEF UpsertPosition
<1>3. StoreSame /\ overlapped' = overlapped
  BY DEF UpsertPosition, StoreSame
<1>4. /\ DOMAIN t = Columns /\ t.row = txn[r].row /\ t.wrote = txn[r].wrote /\ t.plan = txn[r].plan
      /\ t.gain = txn[r].gain /\ t.rollup = txn[r].rollup /\ t.upserted
  BY <1>1 DEF TxnSound, Columns
<1> HIDE DEF t
<1>5. /\ DOMAIN u = Columns /\ u.row = txn[r].row + 1 /\ u.wrote = txn[r].wrote /\ u.plan = txn[r].plan
      /\ u.gain = txn[r].gain /\ u.rollup = txn[r].rollup /\ u.upserted
  BY <1>4 DEF Columns
<1> HIDE DEF u
<1>6. txn[r].row \in Nat /\ Len(Rows[r]) \in Nat /\ txn[r].row >= 1
  <2>1. Rows[r] \in Seq(TradeRow)
    BY RequestsAssumption
  <2>2. Len(Rows[r]) \in Nat
    BY <2>1
  <2> QED BY <1>1, <2>2 DEF TxnSound
<1>7. /\ Others(r) /\ txn'[r] \in {t, u}
      /\ \/ pc'[r] = "quota" /\ txn'[r] = u /\ txn[r].row + 1 \in 1..Len(Rows[r])
         \/ pc'[r] = "commit" /\ txn'[r] = t /\ txn[r].row = Len(Rows[r])
  <2>1. CASE txn[r].row < Len(Rows[r]) /\ Goto(r, "quota") /\ Becomes(r, u)
    BY <1>1, <1>6, <2>1, OneRequestMoves
  <2>2. CASE txn[r].row = Len(Rows[r]) /\ Goto(r, "commit") /\ Becomes(r, t)
    BY <1>1, <1>6, <2>2, OneRequestMoves
  <2> QED BY <1>2, <2>1, <2>2
<1>8. /\ DOMAIN txn'[r] = Columns /\ txn'[r].row \in 1..Len(Rows[r])
      /\ txn'[r].wrote = txn[r].wrote /\ txn'[r].plan = txn[r].plan
      /\ txn'[r].gain = txn[r].gain /\ txn'[r].rollup = txn[r].rollup /\ txn'[r].upserted
      /\ pc'[r] = "commit" => txn'[r].row = Len(Rows[r])
      /\ pc'[r] \in {"quota", "commit"}
  BY <1>1, <1>4, <1>5, <1>7 DEF TxnSound
<1>9. pc[r] \in Progress /\ pc'[r] \in Progress /\ overlapped' \in BOOLEAN /\ pc'[r] # "trade"
  BY <1>1, <1>3, <1>8 DEF Progress, Sound
<1>10. TxnSound(r)'
  <2>1. txn'[r].upserted \in BOOLEAN
    BY <1>4, <1>5, <1>7 DEF TxnSound
  <2> QED BY <1>1, <1>3, <1>8, <1>9, <2>1 DEF TxnSound, StoreSame
<1>11. View(lots, txn'[r]) = View(lots, txn[r])
  BY <1>8, SameView
<1>12. RealizedSoFar(r)' = RealizedSoFar(r)
  BY <1>1, <1>7, <1>8 DEF RealizedSoFar, RealizedSeen
<1>13. Done(pc'[r], txn'[r]) = Done(pc[r], txn[r])
  BY <1>1, <1>4, <1>5, <1>6, <1>7 DEF Done
<1>14. ~ overlapped => /\ txn[r].rollup.quantity = Available(Queue(View(lots, txn[r])), lotSeq)
                       /\ txn[r].rollup.total_cost = RunningSum(Basis(View(lots, txn[r])))[lotSeq]
  BY <1>1, <1>9 DEF RequestsInv, SerialInv, InBalance
<1> QED BY <1>3, <1>7, <1>8, <1>9, <1>10, <1>11, <1>12, <1>13, <1>14, QuietKeeps

--------------------------------------------------------------------------------
(* The statements that move shares.                                        *)

(* A floor holds with one more id drawn, of which the request knows        *)
(* nothing.                                                                *)
LEMMA FloorGrows ==
  ASSUME NEW floor, NEW net \in [Nat -> Int], NEW table, NEW view, NEW last \in Nat, NEW moved,
         ViewFloor(floor, net, table, view, last, moved), last + 1 \notin DOMAIN view
  PROVE  ViewFloor(floor, net, table, view, last + 1, moved)
<1>1. net[last + 1] = 0
  BY DEF ViewFloor
<1>2. RunningSum(net)[last + 1] = RunningSum(net)[last]
  BY <1>1, TotalStays
<1> QED BY <1>2 DEF ViewFloor

(* The opening lots are a table of lots, and the book is in whole numbers. *)
LEMMA BookIntegers ==
  ASSUME Sound
  PROVE  /\ Len(OpeningLots) \in Nat /\ LotTable(OpeningLots, Len(OpeningLots))
         /\ OpeningShares \in Nat /\ OpeningCost \in Nat
         /\ BookShares \in Int /\ BookValue \in Int
<1>1. OpeningLots \in Seq(LotRow) /\ trades \in Seq(TradeRow)
  BY RequestsAssumption DEF Sound
<1>2. Len(OpeningLots) \in Nat /\ LotTable(OpeningLots, Len(OpeningLots))
  BY <1>1 DEF LotTable
<1>3. OpeningShares \in Nat
  BY <1>2, LotColumns DEF OpeningShares
<1>4. OpeningCost \in Nat
  BY <1>2, LotColumns DEF OpeningCost
<1>5. /\ SharesColumn(trades) \in [Nat -> Int] /\ ValueColumn(trades) \in [Nat -> Int]
      /\ Len(trades) \in Nat
  BY <1>1, LogColumns
<1>6. /\ RunningSum(SharesColumn(trades)) \in [Nat -> Int]
      /\ RunningSum(ValueColumn(trades)) \in [Nat -> Int]
  BY <1>5, RunningSumDef
<1>7. RunningSum(SharesColumn(trades))[Len(trades)] \in Int
  BY <1>5, <1>6
<1>8. RunningSum(ValueColumn(trades))[Len(trades)] \in Int
  BY <1>5, <1>6
<1>9. BookShares \in Int
  BY <1>3, <1>7 DEF BookShares
<1>10. BookValue \in Int
  BY <1>4, <1>8 DEF BookValue
<1> QED BY <1>2, <1>3, <1>4, <1>9, <1>10

(* INSERT of a BUY: the lot is the request's own until it commits.         *)
LEMMA InsertBuyKeeps ==
  ASSUME RequestsInv, NEW r \in Request, InsertRows(r), Row(r).action = "BUY"
  PROVE  RequestsInv'
<1>1. Sound /\ TxnSound(r) /\ pc[r] = "insert" /\ DOMAIN txn[r].plan = {} /\ lotSeq \in Nat
      /\ HasFloors /\ SerialInv
  BY DEF RequestsInv, InsertRows, Sound, TxnSound
<1> DEFINE n == lotSeq + 1
           bought == [remaining |-> Row(r).qty, cost |-> Row(r).unit]
           wrote == Put(txn[r].wrote, n, bought)
           t == [txn[r] EXCEPT !.wrote = wrote]
           u == [t EXCEPT !.gain = 0]
           view == View(lots, txn[r])
<1>2. lotSeq' = n /\ Becomes(r, u) /\ Goto(r, "list")
      /\ trades' = trades /\ lots' = lots /\ position' = position /\ overlapped' = overlapped
  BY DEF InsertRows, DrawnLot
<1>3. /\ Row(r) \in TradeRow /\ Row(r).qty \in Nat /\ Row(r).unit \in Nat
      /\ NetShares(r, txn[r].row - 1) \in Int /\ NetValue(r, txn[r].row - 1) \in Int
      /\ NetShares(r, txn[r].row) = NetShares(r, txn[r].row - 1) + Row(r).qty
      /\ NetValue(r, txn[r].row) = NetValue(r, txn[r].row - 1) + Row(r).qty * Row(r).unit
  BY <1>1, RowMoves DEF TxnSound, Row
<1>4. bought \in LotRow /\ bought.remaining = Row(r).qty /\ bought.cost = Row(r).unit
  BY <1>3 DEF LotRow
<1> HIDE DEF bought, wrote
<1>5. /\ DOMAIN u = Columns /\ u.row = txn[r].row /\ u.wrote = wrote /\ u.plan = txn[r].plan
      /\ u.gain = 0 /\ u.rollup = txn[r].rollup /\ u.upserted = txn[r].upserted
  BY <1>1 DEF TxnSound, Columns
<1> HIDE DEF t, u
<1>6. Others(r) /\ pc'[r] = "list" /\ txn'[r] = u
  BY <1>1, <1>2, OneRequestMoves
<1>7. /\ DOMAIN wrote = DOMAIN txn[r].wrote \cup {n} /\ wrote[n] = bought
      /\ \A k \in DOMAIN txn[r].wrote : k # n => wrote[k] = txn[r].wrote[k]
  BY DEF wrote, Put
<1>8. n \in Nat /\ n \notin DOMAIN lots /\ \A q \in Request : n \notin DOMAIN txn[q].wrote
  BY <1>1 DEF Sound, TxnSound, LotTable
<1>9. /\ LotTable(view, lotSeq) /\ DOMAIN view = DOMAIN lots \cup DOMAIN txn[r].wrote
  <2>1. LotTable(lots, lotSeq) /\ LotTable(txn[r].wrote, lotSeq) /\ \A l \in DOMAIN txn[r].plan : txn[r].plan[l] \in Nat
    BY <1>1 DEF Sound, TxnSound
  <2> QED BY <1>1, <2>1, ViewTable
<1>10. View(lots, u) = Put(view, n, bought)
  <2>1. DOMAIN lots \cup DOMAIN u.wrote = DOMAIN view \cup {n}
    BY <1>5, <1>7, <1>9
  <2> DEFINE row(v, k) == LET seen == IF k \in DOMAIN v.wrote THEN v.wrote[k] ELSE lots[k]
                          IN  [remaining |-> IF k \in DOMAIN v.plan THEN v.plan[k] ELSE seen.remaining,
                               cost      |-> seen.cost]
  <2>2. row(u, n) = bought
    <3>1. row(u, n) = [remaining |-> bought.remaining, cost |-> bought.cost]
      BY <1>1, <1>5, <1>7
    <3> QED BY <1>4, <3>1 DEF LotRow
  <2>3. ASSUME NEW k \in DOMAIN view PROVE row(u, k) = row(txn[r], k)
    <3>1. k # n
      BY <1>8, <1>9
    <3> QED BY <1>1, <1>5, <1>7, <3>1
  <2>4. /\ View(lots, u) = [k \in DOMAIN lots \cup DOMAIN u.wrote |-> row(u, k)]
        /\ View(lots, txn[r]) = [k \in DOMAIN lots \cup DOMAIN txn[r].wrote |-> row(txn[r], k)]
    BY DEF View
  <2> HIDE DEF row
  <2>5. \A k \in DOMAIN view : row(u, k) = view[k] /\ k # n
    BY <1>8, <1>9, <2>3, <2>4
  <2> HIDE DEF view
  <2> QED BY <2>1, <2>2, <2>4, <2>5 DEF Put
<1> HIDE DEF view
<1>11. TxnSound(r)'
  <2>1. LotTable(u.wrote, lotSeq')
    <3>1. \A k \in DOMAIN txn[r].wrote : k \in 1..lotSeq /\ txn[r].wrote[k] \in LotRow
      BY <1>1 DEF TxnSound, LotTable
    <3> QED BY <1>1, <1>2, <1>4, <1>5, <1>7, <3>1 DEF LotTable
  <2>2. pc'[r] \in Progress
    BY <1>6 DEF Progress
  <2>3. DOMAIN txn'[r].plan = {}
    BY <1>1, <1>5, <1>6
  <2> QED BY <1>1, <1>5, <1>6, <2>1, <2>2, <2>3 DEF TxnSound
<1>12. Sound'
  <2>1. LotTable(lots, lotSeq)
    BY <1>1 DEF Sound
  <2>2. LotTable(lots', lotSeq')
    BY <1>1, <1>2, <2>1 DEF LotTable
  <2>3. /\ trades' \in Seq(TradeRow) /\ overlapped' \in BOOLEAN
        /\ position' \in [quantity : Nat, total_cost : Nat, realized_pnl : Int]
        /\ lotSeq' \in {lotSeq, lotSeq + 1} /\ DOMAIN lots \subseteq DOMAIN lots'
    BY <1>1, <1>2 DEF Sound
  <2>4. \A l \in DOMAIN txn'[r].wrote : \/ l \in DOMAIN lots' \cup DOMAIN txn[r].wrote
                                        \/ l = lotSeq + 1
    BY <1>5, <1>6, <1>7
  <2> QED BY <1>1, <1>6, <1>11, <2>2, <2>3, <2>4, SoundKept
<1>13. BookShares' = BookShares /\ BookValue' = BookValue
  BY <1>2 DEF BookShares, BookValue
<1>14. Done(pc[r], txn[r]) = txn[r].row - 1 /\ Done(pc'[r], txn'[r]) = txn[r].row
  BY <1>1, <1>5, <1>6 DEF Done
<1>15. HasFloors'
  <2>1. PICK floor \in [Nat -> Int], net \in [Request -> [Nat -> Int]] : Floors(floor, net)
    BY <1>1 DEF HasFloors
  <2>2. PICK own \in [Nat -> Int] : own[n] = Row(r).qty /\ \A l \in Nat : l # n => own[l] = net[r][l]
    <3> DEFINE witness == [l \in Nat |-> IF l = n THEN Row(r).qty ELSE net[r][l]]
    <3>1. witness \in [Nat -> Int] /\ witness[n] = Row(r).qty /\ \A l \in Nat : l # n => witness[l] = net[r][l]
      BY <1>3, <1>8
    <3> HIDE DEF witness
    <3> QED BY <3>1
  <2> DEFINE with == [q \in Request |-> IF q = r THEN own ELSE net[q]]
  <2>3. with \in [Request -> [Nat -> Int]] /\ with[r] = own /\ \A q \in Request : q # r => with[q] = net[q]
    OBVIOUS
  <2> HIDE DEF with
  <2>4. RunningSum(floor)[lotSeq'] = BookShares'
    <3>1. floor[n] = 0
      BY <1>8, <2>1 DEF Floors
    <3>2. RunningSum(floor)[lotSeq + 1] = RunningSum(floor)[lotSeq]
      BY <1>1, <3>1, TotalStays
    <3> QED BY <1>2, <1>13, <2>1, <3>2 DEF Floors
  <2>5. RequestFloor(floor, with[r], r)'
    <3>1. ViewFloor(floor, net[r], lots, view, lotSeq, NetShares(r, txn[r].row - 1))
      BY <1>14, <2>1 DEF Floors, RequestFloor, view
    <3>2. RunningSum(own)[n] = RunningSum(net[r])[lotSeq] + Row(r).qty
      <4>1. \A i \in 1..lotSeq : net[r][i] = own[i]
        BY <1>1, <2>2
      <4> QED BY <1>1, <2>2, <4>1, TotalGrows
    <3>3. RunningSum(own)[n] = NetShares(r, txn[r].row)
      BY <1>3, <3>1, <3>2 DEF ViewFloor
    <3>4. /\ DOMAIN View(lots, u) = DOMAIN view \cup {n} /\ View(lots, u)[n] = bought
          /\ \A l \in DOMAIN view : l # n => View(lots, u)[l] = view[l]
      BY <1>10 DEF Put
    <3>5. floor[n] = 0
      BY <1>8, <2>1 DEF Floors
    <3>6. \A l \in DOMAIN View(lots, u) : View(lots, u)[l].remaining >= floor[l] + own[l]
      <4>1. View(lots, u)[n].remaining >= floor[n] + own[n]
        BY <1>3, <1>4, <2>2, <3>4, <3>5
      <4>2. ASSUME NEW l \in DOMAIN view, l # n
            PROVE  View(lots, u)[l].remaining >= floor[l] + own[l]
        <5>1. view[l].remaining >= floor[l] + net[r][l] /\ l \in Nat
          BY <1>9, <3>1 DEF ViewFloor, LotTable
        <5> QED BY <2>2, <3>4, <4>2, <5>1
      <4> QED BY <3>4, <4>1, <4>2
    <3>7. \A l \in Nat : /\ l \in DOMAIN lots => own[l] <= 0
                         /\ l \notin DOMAIN View(lots, u) => own[l] = 0
      BY <1>8, <2>2, <3>1, <3>4 DEF ViewFloor
    <3>8. ViewFloor(floor, own, lots, View(lots, u), n, NetShares(r, txn[r].row))
      BY <3>3, <3>6, <3>7 DEF ViewFloor
    <3> QED BY <1>2, <1>6, <1>14, <2>3, <3>8 DEF RequestFloor
  <2>6. ASSUME NEW q \in Request, q # r PROVE RequestFloor(floor, with[q], q)'
    <3>1. RequestFloor(floor, net[q], q) /\ pc'[q] = pc[q] /\ txn'[q] = txn[q] /\ net[q] \in [Nat -> Int]
      BY <1>6, <2>1, <2>6 DEF Floors, Others
    <3>2. n \notin DOMAIN View(lots, txn[q])
      BY <1>8 DEF View
    <3>3. ViewFloor(floor, net[q], lots, View(lots, txn[q]), lotSeq + 1, NetShares(q, Done(pc[q], txn[q])))
      BY <1>1, <3>1, <3>2, FloorGrows DEF RequestFloor
    <3>4. ViewFloor(floor, net[q], lots', View(lots', txn'[q]), lotSeq', NetShares(q, Done(pc'[q], txn'[q])))
      BY <1>2, <3>1, <3>3
    <3> QED BY <2>3, <2>6, <3>4 DEF RequestFloor
  <2>7. Floors(floor, with)'
    BY <1>2, <2>1, <2>4, <2>5, <2>6 DEF Floors
  <2> QED BY <2>3, <2>7 DEF HasFloors
<1>16. SerialInv'
  <2>1. SUFFICES ASSUME ~ overlapped PROVE SerialInv'
    BY <1>2 DEF SerialInv
  <2>2. /\ Available(Queue(lots), lotSeq + 1) = Available(Queue(lots), lotSeq)
        /\ RunningSum(Basis(lots))[lotSeq + 1] = RunningSum(Basis(lots))[lotSeq]
    BY <1>1, TotalsStay DEF Sound
  <2>3. \A q \in Request : pc'[q] \in Progress => q = r
    <3>1. pc[r] \in Progress
      BY <1>1 DEF Progress
    <3> QED BY <1>1, <1>6, <2>1, <3>1 DEF SerialInv, Others
  <2>4. InBalance(r)
    BY <1>1, <2>1 DEF SerialInv, Progress
  <2>5. /\ Available(Queue(View(lots, u)), n) = Available(Queue(view), lotSeq) + Row(r).qty
        /\ RunningSum(Basis(View(lots, u)))[n] = RunningSum(Basis(view))[lotSeq] + Row(r).qty * Row(r).unit
    BY <1>1, <1>4, <1>9, <1>10, LotAdded
  <2>6. RealizedSoFar(r)' = RealizedSoFar(r) /\ RealizedSoFar(r) \in Int
    <3>1. RealizedSeen(r) \in Int
      BY <1>1 DEF Sound, TxnSound, RealizedSeen
    <3>2. RealizedSeen(r)' = RealizedSeen(r)
      BY <1>2, <1>5, <1>6 DEF RealizedSeen
    <3>3. RealizedSoFar(r)' = RealizedSeen(r)' + txn'[r].gain
      BY <1>6 DEF RealizedSoFar
    <3>4. RealizedSoFar(r) = RealizedSeen(r)
      BY <1>1 DEF RealizedSoFar
    <3> QED BY <1>5, <1>6, <3>1, <3>2, <3>3, <3>4
  <2>7. /\ Available(Queue(view), lotSeq) = BookShares + NetShares(r, txn[r].row - 1)
        /\ RunningSum(Basis(view))[lotSeq] - RealizedSoFar(r) = BookValue + NetValue(r, txn[r].row - 1)
        /\ Len(trades) + Len(Rows[r]) <= TradesPerMonth
    BY <1>14, <2>4 DEF InBalance, view
  <2>8. /\ Available(Queue(view), lotSeq) \in Nat /\ RunningSum(Basis(view))[lotSeq] \in Nat
        /\ BookShares \in Int /\ BookValue \in Int /\ Row(r).qty * Row(r).unit \in Int
    <3>1. Available(Queue(view), lotSeq) \in Nat /\ RunningSum(Basis(view))[lotSeq] \in Nat
      BY <1>1, <1>9, LotColumns
    <3>3. BookShares \in Int /\ BookValue \in Int
      BY <1>1, BookIntegers
    <3> QED BY <1>3, <3>1, <3>3
  <2>9. Available(Queue(View(lots, u)), n) = BookShares + NetShares(r, txn[r].row)
    BY <1>3, <2>5, <2>7, <2>8
  <2>10. RunningSum(Basis(View(lots, u)))[n] - RealizedSoFar(r) = BookValue + NetValue(r, txn[r].row)
    <3> DEFINE value == Row(r).qty * Row(r).unit
    <3> DEFINE before == RunningSum(Basis(view))[lotSeq]
    <3> DEFINE after == RunningSum(Basis(View(lots, u)))[n]
    <3> DEFINE gains == RealizedSoFar(r)
    <3> DEFINE done == NetValue(r, txn[r].row - 1)
    <3> DEFINE doing == NetValue(r, txn[r].row)
    <3>1. after = before + value /\ value \in Int /\ before \in Int
      BY <2>5, <2>8
    <3>2. doing = done + value /\ done \in Int
      BY <1>3
    <3>3. gains \in Int /\ BookValue \in Int
      BY <2>6, <2>8
    <3>4. before - gains = BookValue + done
      BY <2>7
    <3> HIDE DEF value, before, after, gains, done, doing
    <3>5. after - gains = BookValue + doing
      BY ONLY <3>1, <3>2, <3>3, <3>4
    <3> QED BY <3>5 DEF after, gains, doing
  <2>11. InBalance(r)'
    <3>1. Available(Queue(View(lots', txn'[r])), lotSeq') = BookShares' + NetShares(r, Done(pc'[r], txn'[r]))
      BY <1>2, <1>6, <1>13, <1>14, <2>9
    <3>2. RunningSum(Basis(View(lots', txn'[r])))[lotSeq'] - RealizedSoFar(r)'
            = BookValue' + NetValue(r, Done(pc'[r], txn'[r]))
      BY <1>2, <1>6, <1>13, <1>14, <2>6, <2>10
    <3>3. Len(trades') + Len(Rows[r]) <= TradesPerMonth
      BY <1>2, <2>7
    <3> QED BY <1>6, <3>1, <3>2, <3>3 DEF InBalance
  <2> QED BY <1>1, <1>2, <1>13, <2>1, <2>2, <2>3, <2>11 DEF SerialInv
<1> QED BY <1>12, <1>15, <1>16 DEF RequestsInv

(* INSERT of a SELL: the lots are read next. *)
LEMMA InsertSellKeeps ==
  ASSUME RequestsInv, NEW r \in Request, InsertRows(r), Row(r).action = "SELL"
  PROVE  RequestsInv'
<1>1. Sound /\ TxnSound(r) /\ pc[r] = "insert" /\ Rows[r][txn[r].row].action = "SELL"
  BY DEF RequestsInv, InsertRows, Sound, Row
<1>2. StoreSame /\ txn' = txn /\ overlapped' = overlapped /\ Goto(r, "read")
  BY DEF InsertRows, StoreSame
<1>3. Others(r) /\ pc'[r] = "read" /\ txn'[r] = txn[r]
  BY <1>1, <1>2 DEF Sound, Others, Goto
<1>4. pc[r] \in Progress /\ pc'[r] \in Progress /\ overlapped' \in BOOLEAN
  BY <1>1, <1>2, <1>3 DEF Progress, Sound
<1>5. TxnSound(r)'
  BY <1>1, <1>2, <1>3, <1>4 DEF TxnSound, StoreSame
<1>6. RealizedSoFar(r)' = RealizedSoFar(r)
  BY <1>1, <1>2, <1>3 DEF RealizedSoFar, RealizedSeen, StoreSame
<1>7. Done(pc'[r], txn'[r]) = Done(pc[r], txn[r])
  BY <1>1, <1>3 DEF Done
<1> QED BY <1>2, <1>3, <1>4, <1>5, <1>6, <1>7, QuietKeeps

(* A sale is computed: the view moves to what the UPDATE will write. *)
LEMMA ReadLotsKeeps ==
  ASSUME RequestsInv, NEW r \in Request, ReadLots(r)
  PROVE  RequestsInv'
<1>1. Sound /\ TxnSound(r) /\ pc[r] = "read" /\ DOMAIN txn[r].plan = {} /\ lotSeq \in Nat
      /\ HasFloors /\ SerialInv
  BY DEF RequestsInv, ReadLots, Sound, TxnSound
<1> DEFINE view == View(lots, txn[r])
           qty == Row(r).qty
           taken == Consumed(Queue(view), qty)
           cost == CostOfSale(Queue(view), UnitCost(view), qty, lotSeq)
           open == {l \in DOMAIN view : view[l].remaining > 0}
           plan == [l \in open |-> view[l].remaining - taken[l]]
           gain == qty * Row(r).unit - cost
           t == [txn[r] EXCEPT !.plan = plan]
           u == [t EXCEPT !.gain = gain]
<1>2. Visible(r) = view
  BY <1>1, SeesView
<1>3. /\ StoreSame /\ overlapped' = overlapped
      /\ \/ Refuse(r)
         \/ qty <= Held(view) /\ Goto(r, "write") /\ Becomes(r, u)
  BY <1>2 DEF ReadLots, StoreSame
<1>4. /\ Row(r) \in TradeRow /\ qty \in Nat /\ Row(r).unit \in Nat
      /\ NetShares(r, txn[r].row - 1) \in Int /\ NetValue(r, txn[r].row - 1) \in Int
      /\ NetShares(r, txn[r].row) = NetShares(r, txn[r].row - 1) - qty
      /\ NetValue(r, txn[r].row) = NetValue(r, txn[r].row - 1) - qty * Row(r).unit
  <2>1. /\ Row(r) \in TradeRow /\ qty \in Nat /\ Row(r).unit \in Nat
        /\ NetShares(r, txn[r].row - 1) \in Int /\ NetValue(r, txn[r].row - 1) \in Int
        /\ NetShares(r, txn[r].row) = NetShares(r, txn[r].row - 1) + (-qty)
        /\ NetValue(r, txn[r].row) = NetValue(r, txn[r].row - 1) + (-(qty * Row(r).unit))
    <3>1. Row(r).action = "SELL"
      BY <1>1 DEF TxnSound, Row
    <3> QED BY <1>1, <3>1, RowMoves DEF TxnSound, Row
  <2> DEFINE value == qty * Row(r).unit
  <2>2. value \in Nat
    BY <2>1
  <2>3. NetValue(r, txn[r].row) = NetValue(r, txn[r].row - 1) + (-value)
    BY <2>1
  <2> HIDE DEF value
  <2>4. NetValue(r, txn[r].row) = NetValue(r, txn[r].row - 1) - value
    BY <2>1, <2>2, <2>3
  <2> HIDE DEF qty
  <2> QED BY <2>1, <2>4 DEF value
<1> HIDE DEF qty
<1>5. CASE Refuse(r)
  <2>1. Others(r) /\ pc'[r] = "refused" /\ txn'[r] = NewTxn
    BY <1>1, <1>5, OneRequestMoves DEF Refuse
  <2>2. overlapped' \in BOOLEAN /\ (overlapped => overlapped')
    BY <1>1, <1>3 DEF Sound
  <2> QED BY <1>3, <2>1, <2>2, ResetKeeps DEF Answered
<1>6. CASE qty <= Held(view) /\ Goto(r, "write") /\ Becomes(r, u)
  <2>1. /\ LotTable(view, lotSeq) /\ DOMAIN view = DOMAIN lots \cup DOMAIN txn[r].wrote
        /\ qty <= Available(Queue(view), lotSeq)
    <3>1. LotTable(lots, lotSeq) /\ LotTable(txn[r].wrote, lotSeq) /\ \A l \in DOMAIN txn[r].plan : txn[r].plan[l] \in Nat
      BY <1>1 DEF Sound, TxnSound
    <3> QED BY <1>1, <1>6, <3>1, ViewTable DEF Held
  <2> HIDE DEF view
  <2>2. /\ LotTable(Sold(view, qty), lotSeq)
        /\ taken \in [Nat -> Nat] /\ RunningSum(taken)[lotSeq] = qty
        /\ \A l \in Nat : l \notin DOMAIN view => taken[l] = 0
        /\ \A l \in DOMAIN view : taken[l] <= view[l].remaining
        /\ Available(Queue(Sold(view, qty)), lotSeq) = Available(Queue(view), lotSeq) - qty
        /\ cost \in Nat
        /\ RunningSum(Basis(Sold(view, qty)))[lotSeq] = RunningSum(Basis(view))[lotSeq] - cost
    BY <1>1, <1>4, <2>1, SaleTakes
  <2>3. Sold(view, qty) = [l \in DOMAIN view |-> [remaining |-> view[l].remaining - taken[l],
                                                  cost      |-> view[l].cost]]
    BY DEF Sold
  <2> HIDE DEF taken, cost
  <2>4. \A l \in DOMAIN view : l \in Nat /\ view[l].remaining \in Nat /\ taken[l] \in Nat
    <3>1. \A l \in DOMAIN view : l \in Nat /\ view[l].remaining \in Nat
      BY <2>1 DEF LotTable, LotRow
    <3> QED BY <2>2, <3>1
  <2>5. /\ DOMAIN plan = open /\ open \subseteq DOMAIN view
        /\ \A l \in open : plan[l] = view[l].remaining - taken[l] /\ plan[l] \in Nat
    <3>1. \A l \in open : view[l].remaining - taken[l] \in Nat
      BY <2>2, <2>4
    <3> QED BY <3>1
  <2>6. \A l \in DOMAIN view : l \notin open => view[l].remaining - taken[l] = view[l].remaining
    BY <2>2, <2>4
  <2> HIDE DEF open, plan
  <2>7. gain \in Int
    <3>1. qty * Row(r).unit \in Int
      BY <1>4
    <3> QED BY <2>2, <3>1
  <2> DEFINE value == qty * Row(r).unit
  <2>8. gain = value - cost /\ value \in Int
    BY <1>4
  <2> HIDE DEF value, gain
  <2>9. /\ DOMAIN u = Columns /\ u.row = txn[r].row /\ u.wrote = txn[r].wrote /\ u.plan = plan
        /\ u.gain = gain /\ u.rollup = txn[r].rollup /\ u.upserted = txn[r].upserted
    BY <1>1 DEF TxnSound, Columns
  <2>10. Becomes(r, u)
    BY <1>6
  <2> HIDE DEF t, u
  <2>11. Others(r) /\ pc'[r] = "write" /\ txn'[r] = u
    BY <1>1, <1>6, <2>10, OneRequestMoves
  <2>12. View(lots, u) = Sold(view, qty)
    <3> DEFINE seen(k) == IF k \in DOMAIN txn[r].wrote THEN txn[r].wrote[k] ELSE lots[k]
    <3> DEFINE row(k) == [remaining |-> IF k \in DOMAIN u.plan THEN u.plan[k] ELSE seen(k).remaining,
                          cost      |-> seen(k).cost]
    <3>1. View(lots, u) = [k \in DOMAIN lots \cup DOMAIN u.wrote |-> row(k)]
      BY <2>9 DEF View
    <3>2. \A k \in DOMAIN view : view[k].remaining = seen(k).remaining /\ view[k].cost = seen(k).cost
      BY <1>1, <2>1 DEF view, View
    <3> HIDE DEF seen
    <3>3. \A k \in DOMAIN view : row(k) = [remaining |-> view[k].remaining - taken[k], cost |-> view[k].cost]
      BY <2>5, <2>6, <2>9, <3>2
    <3> HIDE DEF row
    <3> QED BY <2>1, <2>3, <2>9, <3>1, <3>3
  <2>13. pc'[r] \in Progress /\ pc[r] \in Progress
    BY <1>1, <2>11 DEF Progress
  <2>14. TxnSound(r)'
    <3>1. /\ DOMAIN u.plan \subseteq DOMAIN lots' \cup DOMAIN u.wrote
          /\ \A l \in DOMAIN u.plan : u.plan[l] \in Nat
      BY <1>3, <2>1, <2>5, <2>9 DEF StoreSame
    <3> QED BY <1>1, <1>3, <2>7, <2>9, <2>11, <2>13, <3>1 DEF TxnSound, StoreSame
  <2>15. Sound'
    <3>1. /\ LotTable(lots', lotSeq') /\ DOMAIN lots \subseteq DOMAIN lots' /\ trades' \in Seq(TradeRow)
          /\ position' \in [quantity : Nat, total_cost : Nat, realized_pnl : Int]
          /\ lotSeq' \in {lotSeq, lotSeq + 1} /\ overlapped' \in BOOLEAN
      BY <1>1, <1>3 DEF Sound, StoreSame
    <3>2. DOMAIN txn'[r].wrote = DOMAIN txn[r].wrote
      BY <2>9, <2>11
    <3> QED BY <1>1, <2>11, <2>14, <3>1, <3>2, SoundKept
  <2>16. BookShares' = BookShares /\ BookValue' = BookValue
    BY <1>3 DEF BookShares, BookValue, StoreSame
  <2>17. Done(pc[r], txn[r]) = txn[r].row - 1 /\ Done(pc'[r], txn'[r]) = txn[r].row
    BY <1>1, <2>9, <2>11 DEF Done
  <2>18. HasFloors'
    <3>1. PICK floor \in [Nat -> Int], net \in [Request -> [Nat -> Int]] : Floors(floor, net)
      BY <1>1 DEF HasFloors
    <3>2. net[r] \in [Nat -> Int]
      OBVIOUS
    <3>3. PICK own \in [Nat -> Int] : \A l \in Nat : own[l] = net[r][l] - taken[l]
      <4> DEFINE witness == [l \in Nat |-> net[r][l] - taken[l]]
      <4>1. \A l \in Nat : net[r][l] \in Int /\ taken[l] \in Int
        BY <2>2, <3>2
      <4>2. witness \in [Nat -> Int] /\ \A l \in Nat : witness[l] = net[r][l] - taken[l]
        BY <4>1
      <4> HIDE DEF witness
      <4> QED BY <4>2
    <3> DEFINE with == [q \in Request |-> IF q = r THEN own ELSE net[q]]
    <3>4. with \in [Request -> [Nat -> Int]] /\ with[r] = own /\ \A q \in Request : q # r => with[q] = net[q]
      OBVIOUS
    <3> HIDE DEF with
    <3>5. RequestFloor(floor, with[r], r)'
      <4>1. ViewFloor(floor, net[r], lots, view, lotSeq, NetShares(r, txn[r].row - 1))
        BY <2>17, <3>1 DEF Floors, RequestFloor, view
      <4>2. RunningSum(own)[lotSeq] = RunningSum(net[r])[lotSeq] - RunningSum(taken)[lotSeq]
        <5>1. taken \in [Nat -> Int]
          BY <2>2
        <5> QED BY <1>1, <3>2, <3>3, <5>1, SumDifference
      <4>3. RunningSum(own)[lotSeq] = NetShares(r, txn[r].row)
        BY <1>4, <2>2, <4>1, <4>2 DEF ViewFloor
      <4>4. \A l \in Nat : net[r][l] \in Int /\ taken[l] \in Nat /\ floor[l] \in Int
        BY <2>2, <3>2
      <4>5. \A l \in DOMAIN view : Sold(view, qty)[l].remaining >= floor[l] + own[l]
        <5>1. ASSUME NEW l \in DOMAIN view PROVE Sold(view, qty)[l].remaining >= floor[l] + own[l]
          <6>1. Sold(view, qty)[l].remaining = view[l].remaining - taken[l]
            BY <2>3
          <6>2. view[l].remaining >= floor[l] + net[r][l] /\ l \in Nat /\ view[l].remaining \in Nat
            BY <2>4, <4>1 DEF ViewFloor
          <6>3. own[l] = net[r][l] - taken[l] /\ net[r][l] \in Int /\ taken[l] \in Nat /\ floor[l] \in Int
            BY <3>3, <4>4, <6>2
          <6> QED BY <6>1, <6>2, <6>3
        <5> QED BY <5>1
      <4>6. \A l \in Nat : /\ l \in DOMAIN lots => own[l] <= 0
                           /\ l \notin DOMAIN view => own[l] = 0
        <5>1. ASSUME NEW l \in Nat
              PROVE  /\ l \in DOMAIN lots => own[l] <= 0
                     /\ l \notin DOMAIN view => own[l] = 0
          <6>1. own[l] = net[r][l] - taken[l] /\ net[r][l] \in Int /\ taken[l] \in Nat
            BY <3>3, <4>4
          <6>2. /\ l \in DOMAIN lots => net[r][l] <= 0
                /\ l \notin DOMAIN view => net[r][l] = 0 /\ taken[l] = 0
            BY <2>2, <4>1 DEF ViewFloor
          <6> QED BY <6>1, <6>2
        <5> QED BY <5>1
      <4>7. DOMAIN Sold(view, qty) = DOMAIN view
        BY <2>3
      <4>8. ViewFloor(floor, own, lots, View(lots, u), lotSeq, NetShares(r, txn[r].row))
        BY <2>12, <4>3, <4>5, <4>6, <4>7 DEF ViewFloor
      <4> QED BY <1>3, <2>11, <2>17, <3>4, <4>8 DEF RequestFloor, StoreSame
    <3>6. ASSUME NEW q \in Request, q # r PROVE RequestFloor(floor, with[q], q)'
      <4>1. RequestFloor(floor, net[q], q) /\ pc'[q] = pc[q] /\ txn'[q] = txn[q]
        BY <2>11, <3>1, <3>6 DEF Floors, Others
      <4>2. ViewFloor(floor, net[q], lots', View(lots', txn'[q]), lotSeq', NetShares(q, Done(pc'[q], txn'[q])))
        BY <1>3, <4>1 DEF RequestFloor, StoreSame
      <4> QED BY <3>4, <3>6, <4>2 DEF RequestFloor
    <3>7. Floors(floor, with)'
      BY <1>3, <2>16, <3>1, <3>5, <3>6 DEF Floors, StoreSame
    <3> QED BY <3>4, <3>7 DEF HasFloors
  <2>19. SerialInv'
    <3>1. SUFFICES ASSUME ~ overlapped PROVE SerialInv'
      BY <1>3 DEF SerialInv
    <3>2. \A q \in Request : pc'[q] \in Progress => q = r
      BY <1>1, <2>11, <2>13, <3>1 DEF SerialInv, Others
    <3>3. InBalance(r)
      BY <1>1, <2>13, <3>1 DEF SerialInv
    <3>4. /\ Available(Queue(view), lotSeq) = BookShares + NetShares(r, txn[r].row - 1)
          /\ RunningSum(Basis(view))[lotSeq] - RealizedSoFar(r) = BookValue + NetValue(r, txn[r].row - 1)
          /\ Len(trades) + Len(Rows[r]) <= TradesPerMonth
      BY <2>17, <3>3 DEF InBalance, view
    <3>5. RealizedSoFar(r)' = RealizedSoFar(r) + gain /\ RealizedSoFar(r) \in Int
      <4>1. RealizedSeen(r) \in Int
        BY <1>1 DEF Sound, TxnSound, RealizedSeen
      <4>2. RealizedSeen(r)' = RealizedSeen(r)
        BY <1>3, <2>9, <2>11 DEF RealizedSeen, StoreSame
      <4>3. RealizedSoFar(r)' = RealizedSeen(r)' + txn'[r].gain
        BY <2>11 DEF RealizedSoFar
      <4>4. RealizedSoFar(r) = RealizedSeen(r)
        BY <1>1 DEF RealizedSoFar
      <4> QED BY <2>9, <2>11, <4>1, <4>2, <4>3, <4>4
    <3>6. /\ Available(Queue(view), lotSeq) \in Nat /\ RunningSum(Basis(view))[lotSeq] \in Nat
          /\ BookShares \in Int /\ BookValue \in Int
      BY <1>1, <2>1, LotColumns, BookIntegers
    <3>7. Available(Queue(View(lots, u)), lotSeq) = BookShares + NetShares(r, txn[r].row)
      BY <1>4, <2>2, <2>12, <3>4, <3>6
    <3>8. RunningSum(Basis(View(lots, u)))[lotSeq] - (RealizedSoFar(r) + gain) = BookValue + NetValue(r, txn[r].row)
      <4>1. NetValue(r, txn[r].row) = NetValue(r, txn[r].row - 1) - value
        BY <1>4 DEF value
      <4>2. RunningSum(Basis(View(lots, u)))[lotSeq] = RunningSum(Basis(view))[lotSeq] - cost
        BY <2>2, <2>12
      <4>3. NetValue(r, txn[r].row - 1) \in Int /\ cost \in Nat /\ gain = value - cost /\ value \in Int
        BY <1>4, <2>2, <2>8
      <4>4. RunningSum(Basis(view))[lotSeq] - RealizedSoFar(r) = BookValue + NetValue(r, txn[r].row - 1)
        BY <3>4
      <4>5. RealizedSoFar(r) \in Int /\ RunningSum(Basis(view))[lotSeq] \in Nat /\ BookValue \in Int
        BY <3>5, <3>6
      <4> QED BY <4>1, <4>2, <4>3, <4>4, <4>5
    <3>9. InBalance(r)'
      <4>1. Available(Queue(View(lots', txn'[r])), lotSeq') = BookShares' + NetShares(r, Done(pc'[r], txn'[r]))
        BY <1>3, <2>11, <2>16, <2>17, <3>7 DEF StoreSame
      <4>2. RunningSum(Basis(View(lots', txn'[r])))[lotSeq'] - RealizedSoFar(r)'
              = BookValue' + NetValue(r, Done(pc'[r], txn'[r]))
        BY <1>3, <2>11, <2>16, <2>17, <3>5, <3>8 DEF StoreSame
      <4>3. Len(trades') + Len(Rows[r]) <= TradesPerMonth
        BY <1>3, <3>4 DEF StoreSame
      <4> QED BY <2>11, <4>1, <4>2, <4>3 DEF InBalance
    <3> QED BY <1>1, <1>3, <2>16, <3>1, <3>2, <3>9 DEF SerialInv, StoreSame
  <2> QED BY <2>15, <2>18, <2>19 DEF RequestsInv
<1> QED BY <1>3, <1>5, <1>6

(* COMMIT: the view becomes the lots, the rows join the log, and what the  *)
(* request moved joins the floor.                                          *)
LEMMA CommitKeeps ==
  ASSUME RequestsInv, NEW r \in Request, Commit(r)
  PROVE  RequestsInv'
<1>1. /\ Sound /\ HasFloors /\ SerialInv /\ TxnSound(r) /\ OwnLots
      /\ pc[r] = "commit" /\ DOMAIN txn[r].plan = {} /\ lotSeq \in Nat
      /\ txn[r].row = Len(Rows[r]) /\ trades \in Seq(TradeRow)
  BY DEF RequestsInv, Commit, Sound, TxnSound
<1> DEFINE view == View(lots, txn[r])
<1>2. /\ lots' = view /\ lotSeq' = lotSeq /\ overlapped' = overlapped
      /\ trades' = trades \o Rows[r] /\ position' = txn[r].rollup
      /\ Others(r) /\ pc'[r] = "ok" /\ txn'[r] = NewTxn
  <2>1. Visible(r) = view
    BY <1>1, SeesView
  <2>2. Goto(r, "ok") /\ Becomes(r, NewTxn)
    BY DEF Commit
  <2>3. Others(r) /\ pc'[r] = "ok" /\ txn'[r] = NewTxn
    BY <1>1, <2>2, OneRequestMoves
  <2> QED BY <2>1, <2>3 DEF Commit
<1>3. LotTable(view, lotSeq) /\ DOMAIN view = DOMAIN lots \cup DOMAIN txn[r].wrote
  <2>1. LotTable(lots, lotSeq) /\ LotTable(txn[r].wrote, lotSeq) /\ \A l \in DOMAIN txn[r].plan : txn[r].plan[l] \in Nat
    BY <1>1 DEF Sound, TxnSound
  <2> QED BY <1>1, <2>1, ViewTable
<1>4. /\ NetShares(r, 0) = 0 /\ trades' \in Seq(TradeRow)
      /\ Len(trades') = Len(trades) + Len(Rows[r])
      /\ BookShares' = BookShares + NetShares(r, Len(Rows[r]))
      /\ BookValue' = BookValue + NetValue(r, Len(Rows[r]))
      /\ BookShares \in Int /\ BookValue \in Int
      /\ NetShares(r, Len(Rows[r])) \in Int /\ NetValue(r, Len(Rows[r])) \in Int
  <2>1. /\ NetShares(r, 0) = 0
        /\ trades' \in Seq(TradeRow)
        /\ Len(trades') = Len(trades) + Len(Rows[r])
        /\ RunningSum(SharesColumn(trades'))[Len(trades')]
             = RunningSum(SharesColumn(trades))[Len(trades)] + NetShares(r, Len(Rows[r]))
        /\ RunningSum(ValueColumn(trades'))[Len(trades')]
             = RunningSum(ValueColumn(trades))[Len(trades)] + NetValue(r, Len(Rows[r]))
        /\ RunningSum(SharesColumn(trades))[Len(trades)] \in Int
        /\ RunningSum(ValueColumn(trades))[Len(trades)] \in Int
        /\ NetShares(r, Len(Rows[r])) \in Int /\ NetValue(r, Len(Rows[r])) \in Int
    BY <1>1, <1>2, LogGrows
  <2>2. OpeningShares \in Nat /\ OpeningCost \in Nat /\ BookShares \in Int /\ BookValue \in Int
    BY <1>1, BookIntegers
  <2>3. BookShares' = BookShares + NetShares(r, Len(Rows[r]))
    <3>1. BookShares' = OpeningShares + RunningSum(SharesColumn(trades'))[Len(trades')]
      BY DEF BookShares
    <3>2. BookShares = OpeningShares + RunningSum(SharesColumn(trades))[Len(trades)]
      BY DEF BookShares
    <3> QED BY <2>1, <2>2, <3>1, <3>2
  <2>4. BookValue' = BookValue + NetValue(r, Len(Rows[r]))
    <3>1. BookValue' = OpeningCost + RunningSum(ValueColumn(trades'))[Len(trades')]
      BY DEF BookValue
    <3>2. BookValue = OpeningCost + RunningSum(ValueColumn(trades))[Len(trades)]
      BY DEF BookValue
    <3> QED BY <2>1, <2>2, <3>1, <3>2
  <2> QED BY <2>1, <2>2, <2>3, <2>4
<1>5. Sound'
  <2>1. TxnSound(r)'
    BY <1>2, FreshSound DEF Answered
  <2>2. /\ LotTable(lots', lotSeq') /\ DOMAIN lots \subseteq DOMAIN lots'
        /\ position' \in [quantity : Nat, total_cost : Nat, realized_pnl : Int]
        /\ lotSeq' \in {lotSeq, lotSeq + 1} /\ overlapped' \in BOOLEAN
    BY <1>1, <1>2, <1>3 DEF Sound, TxnSound
  <2>3. DOMAIN txn'[r].wrote = {}
    BY <1>2, NewView
  <2> QED BY <1>1, <1>2, <1>4, <2>1, <2>2, <2>3, SoundKept
<1>6. Done(pc[r], txn[r]) = Len(Rows[r]) /\ Done(pc'[r], txn'[r]) = 0
  BY <1>1, <1>2, NewView DEF Done
<1>7. HasFloors'
  <2>1. PICK floor \in [Nat -> Int], net \in [Request -> [Nat -> Int]] : Floors(floor, net)
    BY <1>1 DEF HasFloors
  <2>2. net[r] \in [Nat -> Int] /\ \A l \in Nat : floor[l] \in Int /\ net[r][l] \in Int
    OBVIOUS
  <2> DEFINE more == [l \in Nat |-> floor[l] + net[r][l]]
  <2> DEFINE none == [l \in Nat |-> 0]
  <2> DEFINE rest == [q \in Request |-> IF q = r THEN none ELSE net[q]]
  <2>3. /\ more \in [Nat -> Int] /\ \A l \in Nat : more[l] = floor[l] + net[r][l]
        /\ none \in [Nat -> Int] /\ \A l \in Nat : none[l] = 0
    BY <2>2
  <2> HIDE DEF more, none
  <2>4. rest \in [Request -> [Nat -> Int]] /\ rest[r] = none /\ \A q \in Request : q # r => rest[q] = net[q]
    BY <2>3
  <2> HIDE DEF rest
  <2>5. ViewFloor(floor, net[r], lots, view, lotSeq, NetShares(r, Len(Rows[r])))
    BY <1>6, <2>1 DEF Floors, RequestFloor
  <2>6. RunningSum(more)[lotSeq'] = BookShares'
    <3>1. \A l \in Nat : floor[l] = more[l] - net[r][l]
      BY <2>2, <2>3
    <3>2. RunningSum(floor)[lotSeq] = RunningSum(more)[lotSeq] - RunningSum(net[r])[lotSeq]
      <4>1. floor \in [Nat -> Int] /\ net[r] \in [Nat -> Int] /\ more \in [Nat -> Int]
        BY <2>2, <2>3
      <4>2. \A n \in Nat : RunningSum(floor)[n] = RunningSum(more)[n] - RunningSum(net[r])[n]
        BY <3>1, <4>1, SumDifference
      <4> QED BY <1>1, <4>2
    <3>3. RunningSum(floor)[lotSeq] = BookShares /\ RunningSum(net[r])[lotSeq] = NetShares(r, Len(Rows[r]))
      BY <2>1, <2>5 DEF Floors, ViewFloor
    <3>4. RunningSum(more)[lotSeq] \in Int
      <4>1. RunningSum(more) \in [Nat -> Int]
        BY <2>3, RunningSumDef
      <4> QED BY <1>1, <4>1
    <3>5. RunningSum(more)[lotSeq] = BookShares + NetShares(r, Len(Rows[r]))
      <4> DEFINE a == RunningSum(floor)[lotSeq]
                 b == RunningSum(more)[lotSeq]
                 c == RunningSum(net[r])[lotSeq]
                 d == NetShares(r, Len(Rows[r]))
      <4>1. BookShares \in Int /\ d \in Int
        BY <1>4
      <4>2. a = b - c /\ a = BookShares /\ c = d /\ b \in Int
        BY <3>2, <3>3, <3>4
      <4> HIDE DEF a, b, c, d
      <4>3. b = BookShares + d
        BY <4>1, <4>2
      <4> QED BY <4>3 DEF b, d
    <3>6. lotSeq' = lotSeq /\ BookShares' = BookShares + NetShares(r, Len(Rows[r]))
      BY <1>2, <1>4
    <3> HIDE DEF view
    <3> QED BY <3>5, <3>6
  <2>7. \A l \in Nat : l \notin DOMAIN lots' => more[l] = 0
    <3>1. SUFFICES ASSUME NEW l \in Nat, l \notin DOMAIN view PROVE more[l] = 0
      BY <1>2
    <3>2. floor[l] = 0 /\ net[r][l] = 0
      BY <1>3, <2>1, <2>5, <3>1 DEF Floors, ViewFloor
    <3> QED BY <2>3, <3>2
  <2>8. \A l \in DOMAIN view : l \in Nat /\ view[l].remaining \in Nat /\ view[l].remaining >= more[l]
    <3>1. \A l \in DOMAIN view : l \in Nat /\ view[l].remaining \in Nat
      BY <1>3 DEF LotTable, LotRow
    <3>2. \A l \in DOMAIN view : view[l].remaining >= floor[l] + net[r][l]
      BY <2>5 DEF ViewFloor
    <3> QED BY <2>3, <3>1, <3>2
  <2>9. RequestFloor(more, rest[r], r)'
    <3>1. RunningSum(none)[lotSeq] = 0
      BY <1>1, <2>3, SumZero
    <3>2. /\ DOMAIN View(view, NewTxn) = DOMAIN view
          /\ \A l \in DOMAIN view : View(view, NewTxn)[l].remaining = view[l].remaining
      BY NewView
    <3> HIDE DEF view
    <3>3. \A l \in DOMAIN view : view[l].remaining >= more[l] + none[l]
      <4>1. SUFFICES ASSUME NEW l \in DOMAIN view PROVE view[l].remaining >= more[l] + none[l]
        OBVIOUS
      <4>2. l \in Nat /\ view[l].remaining >= more[l]
        BY <2>8
      <4>3. more[l] \in Int /\ none[l] = 0
        BY <2>3, <4>2
      <4>4. more[l] + none[l] = more[l]
        BY <4>3
      <4> QED BY <4>2, <4>4
    <3>4. ViewFloor(more, none, view, View(view, NewTxn), lotSeq, 0)
      BY <2>3, <3>1, <3>2, <3>3 DEF ViewFloor
    <3>5. ViewFloor(more, none, lots', View(lots', txn'[r]), lotSeq', NetShares(r, Done(pc'[r], txn'[r])))
      BY <1>2, <1>4, <1>6, <3>4
    <3> QED BY <2>4, <3>5 DEF RequestFloor
  <2>10. ASSUME NEW q \in Request, q # r PROVE RequestFloor(more, rest[q], q)'
    <3> DEFINE his == View(lots, txn[q])
    <3> DEFINE now == View(view, txn[q])
    <3>1. /\ RequestFloor(floor, net[q], q) /\ pc'[q] = pc[q] /\ txn'[q] = txn[q] /\ net[q] \in [Nat -> Int]
          /\ \A l \in Nat : net[q][l] \in Int
      BY <1>2, <2>1, <2>10 DEF Floors, Others
    <3>2. ViewFloor(floor, net[q], lots, his, lotSeq, NetShares(q, Done(pc[q], txn[q])))
      BY <3>1 DEF RequestFloor
    <3>3. /\ DOMAIN txn[q].plan \subseteq DOMAIN lots \cup DOMAIN txn[q].wrote
          /\ DOMAIN txn[q].wrote \subseteq Nat /\ DOMAIN lots \subseteq Nat
          /\ DOMAIN txn[r].wrote \cap DOMAIN txn[q].wrote \subseteq DOMAIN lots
      <4>1. LotTable(lots, lotSeq) /\ TxnSound(q)
        BY <1>1 DEF Sound
      <4>2. DOMAIN txn[r].wrote \cap DOMAIN txn[q].wrote \subseteq DOMAIN lots
        BY <1>1, <2>10 DEF OwnLots
      <4>3. DOMAIN lots \subseteq 1..lotSeq /\ DOMAIN txn[q].wrote \subseteq 1..lotSeq
        BY <4>1 DEF TxnSound, LotTable
      <4>4. DOMAIN txn[q].plan \subseteq DOMAIN lots \cup DOMAIN txn[q].wrote
        BY <4>1 DEF TxnSound
      <4>5. DOMAIN lots \subseteq Nat /\ DOMAIN txn[q].wrote \subseteq Nat
        <5>1. lotSeq \in Nat
          BY <1>1
        <5>2. 1..lotSeq \subseteq Nat
          BY <5>1
        <5> QED BY <4>3, <5>2
      <4> QED BY <4>2, <4>4, <4>5
    <3>4. /\ DOMAIN his = DOMAIN lots \cup DOMAIN txn[q].wrote
          /\ DOMAIN now = DOMAIN view \cup DOMAIN txn[q].wrote
          /\ \A l \in DOMAIN now :
               /\ l \in DOMAIN txn[q].plan \cup DOMAIN txn[q].wrote => now[l].remaining = his[l].remaining
               /\ l \notin DOMAIN txn[q].plan \cup DOMAIN txn[q].wrote => now[l].remaining = view[l].remaining
      <4>1. DOMAIN view = DOMAIN lots \cup DOMAIN txn[r].wrote
        BY <1>3
      <4> HIDE DEF view
      <4> QED BY <3>3, <4>1 DEF View
    <3>5. ASSUME NEW l \in Nat
          PROVE  /\ l \in DOMAIN lots \cup DOMAIN txn[q].wrote => net[r][l] <= 0
                 /\ l \in DOMAIN view => net[q][l] <= 0
                 /\ l \notin DOMAIN now => net[q][l] = 0
      <4>1. /\ l \in DOMAIN lots => net[r][l] <= 0 /\ net[q][l] <= 0
            /\ l \notin DOMAIN view => net[r][l] = 0
            /\ l \notin DOMAIN his => net[q][l] = 0
        BY <2>5, <3>2 DEF ViewFloor
      <4>2. net[r][l] \in Int /\ net[q][l] \in Int
        BY <2>2, <3>1
      <4> HIDE DEF his, now, view
      <4> QED BY <1>3, <3>3, <3>4, <4>1, <4>2 DEF view
    <3>6. ASSUME NEW l \in DOMAIN now
          PROVE  now[l].remaining >= more[l] + net[q][l]
      <4>1. l \in Nat
        <5>1. DOMAIN view \subseteq Nat
          BY <2>8
        <5> HIDE DEF view, now
        <5> QED BY <3>3, <3>4, <5>1
      <4>2. more[l] = floor[l] + net[r][l] /\ floor[l] \in Int /\ net[r][l] \in Int /\ net[q][l] \in Int
        BY <2>2, <2>3, <3>1, <4>1
      <4>3. his[l].remaining \in Int \/ l \notin DOMAIN his
        <5>1. LotTable(lots, lotSeq) /\ LotTable(txn[q].wrote, lotSeq) /\ \A k \in DOMAIN txn[q].plan : txn[q].plan[k] \in Nat
          BY <1>1 DEF Sound, TxnSound
        <5>2. LotTable(his, lotSeq)
          BY <1>1, <5>1, ViewTable
        <5> HIDE DEF his
        <5> QED BY <5>2 DEF LotTable, LotRow
      <4>4. CASE l \in DOMAIN txn[q].plan \cup DOMAIN txn[q].wrote
        <5>1. now[l].remaining = his[l].remaining /\ l \in DOMAIN his /\ net[r][l] <= 0
          BY <3>3, <3>4, <3>5, <4>1, <4>4
        <5>2. his[l].remaining >= floor[l] + net[q][l]
          BY <3>2, <5>1 DEF ViewFloor
        <5> HIDE DEF his, now
        <5> QED BY <4>2, <4>3, <5>1, <5>2
      <4>5. CASE l \notin DOMAIN txn[q].plan \cup DOMAIN txn[q].wrote
        <5>1. l \in DOMAIN view /\ now[l].remaining = view[l].remaining /\ net[q][l] <= 0
          BY <3>4, <3>5, <4>1, <4>5
        <5>2. view[l].remaining \in Nat /\ view[l].remaining >= more[l]
          BY <2>8, <5>1
        <5> HIDE DEF view, now
        <5> QED BY <4>2, <5>1, <5>2
      <4> QED BY <4>4, <4>5
    <3>7. RunningSum(net[q])[lotSeq] = NetShares(q, Done(pc[q], txn[q]))
      BY <3>2 DEF ViewFloor
    <3>8. ViewFloor(more, net[q], view, now, lotSeq, NetShares(q, Done(pc[q], txn[q])))
      <4> HIDE DEF view, now
      <4> QED BY <3>5, <3>6, <3>7 DEF ViewFloor
    <3>9. ViewFloor(more, net[q], lots', View(lots', txn'[q]), lotSeq', NetShares(q, Done(pc'[q], txn'[q])))
      BY <1>2, <3>1, <3>8
    <3> QED BY <2>4, <2>10, <3>9 DEF RequestFloor
  <2>11. Floors(more, rest)'
    <3>1. \A l \in DOMAIN lots' : lots'[l].remaining >= more[l]
      BY <1>2, <2>8
    <3> QED BY <2>6, <2>7, <2>9, <2>10, <3>1 DEF Floors
  <2> QED BY <2>3, <2>4, <2>11 DEF HasFloors
<1>8. SerialInv'
  <2>1. SUFFICES ASSUME ~ overlapped PROVE SerialInv'
    BY <1>2 DEF SerialInv
  <2>2. \A q \in Request : pc'[q] \notin Progress
    <3>1. \A q \in Request : pc[q] \in Progress => q = r
      BY <1>1, <2>1 DEF SerialInv, Progress
    <3>2. pc'[r] \notin Progress
      BY <1>2 DEF Progress
    <3> QED BY <1>2, <3>1, <3>2 DEF Others
  <2>3. InBalance(r)
    BY <1>1, <2>1 DEF SerialInv, Progress
  <2>4. /\ Available(Queue(view), lotSeq) = BookShares + NetShares(r, Len(Rows[r]))
        /\ RunningSum(Basis(view))[lotSeq] - txn[r].rollup.realized_pnl = BookValue + NetValue(r, Len(Rows[r]))
        /\ txn[r].rollup.quantity = Available(Queue(view), lotSeq)
        /\ txn[r].rollup.total_cost = RunningSum(Basis(view))[lotSeq]
        /\ Len(trades) + Len(Rows[r]) <= TradesPerMonth
    BY <1>1, <1>6, <2>3 DEF InBalance, RealizedSoFar
  <2> HIDE DEF view
  <2> QED BY <1>2, <1>4, <2>2, <2>4 DEF SerialInv
<1> QED BY <1>5, <1>7, <1>8 DEF RequestsInv

--------------------------------------------------------------------------------
(* Every step. *)

(* What a rollback leaves is what was committed. *)
LEMMA RollbackKeeps ==
  ASSUME RequestsInv, NEW r \in Request, Rollback(r)
  PROVE  RequestsInv'
<1>1. Sound
  BY DEF RequestsInv
<1>2. StoreSame /\ overlapped' = overlapped /\ Goto(r, "aborted") /\ Becomes(r, NewTxn)
  BY DEF Rollback, StoreSame
<1>3. Others(r) /\ pc'[r] = "aborted" /\ txn'[r] = NewTxn
  BY <1>1, <1>2, OneRequestMoves
<1>4. pc'[r] \in Answered /\ overlapped' \in BOOLEAN /\ (overlapped => overlapped')
  BY <1>1, <1>2, <1>3 DEF Answered, Sound
<1> QED BY <1>2, <1>3, <1>4, ResetKeeps

(* Every step keeps the invariant.                                         *)
LEMMA StepKeeps ==
  ASSUME RequestsInv, [Next]_vars
  PROVE  RequestsInv'
<1>1. CASE Next
  <2>1. PICK r \in Request : Statement(r) \/ BreakDeadlock(r) \/ LoseConnection(r)
    BY <1>1 DEF Next
  <2>2. CASE CheckBatch(r)
    BY <2>2, CheckBatchKeeps
  <2>3. CASE CheckQuota(r)
    BY <2>3, CheckQuotaKeeps
  <2>4. CASE InsertRows(r)
    <3>1. Row(r).action = "BUY" \/ Row(r).action = "SELL"
      BY <2>4 DEF InsertRows
    <3> QED BY <2>4, <3>1, InsertBuyKeeps, InsertSellKeeps
  <2>5. CASE ReadLots(r)
    BY <2>5, ReadLotsKeeps
  <2>6. CASE UpdateLot(r)
    BY <2>6, UpdateLotKeeps
  <2>7. CASE UpdateDone(r)
    BY <2>7, UpdateDoneKeeps
  <2>8. CASE ListLots(r)
    BY <2>8, ListLotsKeeps
  <2>9. CASE GetPosition(r)
    BY <2>9, GetPositionKeeps
  <2>10. CASE UpsertPosition(r)
    BY <2>10, UpsertKeeps
  <2>11. CASE Commit(r)
    BY <2>11, CommitKeeps
  <2>12. CASE BreakDeadlock(r) \/ LoseConnection(r)
    BY <2>12, RollbackKeeps DEF BreakDeadlock, LoseConnection
  <2> QED BY <2>1, <2>2, <2>3, <2>4, <2>5, <2>6, <2>7, <2>8, <2>9, <2>10, <2>11, <2>12 DEF Statement
<1>2. CASE UNCHANGED vars
  <2>1. Sound /\ HasFloors /\ SerialInv
    BY DEF RequestsInv
  <2>2. Sound'
    BY <1>2, <2>1 DEF vars, Sound, TxnSound, OwnLots
  <2>3. StoreSame /\ pc' = pc /\ txn' = txn /\ overlapped' = overlapped
    BY <1>2 DEF vars, StoreSame
  <2>4. HasFloors'
    BY <2>1, <2>3, FloorsStay
  <2>5. SerialInv'
    <3>1. BookShares' = BookShares /\ BookValue' = BookValue
      BY <2>3 DEF StoreSame, BookShares, BookValue
    <3>2. \A q \in Request : InBalance(q) => InBalance(q)'
      BY <2>3, BalanceStays
    <3> QED BY <2>1, <2>3, <3>1, <3>2 DEF SerialInv, StoreSame
  <2> QED BY <2>2, <2>4, <2>5 DEF RequestsInv
<1> QED BY <1>1, <1>2

(* When the requests arrive nothing is written: the opening lots are the   *)
(* floor, the view of every request, and the book.                         *)
LEMMA InitInv == Init => RequestsInv
<1> SUFFICES ASSUME Init PROVE RequestsInv
  OBVIOUS
<1>1. /\ trades = <<>> /\ lots = OpeningLots /\ lotSeq = Len(OpeningLots) /\ overlapped = FALSE
      /\ txn = [q \in Request |-> NewTxn]
      /\ pc = [q \in Request |-> IF Len(Rows[q]) = 1 THEN "trade" ELSE "import"]
      /\ position = [quantity |-> Available(Queue(lots), lotSeq),
                     total_cost |-> RunningSum(Basis(lots))[lotSeq], realized_pnl |-> 0]
  BY DEF Init, Held, CostOf
<1>2. OpeningLots \in Seq(LotRow)
  BY RequestsAssumption
<1>3. lotSeq \in Nat /\ LotTable(lots, lotSeq) /\ DOMAIN lots \subseteq Nat
  BY <1>1, <1>2 DEF LotTable
<1>4. Available(Queue(lots), lotSeq) \in Nat /\ RunningSum(Basis(lots))[lotSeq] \in Nat
  BY <1>3, LotColumns
<1>5. /\ position.quantity = Available(Queue(lots), lotSeq)
      /\ position.total_cost = RunningSum(Basis(lots))[lotSeq] /\ position.realized_pnl = 0
      /\ position \in [quantity : Nat, total_cost : Nat, realized_pnl : Int]
  BY <1>1, <1>4
<1>6. \A q \in Request : txn[q] = NewTxn /\ pc[q] \notin Progress /\ pc[q] \in {"trade", "import"}
  BY <1>1 DEF Progress
<1>7. ASSUME NEW q \in Request PROVE TxnSound(q)
  <2>1. pc[q] \notin {"read", "write", "commit"} /\ (pc[q] = "trade" => Len(Rows[q]) = 1)
    BY <1>1
  <2>2. 1 \in 1..Len(Rows[q])
    BY RequestsAssumption
  <2>3. NewTxn.rollup \in [quantity : Nat, total_cost : Nat, realized_pnl : Int]
    BY NewView
  <2>4. NewTxn.upserted \in BOOLEAN
    BY DEF NewTxn
  <2>5. LotTable(NewTxn.wrote, lotSeq)
    BY NewView DEF LotTable
  <2> QED BY <1>6, <2>1, <2>2, <2>3, <2>4, <2>5, NewView DEF TxnSound
<1>8. trades \in Seq(TradeRow) /\ Len(trades) = 0
  BY <1>1
<1>9. Sound
  <2>1. OwnLots
    BY <1>6, NewView DEF OwnLots
  <2>2. DOMAIN pc = Request /\ DOMAIN txn = Request /\ overlapped \in BOOLEAN
    BY <1>1
  <2> QED BY <1>3, <1>5, <1>7, <1>8, <2>1, <2>2 DEF Sound
<1>10. /\ OpeningShares = Available(Queue(lots), lotSeq)
       /\ OpeningCost = RunningSum(Basis(lots))[lotSeq]
  BY <1>1 DEF OpeningShares, OpeningCost
<1>11. BookShares = OpeningShares /\ BookValue = OpeningCost
  <2>1. /\ SharesColumn(trades) \in [Nat -> Int] /\ ValueColumn(trades) \in [Nat -> Int]
    BY <1>8, LogColumns
  <2>2. RunningSum(SharesColumn(trades))[0] = 0 /\ RunningSum(ValueColumn(trades))[0] = 0
    BY <2>1, RunningSumDef
  <2>3. OpeningShares \in Nat /\ OpeningCost \in Nat
    BY <1>4, <1>10
  <2> QED BY <1>8, <2>2, <2>3 DEF BookShares, BookValue
<1>12. HasFloors
  <2> DEFINE none == [l \in Nat |-> 0]
  <2> DEFINE net == [q \in Request |-> none]
  <2> DEFINE floor == Queue(lots)
  <2>1. none \in [Nat -> Int] /\ \A l \in Nat : none[l] = 0
    OBVIOUS
  <2>2. net \in [Request -> [Nat -> Int]] /\ \A q \in Request : net[q] = none
    BY <2>1
  <2>3. floor \in [Nat -> Nat]
    BY <1>3, LotColumns
  <2>4. /\ \A l \in Nat : l \notin DOMAIN lots => floor[l] = 0
        /\ \A l \in DOMAIN lots : lots[l].remaining = floor[l]
    BY <1>3 DEF Queue
  <2> HIDE DEF none, net, floor
  <2>5. \A l \in DOMAIN lots : l \in Nat /\ lots[l].remaining \in Nat
    BY <1>3 DEF LotTable, LotRow
  <2>6. ASSUME NEW q \in Request PROVE RequestFloor(floor, net[q], q)
    <3>1. Done(pc[q], txn[q]) = 0
      <4>1. pc[q] \notin {"write", "list", "get", "upsert", "commit"}
        BY <1>6
      <4> QED BY <1>6, <4>1, NewView DEF Done
    <3>2. NetShares(q, 0) = 0
      BY <1>8, LogGrows
    <3>3. RunningSum(none)[lotSeq] = 0
      BY <1>3, <2>1, SumZero
    <3>4. /\ DOMAIN View(lots, NewTxn) = DOMAIN lots
          /\ \A l \in DOMAIN lots : View(lots, NewTxn)[l].remaining = lots[l].remaining
      BY NewView
    <3>5. \A l \in DOMAIN lots : lots[l].remaining >= floor[l] + none[l]
      BY <2>1, <2>4, <2>5
    <3>6. ViewFloor(floor, none, lots, View(lots, NewTxn), lotSeq, 0)
      BY <2>1, <3>3, <3>4, <3>5 DEF ViewFloor
    <3> QED BY <1>6, <2>2, <3>1, <3>2, <3>6 DEF RequestFloor
  <2>7. RunningSum(floor)[lotSeq] = BookShares
    BY <1>10, <1>11 DEF floor, Available
  <2>8. \A l \in DOMAIN lots : lots[l].remaining >= floor[l]
    BY <2>4, <2>5
  <2>9. Floors(floor, net)
    BY <2>4, <2>6, <2>7, <2>8 DEF Floors
  <2>10. floor \in [Nat -> Int]
    BY <2>3
  <2> QED BY <2>2, <2>9, <2>10 DEF HasFloors
<1>13. SerialInv
  <2>1. TradesPerMonth \in Nat
    BY RequestsAssumption
  <2> QED BY <1>4, <1>5, <1>6, <1>8, <1>10, <1>11, <2>1 DEF SerialInv
<1> QED BY <1>9, <1>12, <1>13 DEF RequestsInv

--------------------------------------------------------------------------------
(* The theorems. *)

(* The types, the floors and, while no two requests overlap, the balance   *)
(* hold in every state: every statement of record_trade and of an import,  *)
(* every abort and every lost connection keeps them.                       *)
THEOREM RequestsInvariant == Spec => []RequestsInv
<1>1. Init => RequestsInv
  BY InitInv
<1>2. RequestsInv /\ [Next]_vars => RequestsInv'
  BY StepKeeps
<1> QED BY <1>1, <1>2, PTL DEF Spec

(* The lots hold at least what the committed trades leave, because they    *)
(* hold at least their floors.                                             *)
LEMMA FloorsHold == RequestsInv => SharesNeverLost
<1> SUFFICES ASSUME RequestsInv PROVE SharesNeverLost
  OBVIOUS
<1>1. Sound /\ HasFloors /\ lotSeq \in Nat /\ LotTable(lots, lotSeq)
  BY DEF RequestsInv, Sound
<1>2. PICK floor \in [Nat -> Int], net \in [Request -> [Nat -> Int]] : Floors(floor, net)
  BY <1>1 DEF HasFloors
<1>3. /\ Queue(lots) \in [Nat -> Nat] /\ Queue(lots) \in [Nat -> Int]
      /\ Available(Queue(lots), lotSeq) \in Nat
  <2>1. Queue(lots) \in [Nat -> Nat] /\ Available(Queue(lots), lotSeq) \in Nat
    BY <1>1, LotColumns
  <2> QED BY <2>1
<1>4. ASSUME NEW l \in 1..lotSeq PROVE floor[l] <= Queue(lots)[l]
  <2>1. l \in Nat /\ floor[l] \in Int /\ Queue(lots)[l] \in Nat
    BY <1>1, <1>3
  <2>2. CASE l \in DOMAIN lots
    <3>1. Queue(lots)[l] = lots[l].remaining
      BY <2>1, <2>2 DEF Queue
    <3>2. lots[l].remaining >= floor[l]
      BY <1>2, <2>2 DEF Floors
    <3> QED BY <2>1, <3>1, <3>2
  <2>3. CASE l \notin DOMAIN lots
    <3>1. floor[l] = 0
      BY <1>2, <2>1, <2>3 DEF Floors
    <3> QED BY <2>1, <3>1
  <2> QED BY <2>2, <2>3
<1>5. RunningSum(floor)[lotSeq] <= RunningSum(Queue(lots))[lotSeq]
  BY <1>1, <1>3, <1>4, SumMonotone
<1>6. RunningSum(floor)[lotSeq] = BookShares /\ BookShares \in Int
  BY <1>1, <1>2, BookIntegers DEF Floors
<1> QED BY <1>3, <1>5, <1>6 DEF SharesNeverLost, Held, Available

(* However the requests interleave, deadlock or fail, no share of the log  *)
(* of committed trades goes missing from the lots.                         *)
THEOREM NoSharesLost == Spec => []SharesNeverLost
BY RequestsInvariant, FloorsHold, PTL

(* What the requests keep while none overlap is what the property asks.    *)
LEMMA BalanceAgrees == RequestsInv => SerialRequestsAgree
<1> SUFFICES ASSUME RequestsInv, ~ overlapped
             PROVE  /\ Held(lots) = BookShares
                    /\ position.quantity = Held(lots)
                    /\ position.total_cost = CostOf(lots)
                    /\ position.total_cost - position.realized_pnl = BookValue
                    /\ Len(trades) <= TradesPerMonth
                    /\ \A r \in Request : pc[r] = "quota" /\ txn[r].row > 1 => TradesSeen(r) < TradesPerMonth
  BY DEF SerialRequestsAgree
<1>1. Sound /\ SerialInv
  BY DEF RequestsInv
<1>2. ASSUME NEW r \in Request, pc[r] = "quota" PROVE TradesSeen(r) < TradesPerMonth
  <2>1. InBalance(r) /\ TxnSound(r)
    BY <1>1, <1>2 DEF SerialInv, Sound, Progress
  <2>2. Len(trades) + Len(Rows[r]) <= TradesPerMonth /\ txn[r].row \in 1..Len(Rows[r])
    BY <2>1 DEF InBalance, TxnSound
  <2>3. Len(trades) \in Nat /\ TradesPerMonth \in Nat /\ Rows[r] \in Seq(TradeRow)
    BY <1>1, RequestsAssumption DEF Sound
  <2>4. Len(Rows[r]) \in Nat
    BY <2>3
  <2> QED BY <2>2, <2>3, <2>4 DEF TradesSeen
<1> QED BY <1>1, <1>2 DEF SerialInv, Held, CostOf

(* Requests that never overlapped leave the lots, the position and the log *)
(* in agreement and within the quota, row by row of an import.             *)
THEOREM SerialRequestsKeepTheBooks == Spec => []SerialRequestsAgree
BY RequestsInvariant, BalanceAgrees, PTL
================================================================================
