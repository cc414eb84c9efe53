----------------------------- MODULE PortfolioLedger -----------------------------
(***************************************************************************)
(* The portfolio ledger when trades are only appended to it:               *)
(* PortfolioTradeService.record_trade, one transaction per request.        *)
(*                                                                         *)
(* Four tables: the trade log, the FIFO lots, and the materialised         *)
(* positions, keyed by (account, symbol); market and currency are folded   *)
(* into the symbol.  Primary keys come from sequences, and a sequence      *)
(* value drawn by a transaction that rolls back is not given out again.    *)
(*                                                                         *)
(* Amounts are integers.  A BUY carries its cost per unit, (price * qty +  *)
(* fee) / qty, and a SELL its proceeds per unit, net of fee and tax; the   *)
(* avg_cost of a position is total_cost / quantity and is not kept apart.  *)
(* Rounding to the eight decimals of the columns is left out.              *)
(*                                                                         *)
(* LedgerDividends adds the dividend service, LedgerReplay the edits of    *)
(* the log, and LedgerRequests the interleaving of concurrent requests.    *)
(***************************************************************************)
EXTENDS FifoEngine, FiniteSets

CONSTANTS
  Account,        \* portfolio accounts
  Symbol,         \* symbols (with their market)
  Owner,          \* the user each account belongs to
  Date,           \* trade dates
  MonthStart,     \* the first day of the current month
  Qty,            \* quantities of a trade
  Unit,           \* cost or proceeds per unit
  TradesPerMonth, \* the tier's max_trades_per_month
  MaxPositions,   \* the tier's max_positions
  MaxTrades       \* bound: how many trade ids may be drawn

ASSUME LedgerAssumption ==
  /\ Date \subseteq Nat /\ MonthStart \in Nat
  /\ Qty \subseteq Nat \ {0} /\ Unit \subseteq Nat \ {0}
  /\ TradesPerMonth \in Nat /\ MaxPositions \in Nat /\ MaxTrades \in Nat

VARIABLES
  trades,     \* trade id -> row of portfolio_trades
  lots,       \* lot id -> row of portfolio_lots
  positions,  \* (account, symbol) -> row of portfolio_positions
  tradeSeq,   \* the last trade id drawn from its sequence
  lotSeq      \* the last lot id drawn from its sequence

ledgerVars == <<trades, lots, positions, tradeSeq, lotSeq>>

Key == Account \X Symbol

TradeRow == [key : Key, action : {"BUY", "SELL"}, date : Date, qty : Qty, unit : Unit]

LotRow == [trade : Nat, key : Key, original : Nat, remaining : Nat,
           cost : Nat, exhausted : BOOLEAN]

PositionRow == [quantity : Nat, total_cost : Nat, realized_pnl : Int, is_closed : BOOLEAN]

--------------------------------------------------------------------------------
(* Reading the lots. *)

(* list_open_for_position: the lots of k that are not exhausted. *)
OpenLots(table, k) == {l \in DOMAIN table : table[l].key = k /\ ~ table[l].exhausted}

(* The FIFO queue those lots form, in lot id order. *)
Queue(table, k) ==
  [l \in Nat |-> IF l \in OpenLots(table, k) THEN table[l].remaining ELSE 0]

UnitCost(table, k) ==
  [l \in Nat |-> IF l \in OpenLots(table, k) THEN table[l].cost ELSE 0]

(* What the open lots of k cost, lot by lot. *)
Basis(table, k) == [l \in Nat |-> Queue(table, k)[l] * UnitCost(table, k)[l]]

(* _reupsert_position_from_open_lots: the position row that rolls up the   *)
(* open lots among the ids 1..last, with the given realized total.         *)
RollUp(table, k, last, realized) ==
  LET quantity == Available(Queue(table, k), last)
  IN  [quantity     |-> quantity,
       total_cost   |-> RunningSum(Basis(table, k))[last],
       realized_pnl |-> realized,
       is_closed    |-> quantity = 0]

PriorRealized(k) == IF k \in DOMAIN positions THEN positions[k].realized_pnl ELSE 0

(* Mutation: the UPDATE writes remaining_qty and forgets is_exhausted. *)
AfterSale_KeepsFlag(table, k, qty) ==
  LET taken == Consumed(Queue(table, k), qty)
  IN  [l \in DOMAIN table |->
         IF l \in OpenLots(table, k)
         THEN [table[l] EXCEPT !.remaining = @ - taken[l]]
         ELSE table[l]]

(* A lot after taken of its shares were sold: the engine flags it when     *)
(* nothing is left.                                                        *)
LotLess(lot, taken) ==
  [trade |-> lot.trade, key |-> lot.key, original |-> lot.original,
   remaining |-> lot.remaining - taken, cost |-> lot.cost,
   exhausted |-> taken > 0 /\ lot.remaining = taken]

(* bulk_update after apply_sell: every open lot of k gets the remaining    *)
(* quantity and the flag the engine computed.                              *)
AfterSale(table, k, qty) ==
  LET taken == Consumed(Queue(table, k), qty)
  IN  [l \in DOMAIN table |-> IF l \in OpenLots(table, k) THEN LotLess(table[l], taken[l])
                                                          ELSE table[l]]

--------------------------------------------------------------------------------
(* Quotas, the service's second line of defence. *)

TradesThisMonth(u) ==
  {t \in DOMAIN trades : Owner[trades[t].key[1]] = u /\ trades[t].date >= MonthStart}

PositionsOf(u) == {k \in DOMAIN positions : Owner[k[1]] = u}

(* Mutation: an off-by-one in the comparison. *)
TradesQuotaLeft_OneMore(u) == Cardinality(TradesThisMonth(u)) <= TradesPerMonth

(* _assert_trades_quota *)
TradesQuotaLeft(u) == Cardinality(TradesThisMonth(u)) < TradesPerMonth

(* _assert_positions_quota_for_new_symbol: adding to an open position is   *)
(* always allowed; anything else needs room, and closed rows take room.    *)
PositionsQuotaLeft(k) ==
  \/ k \in DOMAIN positions /\ positions[k].quantity > 0
  \/ Cardinality(PositionsOf(Owner[k[1]])) < MaxPositions

--------------------------------------------------------------------------------
Init ==
  /\ trades = <<>>
  /\ lots = <<>>
  /\ positions = <<>>
  /\ tradeSeq = 0
  /\ lotSeq = 0

Trade(k, action, date, qty, unit) ==
  [key |-> k, action |-> action, date |-> date, qty |-> qty, unit |-> unit]

NewLot(t, k, qty, unit) ==
  [trade |-> t, key |-> k, original |-> qty, remaining |-> qty,
   cost |-> unit, exhausted |-> FALSE]

(* record_trade with action BUY: trade row, lot row, position.             *)
RecordBuy(k, date, qty, unit) ==
  /\ tradeSeq < MaxTrades
  /\ TradesQuotaLeft(Owner[k[1]])
  /\ PositionsQuotaLeft(k)
  /\ tradeSeq' = tradeSeq + 1
  /\ lotSeq' = lotSeq + 1
  /\ trades' = Put(trades, tradeSeq', Trade(k, "BUY", date, qty, unit))
  /\ lots' = Put(lots, lotSeq', NewLot(tradeSeq', k, qty, unit))
  /\ positions' = Put(positions, k, RollUp(lots', k, lotSeq', PriorRealized(k)))

(* Mutation: the position is rolled up before the lots are updated. *)
RecordSell_StaleRollUp(k, date, qty, unit) ==
  /\ tradeSeq < MaxTrades
  /\ TradesQuotaLeft(Owner[k[1]])
  /\ qty <= Available(Queue(lots, k), lotSeq)
  /\ tradeSeq' = tradeSeq + 1
  /\ trades' = Put(trades, tradeSeq', Trade(k, "SELL", date, qty, unit))
  /\ lots' = AfterSale(lots, k, qty)
  /\ positions' = Put(positions, k, RollUp(lots, k, lotSeq, PriorRealized(k)))
  /\ UNCHANGED lotSeq

(* record_trade with action SELL: trade row, FIFO consumption, position.   *)
RecordSell(k, date, qty, unit) ==
  /\ tradeSeq < MaxTrades
  /\ TradesQuotaLeft(Owner[k[1]])
  /\ qty <= Available(Queue(lots, k), lotSeq)
  /\ tradeSeq' = tradeSeq + 1
  /\ trades' = Put(trades, tradeSeq', Trade(k, "SELL", date, qty, unit))
  /\ lots' = AfterSale(lots, k, qty)
  /\ LET gain == qty * unit - CostOfSale(Queue(lots, k), UnitCost(lots, k), qty, lotSeq)
     IN  positions' = Put(positions, k, RollUp(lots', k, lotSeq, PriorRealized(k) + gain))
  /\ UNCHANGED lotSeq

(* A SELL of more than the open lots hold: InsufficientShares is raised    *)
(* after the trade row was inserted; the transaction rolls back, and only  *)
(* the trade id it drew is gone.                                           *)
RejectSell(k, qty) ==
  /\ tradeSeq < MaxTrades
  /\ TradesQuotaLeft(Owner[k[1]])
  /\ qty > Available(Queue(lots, k), lotSeq)
  /\ tradeSeq' = tradeSeq + 1
  /\ UNCHANGED <<trades, lots, positions, lotSeq>>

RecordNext ==
  \E k \in Key, qty \in Qty :
    \/ \E date \in Date, unit \in Unit : RecordBuy(k, date, qty, unit)
    \/ \E date \in Date, unit \in Unit : RecordSell(k, date, qty, unit)
    \/ RejectSell(k, qty)

LedgerSpec == Init /\ [][RecordNext]_ledgerVars

--------------------------------------------------------------------------------
(* Properties.  The trade log read as columns. *)

BuyColumn(k) ==
  [t \in Nat |-> IF t \in DOMAIN trades /\ trades[t].key = k /\ trades[t].action = "BUY"
                 THEN trades[t].qty ELSE 0]

SellColumn(k) ==
  [t \in Nat |-> IF t \in DOMAIN trades /\ trades[t].key = k /\ trades[t].action = "SELL"
                 THEN trades[t].qty ELSE 0]

(* Money paid for shares less money received for them. *)
CashColumn(k) ==
  [t \in Nat |-> IF t \in DOMAIN trades /\ trades[t].key = k
                 THEN IF trades[t].action = "BUY" THEN trades[t].qty * trades[t].unit
                                                  ELSE -(trades[t].qty * trades[t].unit)
                 ELSE 0]

Sold(k) == RunningSum(SellColumn(k))[tradeSeq]

(* What is left of the place i of a queue after sold shares left its head. *)
LeftAfter(queue, sold, i) ==
  LET beyond == RunningSum(queue)[i] - sold
  IN  IF beyond <= 0 THEN 0 ELSE Smaller(beyond, queue[i])

TypeOK ==
  /\ tradeSeq \in Nat /\ lotSeq \in Nat
  /\ DOMAIN trades \subseteq 1..tradeSeq
  /\ trades \in [DOMAIN trades -> TradeRow]
  /\ DOMAIN lots \subseteq 1..lotSeq
  /\ lots \in [DOMAIN lots -> LotRow]
  /\ DOMAIN positions \subseteq Key
  /\ positions \in [DOMAIN positions -> PositionRow]

(* The position row is the roll-up of the open lots (db/models/portfolio/  *)
(* position.py: "Materialized roll-up of open lots"), and a key without a  *)
(* row has no open lots.                                                   *)
PositionsRollUpLots ==
  \A k \in Key :
    IF k \in DOMAIN positions
    THEN positions[k] = RollUp(lots, k, lotSeq, positions[k].realized_pnl)
    ELSE OpenLots(lots, k) = {}

(* Every lot is what the trade log says it is: one lot per BUY, and what   *)
(* is left of it is what a first-in-first-out seller would have left of    *)
(* that BUY after all the sales of the log, in the order of recording.     *)
LotsDerivable ==
  /\ \A t \in DOMAIN trades : trades[t].action = "BUY" =>
       \E l \in DOMAIN lots : lots[l].trade = t
  /\ \A l \in DOMAIN lots :
       LET t == lots[l].trade  k == lots[l].key IN
       /\ t \in DOMAIN trades /\ trades[t].action = "BUY" /\ trades[t].key = k
       /\ lots[l].original = trades[t].qty
       /\ lots[l].cost = trades[t].unit
       /\ lots[l].remaining = LeftAfter(BuyColumn(k), Sold(k), t)
       /\ lots[l].exhausted <=> lots[l].remaining = 0

(* No money appears or vanishes: what the open lots cost, less what was    *)
(* realised, is what was paid for shares less what was received for them.  *)
MoneyConserved ==
  \A k \in DOMAIN positions :
    positions[k].total_cost - positions[k].realized_pnl = RunningSum(CashColumn(k))[tradeSeq]

(* The balance of k right after trade t when the log is read in            *)
(* chronological order, (trade_date, id), as _rebuild_position reads it.   *)
NotLater(t, u) ==
  \/ trades[t].date < trades[u].date
  \/ trades[t].date = trades[u].date /\ t <= u

BalanceAt(k, u) ==
  RunningSum([t \in Nat |->
      IF t \in DOMAIN trades /\ NotLater(t, u) THEN BuyColumn(k)[t] - SellColumn(k)[t] ELSE 0])[tradeSeq]

(* The log can be replayed: read in chronological order it never sells     *)
(* shares that were not bought before (trade_service.py: "Lot chain is     *)
(* always derivable from the immutable trade log").                        *)
ReplayableLog ==
  \A t \in DOMAIN trades : BalanceAt(trades[t].key, t) >= 0

(* Neither quota is ever exceeded by recording trades. *)
QuotasHeld ==
  \A a \in Account :
    /\ Cardinality(TradesThisMonth(Owner[a])) <= TradesPerMonth
    /\ Cardinality(PositionsOf(Owner[a])) <= MaxPositions
================================================================================
