------------------------------ MODULE TradeJournal ------------------------------
(***************************************************************************)
(* The trade journal (api/v1/journal.py, modules/trade_journal/            *)
(* position_sync.py): the older ledger over the same FIFO engine.          *)
(*                                                                         *)
(* Where the portfolio ledger rolls its position up from the lots, the     *)
(* journal increments it in SQL (quantity = quantity + delta), so the two  *)
(* can drift apart.  The module runs the trades of one position on several *)
(* connections, statement by statement, at READ COMMITTED.  The ORM writes *)
(* only the columns whose value it changed, lot by lot in primary key      *)
(* order; a row that changed while an UPDATE waited for its lock is        *)
(* overwritten in those columns.                                           *)
(*                                                                         *)
(* A BUY carries its cost per unit with the fee, a SELL its net proceeds   *)
(* per unit.  A missing position row reads as a closed row of zeros.  The  *)
(* upsert of the position and the commit are one step: nobody sees the row *)
(* in between, and its holder waits for nothing more.                      *)
(***************************************************************************)
EXTENDS FifoEngine, FiniteSets

CONSTANTS
  Connection,   \* database connections, one request at a time each
  Qty,          \* quantities of a trade
  Unit,         \* cost or net proceeds per unit, divisible by the ratios
  Ratio,        \* split ratios, whole numbers
  MaxTrades     \* bound: how many trades are begun

ASSUME JournalAssumption ==
  /\ Qty \subseteq Nat \ {0} /\ Unit \subseteq Nat
  /\ Ratio \subseteq Nat \ {0} /\ MaxTrades \in Nat

VARIABLES
  lots,       \* committed lots: id -> row of trade_lots
  position,   \* the committed row of positions
  lotSeq,     \* the last lot id drawn
  pc,         \* what each connection does next
  txn,        \* what its transaction has read and written
  begun,      \* how many trades were begun
  history     \* what the committed trades add up to, and how they met

journalVars == <<lots, position, lotSeq, pc, txn, begun, history>>

Label == {"idle", "lots", "commit"}

LotRow == [original : Nat, remaining : Nat, cost : Nat, exhausted : BOOLEAN]

NoTxn == [action |-> "none", qty |-> 0, unit |-> 0, plan |-> <<>>, wrote |-> <<>>,
          charge |-> 0, gain |-> 0, seen |-> 0]

OpenLots(table) == {l \in DOMAIN table : ~ table[l].exhausted}
Queue(table) ==
  [l \in Nat |-> IF l \in OpenLots(table) THEN table[l].remaining ELSE 0]
UnitCost(table) ==
  [l \in Nat |-> IF l \in OpenLots(table) THEN table[l].cost ELSE 0]

SharesIn(table) == Available(Queue(table), lotSeq)
CostIn(table) ==
  RunningSum([l \in Nat |-> Queue(table)[l] * UnitCost(table)[l]])[lotSeq]

InitJournal ==
  /\ lots = <<>>
  /\ position = [quantity |-> 0, total_cost |-> 0, realized_pnl |-> 0, is_closed |-> TRUE]
  /\ lotSeq = 0
  /\ pc = [c \in Connection |-> "idle"]
  /\ txn = [c \in Connection |-> NoTxn]
  /\ begun = 0
  /\ history = [shares |-> 0, cash |-> 0, resold |-> FALSE,
                overlapped |-> FALSE, splitOverlapped |-> FALSE]

--------------------------------------------------------------------------------
(* The statements of add_trade. *)

Busy == {c \in Connection : pc[c] # "idle"}

(* History: this trade starts while others are in progress. *)
Meets(action) ==
  [shares |-> history.shares, cash |-> history.cash, resold |-> history.resold,
   overlapped |-> history.overlapped \/ Busy # {},
   splitOverlapped |->
     \/ history.splitOverlapped
     \/ action = "SPLIT" /\ Busy # {}
     \/ \E c \in Busy : txn[c].action = "SPLIT"]

Begin(c, label, record) ==
  /\ pc[c] = "idle"
  /\ begun < MaxTrades
  /\ begun' = begun + 1
  /\ pc' = [pc EXCEPT ![c] = label]
  /\ txn' = [txn EXCEPT ![c] = record]
  /\ history' = Meets(record.action)
  /\ UNCHANGED <<lots, position>>

NewLot(qty, unit) ==
  [original |-> qty, remaining |-> qty, cost |-> unit, exhausted |-> FALSE]

Purchase(id, qty, unit) ==
  [action |-> "BUY", qty |-> qty, unit |-> unit, plan |-> <<>>,
   wrote |-> Put(<<>>, id, NewLot(qty, unit)),
   charge |-> -(qty * unit), gain |-> 0, seen |-> 0]

(* apply_buy: INSERT of the trade and of its lot. *)
BeginBuy(c, qty, unit) ==
  /\ lotSeq' = lotSeq + 1
  /\ Begin(c, "commit", Purchase(lotSeq + 1, qty, unit))

(* process_sell on an open lot. *)
Consume(lot, taken) ==
  [original |-> lot.original, remaining |-> lot.remaining - taken, cost |-> lot.cost,
   exhausted |-> taken > 0 /\ lot.remaining = taken]

(* The rows apply_sell is going to write. *)
SalePlan(qty) ==
  [l \in OpenLots(lots) |-> Consume(lots[l], Consumed(Queue(lots), qty)[l])]

(* changed_lot_ids: by this sale, or by an earlier one. *)
Changed(plan) ==
  {l \in DOMAIN plan : plan[l].exhausted \/ plan[l].remaining < plan[l].original}

(* cost_consumed: what was sold of the changed lots since they were        *)
(* bought, not what this sale took of them.                                *)
CostConsumed(plan) ==
  RunningSum([l \in Nat |->
    IF l \in Changed(plan) THEN plan[l].cost * (plan[l].original - plan[l].remaining)
                           ELSE 0])[lotSeq]

(* process_sell raises InsufficientSharesError when the lots hold less. *)
Enough(qty) == qty <= SharesIn(lots)

(* The rows whose columns really change are the ones a flush writes. *)
Dirty(plan) == {l \in DOMAIN plan : plan[l] # lots[l]}

Sale(qty, unit) ==
  LET plan == SalePlan(qty)
  IN  [action |-> "SELL", qty |-> qty, unit |-> unit,
       plan |-> [l \in Dirty(plan) |-> plan[l]], wrote |-> <<>>,
       charge |-> CostConsumed(plan),
       gain |-> qty * unit - CostOfSale(Queue(lots), UnitCost(lots), qty, lotSeq),
       seen |-> 0]

(* apply_sell: _load_open_lots, then process_sell on what it read.         *)
BeginSell(c, qty, unit) ==
  /\ Enough(qty)
  /\ Begin(c, "lots", Sale(qty, unit))
  /\ UNCHANGED lotSeq

(* A shortage rolls the transaction back, and the caller gets a 422. *)
RefuseSell(c, qty) ==
  /\ pc[c] = "idle" /\ begun < MaxTrades
  /\ ~ Enough(qty)
  /\ begun' = begun + 1
  /\ history' = Meets("SELL")
  /\ UNCHANGED <<lots, position, lotSeq, pc, txn>>

(* Mutation: the original quantity is not scaled. *)
Split_KeepsOriginal(lot, ratio) ==
  [lot EXCEPT !.remaining = @ * ratio, !.cost = @ \div ratio]

(* process_split on one lot. *)
Split(lot, ratio) ==
  [original |-> lot.original * ratio, remaining |-> lot.remaining * ratio,
   cost |-> lot.cost \div ratio, exhausted |-> lot.exhausted]

SplitPlan(ratio) == [l \in OpenLots(lots) |-> Split(lots[l], ratio)]

(* The instances keep to costs the ratio divides, so \div above is exact.  *)
ExactSplit(ratio) == \A l \in OpenLots(lots) : lots[l].cost % ratio = 0

Splitting(ratio) ==
  LET plan == SplitPlan(ratio)
  IN  [action |-> "SPLIT", qty |-> ratio, unit |-> 0,
       plan |-> [l \in Dirty(plan) |-> plan[l]], wrote |-> <<>>,
       charge |-> 0, gain |-> 0, seen |-> 0]

(* apply_split: process_split on the open lots. *)
BeginSplit(c, ratio) ==
  /\ ExactSplit(ratio)
  /\ Begin(c, "lots", Splitting(ratio))
  /\ UNCHANGED lotSeq

ToWrite(c) == DOMAIN txn[c].plan \ DOMAIN txn[c].wrote

Locked(l) == \E d \in Connection : l \in DOMAIN txn[d].wrote

(* The row after the UPDATE: a sale sets remaining_qty, and is_exhausted   *)
(* only when it became true; a split sets the other three columns.         *)
Written(c, l) ==
  LET new == txn[c].plan[l]
      sale == txn[c].action = "SELL"
  IN  [original  |-> IF sale THEN lots[l].original ELSE new.original,
       remaining |-> new.remaining,
       cost      |-> IF sale THEN lots[l].cost ELSE new.cost,
       exhausted |-> lots[l].exhausted \/ (sale /\ new.exhausted)]

(* The flush updates the lots in id order, waiting for the locked ones. *)
UpdateLot(c) ==
  /\ pc[c] = "lots"
  /\ \E l \in ToWrite(c) :
       /\ \A m \in ToWrite(c) : l <= m
       /\ ~ Locked(l)
       /\ txn' = [txn EXCEPT ![c].wrote = Put(@, l, Written(c, l))]
  /\ UNCHANGED <<lots, position, lotSeq, pc, begun, history>>

(* All lots are written; a split now reads the position it will change. *)
LotsWritten(c) ==
  /\ pc[c] = "lots"
  /\ ToWrite(c) = {}
  /\ pc' = [pc EXCEPT ![c] = "commit"]
  /\ txn' = [txn EXCEPT ![c].seen = position.quantity]
  /\ UNCHANGED <<lots, position, lotSeq, begun, history>>

Signed(c) == IF txn[c].action = "BUY" THEN txn[c].qty ELSE -txn[c].qty

(* The lots c sees: the committed ones under its own writes. *)
Visible(c) ==
  [l \in DOMAIN lots \cup DOMAIN txn[c].wrote |->
     IF l \in DOMAIN txn[c].wrote THEN txn[c].wrote[l] ELSE lots[l]]

(* Mutations: the flag is not recomputed; the quantity is rolled up from   *)
(* the lots, as the portfolio ledger does it.                              *)
Incremented_KeepsFlag(c) ==
  [position EXCEPT !.quantity = @ + Signed(c), !.total_cost = @ - txn[c].charge,
                   !.realized_pnl = @ + txn[c].gain]

Incremented_RollUp(c) ==
  LET quantity == SharesIn(Visible(c))
  IN  [quantity     |-> quantity,
       total_cost   |-> position.total_cost - txn[c].charge,
       realized_pnl |-> position.realized_pnl + txn[c].gain,
       is_closed    |-> quantity <= 0]

(* _upsert_position: increments by the database, then is_closed from the   *)
(* new quantity.                                                           *)
Incremented(c) ==
  LET quantity == position.quantity + Signed(c)
  IN  [quantity     |-> quantity,
       total_cost   |-> position.total_cost - txn[c].charge,
       realized_pnl |-> position.realized_pnl + txn[c].gain,
       is_closed    |-> quantity <= 0]

(* apply_split multiplies the quantity it read; a product equal to what it *)
(* read is not written.                                                    *)
Multiplied(c) ==
  LET quantity == txn[c].seen * txn[c].qty
  IN  [quantity     |-> IF quantity = txn[c].seen THEN position.quantity ELSE quantity,
       total_cost   |-> position.total_cost,
       realized_pnl |-> position.realized_pnl,
       is_closed    |-> position.is_closed]

Resells(t) ==
  t.action = "SELL" /\ \E l \in DOMAIN t.wrote : lots[l].remaining < lots[l].original

(* History: the books of the log, and whether a lot was sold from again. *)
Booked(t, signed) ==
  LET split == t.action = "SPLIT"
  IN  [shares |-> IF split THEN history.shares * t.qty ELSE history.shares + signed,
       cash   |-> IF split THEN history.cash ELSE history.cash - signed * t.unit,
       resold |-> history.resold \/ Resells(t),
       overlapped |-> history.overlapped, splitOverlapped |-> history.splitOverlapped]

(* The upsert of the position, the rest of the flush, and COMMIT. *)
Commit(c) ==
  /\ pc[c] = "commit"
  /\ lots' = Visible(c)
  /\ position' = IF txn[c].action = "SPLIT" THEN Multiplied(c) ELSE Incremented(c)
  /\ history' = Booked(txn[c], Signed(c))
  /\ pc' = [pc EXCEPT ![c] = "idle"]
  /\ txn' = [txn EXCEPT ![c] = NoTxn]
  /\ UNCHANGED <<lotSeq, begun>>

(* The connection or the server is lost: the transaction rolls back. *)
Lose(c) ==
  /\ pc[c] # "idle"
  /\ pc' = [pc EXCEPT ![c] = "idle"]
  /\ txn' = [txn EXCEPT ![c] = NoTxn]
  /\ UNCHANGED <<lots, position, lotSeq, begun, history>>

JournalNext ==
  \E c \in Connection :
    \/ \E qty \in Qty, unit \in Unit : BeginBuy(c, qty, unit) \/ BeginSell(c, qty, unit)
    \/ \E qty \in Qty : RefuseSell(c, qty)
    \/ \E ratio \in Ratio : BeginSplit(c, ratio)
    \/ UpdateLot(c) \/ LotsWritten(c) \/ Commit(c) \/ Lose(c)

JournalSpec == InitJournal /\ [][JournalNext]_journalVars

--------------------------------------------------------------------------------
(* Properties. *)

(* The quantity is what the committed BUYs and SELLs add up to, however    *)
(* they interleave and even when two of them sold the same shares: the     *)
(* increments happen in the database.  Only a split that ran beside        *)
(* another trade can break it, because it writes back what it read.        *)
QuantityFollowsLog ==
  ~ history.splitOverlapped => position.quantity = history.shares

(* Trades that never overlapped keep the three views together: quantity    *)
(* and lots agree, a lot is exhausted when nothing remains of it, the row  *)
(* is closed when it holds nothing, and no realised money appears or       *)
(* vanishes.                                                               *)
SerialTradesAgree ==
  ~ history.overlapped /\ Busy = {} =>
    /\ position.quantity = SharesIn(lots)
    /\ \A l \in DOMAIN lots : lots[l].exhausted <=> lots[l].remaining = 0
    /\ position.is_closed <=> position.quantity = 0
    /\ position.realized_pnl = history.cash + CostIn(lots)

CostOfLots == Busy = {} /\ ~ history.overlapped => position.total_cost = CostIn(lots)

(* As long as no lot is sold from twice, the total cost is what the open   *)
(* lots cost: apply_sell charges everything ever sold from a lot, which    *)
(* for the first sale from it is what that sale took.                      *)
FirstSalesKeepCost == history.resold \/ CostOfLots

(* The total cost of a position is what its open lots cost, sale after     *)
(* sale: a sale charges "ONLY lots that actually changed"                  *)
(* (position_sync.py, apply_sell).                                         *)
TotalCostOfLots == CostOfLots
================================================================================
