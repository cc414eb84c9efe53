----------------------------- MODULE LedgerDividends -----------------------------
(***************************************************************************)
(* The dividend service on top of the ledger                               *)
(* (services/portfolio/dividend_service.py,                                *)
(* modules/portfolio/dividend_processor.py).                               *)
(*                                                                         *)
(* A CASH dividend adds its net amount to the realised total of the        *)
(* position; a STOCK dividend scales every open lot by 1 + ratio and rolls *)
(* the position up again.  Correcting or deleting a dividend changes its   *)
(* row only.  The tier's feature flag is taken to be on.                   *)
(***************************************************************************)
EXTENDS PortfolioLedger

CONSTANTS
  Net,          \* net amounts of cash dividends
  Scale,        \* scale factors 1 + ratio of stock dividends
  MaxDividends  \* bound: how many dividend ids may be drawn

ASSUME DividendAssumption ==
  Net \subseteq Nat /\ Scale \subseteq Nat \ {0, 1} /\ MaxDividends \in Nat

VARIABLES
  dividends,   \* dividend id -> row of portfolio_dividends
  dividendSeq  \* the last dividend id drawn from its sequence

dividendVars == <<dividends, dividendSeq>>

allVars == <<ledgerVars, dividendVars>>

InitDividends == Init /\ dividends = <<>> /\ dividendSeq = 0

InsertDividend(k, kind, net) ==
  /\ dividendSeq < MaxDividends
  /\ dividendSeq' = dividendSeq + 1
  /\ dividends' = Put(dividends, dividendSeq', [key |-> k, kind |-> kind, net |-> net])

(* A position row that holds no shares, only realised cash. *)
CashOnlyRow(realized) ==
  [quantity |-> 0, total_cost |-> 0, realized_pnl |-> realized, is_closed |-> TRUE]

(* _record_cash and _accrue_realized_pnl: everything but the realised      *)
(* total of an existing row is written back as it was read; a key without  *)
(* a row gets a closed one, whatever the positions quota says.             *)
RecordCash(k, net) ==
  /\ InsertDividend(k, "CASH", net)
  /\ positions' = Put(positions, k,
       IF k \in DOMAIN positions
       THEN [positions[k] EXCEPT !.realized_pnl = @ + net]
       ELSE CashOnlyRow(net))
  /\ UNCHANGED <<trades, lots, tradeSeq, lotSeq>>

(* Mutation: the cost per share is not rescaled. *)
Scaled_KeepsCost(table, k, s) ==
  [l \in DOMAIN table |->
     IF l \in OpenLots(table, k)
     THEN [table[l] EXCEPT !.original = @ * s, !.remaining = @ * s]
     ELSE table[l]]

(* process_stock_dividend: shares times s, cost per share divided by s.    *)
LotScaled(lot, s) ==
  [trade |-> lot.trade, key |-> lot.key, original |-> lot.original * s,
   remaining |-> lot.remaining * s, cost |-> lot.cost \div s, exhausted |-> lot.exhausted]

Scaled(table, k, s) ==
  [l \in DOMAIN table |-> IF l \in OpenLots(table, k) THEN LotScaled(table[l], s)
                                                      ELSE table[l]]

(* The instances keep to costs the scale divides, so \div above is exact.  *)
ExactScale(k, s) == \A l \in OpenLots(lots, k) : lots[l].cost % s = 0

(* Mutation: the position is rolled up from the lots read at first. *)
RecordStock_StaleRollUp(k, s) ==
  /\ ExactScale(k, s)
  /\ InsertDividend(k, "STOCK", 0)
  /\ lots' = Scaled(lots, k, s)
  /\ positions' = Put(positions, k, RollUp(lots, k, lotSeq, PriorRealized(k)))
  /\ UNCHANGED <<trades, tradeSeq, lotSeq>>

(* _record_stock and _reupsert_position_from_lots. *)
RecordStock(k, s) ==
  /\ ExactScale(k, s)
  /\ InsertDividend(k, "STOCK", 0)
  /\ lots' = Scaled(lots, k, s)
  /\ positions' = Put(positions, k, RollUp(lots', k, lotSeq, PriorRealized(k)))
  /\ UNCHANGED <<trades, tradeSeq, lotSeq>>

(* update_dividend with a new withholding tax: the row's net amount        *)
(* changes, the position does not follow.                                  *)
UpdateDividend(d, net) ==
  /\ dividends[d].kind = "CASH"
  /\ dividends' = [dividends EXCEPT ![d].net = net]
  /\ UNCHANGED <<ledgerVars, dividendSeq>>

(* delete_dividend: the row goes, its effects stay. *)
DeleteDividend(d) ==
  /\ dividends' = [e \in DOMAIN dividends \ {d} |-> dividends[e]]
  /\ UNCHANGED <<ledgerVars, dividendSeq>>

DividendNext ==
  \/ \E k \in Key : \E net \in Net : RecordCash(k, net)
  \/ \E k \in Key : \E s \in Scale : RecordStock(k, s)
  \/ \E d \in DOMAIN dividends : \E net \in Net : UpdateDividend(d, net)
  \/ \E d \in DOMAIN dividends : DeleteDividend(d)

NextWithDividends ==
  \/ RecordNext /\ UNCHANGED dividendVars
  \/ DividendNext

DividendSpec == InitDividends /\ [][NextWithDividends]_allVars

--------------------------------------------------------------------------------
(* Properties. *)

(* Net amount of the cash dividend on k that this step recorded, if any.   *)
NewCash(k) ==
  IF dividendSeq' # dividendSeq /\ dividends'[dividendSeq'].key = k
  THEN dividends'[dividendSeq'].net ELSE 0

RealizedAt(table, k) == IF k \in DOMAIN table THEN table[k].realized_pnl ELSE 0
CostAt(table, k) == IF k \in DOMAIN table THEN table[k].total_cost ELSE 0

(* Dividends and their corrections move no cost into or out of a position, *)
(* and realise exactly the cash they pay, once, when they are recorded     *)
(* (dividend_service.py: cash leaves the cost basis untouched, stock       *)
(* preserves the total cost of every lot, edits are not reversed).         *)
DividendsKeepCost ==
  [][UNCHANGED <<trades, tradeSeq>> =>
       \A k \in Key :
         /\ CostAt(positions', k) = CostAt(positions, k)
         /\ RealizedAt(positions', k) = RealizedAt(positions, k) + NewCash(k)]_allVars
================================================================================
