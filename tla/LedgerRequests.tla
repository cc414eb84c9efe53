----------------------------- MODULE LedgerRequests -----------------------------
(***************************************************************************)
(* Concurrent requests that record trades of one position, statement by    *)
(* statement, on PostgreSQL at its default isolation, READ COMMITTED: a    *)
(* single trade, or the rows of an import (import_service.py), each of     *)
(* which goes through record_trade.                                        *)
(*                                                                         *)
(* Each request is one transaction.  A statement sees what was committed   *)
(* when it started and the transaction's own writes.  An UPDATE locks the  *)
(* rows it writes until the end of the transaction; a row that was changed *)
(* while it waited is overwritten all the same, because the new values do  *)
(* not depend on the row (bulk_update writes CASE id WHEN ... THEN         *)
(* literal).  The upsert of the position locks its row likewise.  A cycle  *)
(* of waiting transactions is broken by aborting one of them, and a lost   *)
(* connection rolls its transaction back.                                  *)
(*                                                                         *)
(* The position has a committed row and open lots when the requests        *)
(* arrive; an exhausted lot is one with nothing remaining.  The rows of an *)
(* import have passed its checks, and all trades are of this month.        *)
(***************************************************************************)
EXTENDS FifoEngine, FiniteSets, Sequences

CONSTANTS
  Request,        \* the requests in flight
  Rows,           \* the trades each records: a sequence of [action, qty, unit],
                  \* where unit is the cost or the net proceeds per unit
  OpeningLots,    \* the lots there are: a sequence of [remaining, cost]
  TradesPerMonth  \* how many more trades the quota admits

TradeRow == [action : {"BUY", "SELL"}, qty : Nat \ {0}, unit : Nat]

LotRow == [remaining : Nat, cost : Nat]

ASSUME RequestsAssumption ==
  /\ \A r \in Request : Rows[r] \in Seq(TradeRow) /\ Len(Rows[r]) > 0
  /\ OpeningLots \in Seq(LotRow)
  /\ TradesPerMonth \in Nat

VARIABLES
  trades,      \* the committed trade rows, in the order of their commits
  lots,        \* committed lots: id -> [remaining, cost]
  position,    \* the committed position row
  lotSeq,      \* the last lot id drawn from its sequence
  pc,          \* the statement each request executes next
  txn,         \* what each transaction has read and written
  overlapped   \* history: two requests have been in progress at once

vars == <<trades, lots, position, lotSeq, pc, txn, overlapped>>

Progress == {"quota", "insert", "read", "write", "list", "get", "upsert", "commit"}
Answered == {"ok", "refused", "aborted"}

(* The row a transaction is at, the lots it has written (wrote), the       *)
(* remaining quantities its UPDATE still has to write (plan), its gain,    *)
(* the position it computes (rollup), and whether it has written that      *)
(* (upserted).                                                             *)
NewTxn == [row |-> 1, wrote |-> <<>>, plan |-> <<>>, gain |-> 0,
           rollup |-> [quantity |-> 0, total_cost |-> 0, realized_pnl |-> 0],
           upserted |-> FALSE]

Queue(table) == [l \in Nat |-> IF l \in DOMAIN table THEN table[l].remaining ELSE 0]
UnitCost(table) == [l \in Nat |-> IF l \in DOMAIN table THEN table[l].cost ELSE 0]
Basis(table) == [l \in Nat |-> Queue(table)[l] * UnitCost(table)[l]]

Held(table) == Available(Queue(table), lotSeq)
CostOf(table) == RunningSum(Basis(table))[lotSeq]

(* The lots r sees. *)
Visible(r) ==
  [l \in DOMAIN lots \cup DOMAIN txn[r].wrote |->
     IF l \in DOMAIN txn[r].wrote THEN txn[r].wrote[l] ELSE lots[l]]

Init ==
  /\ trades = <<>>
  /\ lots = OpeningLots
  /\ lotSeq = Len(OpeningLots)
  /\ position = [quantity |-> Held(lots), total_cost |-> CostOf(lots), realized_pnl |-> 0]
  /\ pc = [r \in Request |-> IF Len(Rows[r]) = 1 THEN "trade" ELSE "import"]
  /\ txn = [r \in Request |-> NewTxn]
  /\ overlapped = FALSE

Goto(r, label) == pc' = [pc EXCEPT ![r] = label]

(* The transaction of r becomes t. *)
Becomes(r, t) == txn' = [txn EXCEPT ![r] = t]

--------------------------------------------------------------------------------
(* The statements of a request. *)

Row(r) == Rows[r][txn[r].row]

(* count_by_user_this_month, with the rows the transaction has inserted.   *)
TradesSeen(r) == Len(trades) + txn[r].row - 1

NoteOverlap(r) == overlapped' = (overlapped \/ \E q \in Request \ {r} : pc[q] \in Progress)

(* Whatever raises rolls the whole request back. *)
Refuse(r) == Goto(r, "refused") /\ Becomes(r, NewTxn)

(* Mutation: the rows of the batch are not counted. *)
CheckBatch_OneRow(r) ==
  /\ pc[r] = "import"
  /\ NoteOverlap(r)
  /\ Goto(r, IF TradesSeen(r) >= TradesPerMonth THEN "refused" ELSE "quota")
  /\ UNCHANGED <<trades, lots, position, lotSeq, txn>>

(* _assert_batch_fits_in_quota, before the first row of an import. *)
CheckBatch(r) ==
  /\ pc[r] = "import"
  /\ NoteOverlap(r)
  /\ Goto(r, IF TradesSeen(r) + Len(Rows[r]) > TradesPerMonth THEN "refused" ELSE "quota")
  /\ UNCHANGED <<trades, lots, position, lotSeq, txn>>

(* _assert_trades_quota: a SELECT of the count, for every row. *)
CheckQuota(r) ==
  /\ pc[r] \in {"trade", "quota"}
  /\ NoteOverlap(r)
  /\ \/ TradesSeen(r) >= TradesPerMonth /\ Refuse(r)
     \/ TradesSeen(r) < TradesPerMonth /\ Goto(r, "insert") /\ UNCHANGED txn
  /\ UNCHANGED <<trades, lots, position, lotSeq>>

(* Mutation: the id after the last committed lot, as MAX(id) + 1 gives it. *)
DrawnLot_AfterCommitted == Cardinality(DOMAIN lots) + 1

(* The lot id an INSERT draws from the sequence: never the same twice.     *)
DrawnLot == lotSeq + 1

(* INSERT of the trade row and, for a BUY, of its lot. *)
InsertRows(r) ==
  /\ pc[r] = "insert"
  /\ \/ /\ Row(r).action = "BUY"
        /\ lotSeq' = DrawnLot
        /\ LET bought == [remaining |-> Row(r).qty, cost |-> Row(r).unit]
               t == [txn[r] EXCEPT !.wrote = Put(txn[r].wrote, DrawnLot, bought)]
           IN  Becomes(r, [t EXCEPT !.gain = 0])
        /\ Goto(r, "list")
     \/ /\ Row(r).action = "SELL"
        /\ Goto(r, "read")
        /\ UNCHANGED <<lotSeq, txn>>
  /\ UNCHANGED <<trades, lots, position, overlapped>>

(* _apply_sell_side: list_open_for_position, then apply_sell; a shortage   *)
(* raises InsufficientShares.                                              *)
ReadLots(r) ==
  /\ pc[r] = "read"
  /\ LET seen   == Visible(r)
         open   == {l \in DOMAIN seen : seen[l].remaining > 0}
         wanted == Row(r).qty
         taken  == Consumed(Queue(seen), wanted)
         gain   == wanted * Row(r).unit
                     - CostOfSale(Queue(seen), UnitCost(seen), wanted, lotSeq)
         t      == [txn[r] EXCEPT !.plan = [l \in open |-> seen[l].remaining - taken[l]]]
     IN  \/ wanted > Held(seen) /\ Refuse(r)
         \/ wanted <= Held(seen) /\ Goto(r, "write") /\ Becomes(r, [t EXCEPT !.gain = gain])
  /\ UNCHANGED <<trades, lots, position, lotSeq, overlapped>>

ToWrite(r) == DOMAIN txn[r].plan

LockedBy(q, l) == l \in DOMAIN txn[q].wrote

(* bulk_update: the UPDATE locks and overwrites the lots of the plan one   *)
(* by one, in the order its scan meets them.                               *)
UpdateLot(r) ==
  /\ pc[r] = "write"
  /\ \E l \in ToWrite(r) :
       /\ \A q \in Request \ {r} : ~ LockedBy(q, l)
       /\ LET updated == [remaining |-> txn[r].plan[l], cost |-> Visible(r)[l].cost]
              t == [txn[r] EXCEPT !.wrote = Put(txn[r].wrote, l, updated)]
          IN  Becomes(r, [t EXCEPT !.plan = [k \in ToWrite(r) \ {l} |-> txn[r].plan[k]]])
  /\ UNCHANGED <<trades, lots, position, lotSeq, pc, overlapped>>

UpdateDone(r) ==
  /\ pc[r] = "write"
  /\ ToWrite(r) = {}
  /\ Goto(r, "list")
  /\ UNCHANGED <<trades, lots, position, lotSeq, txn, overlapped>>

(* _reupsert_position_from_open_lots: list_open_for_position again ...     *)
ListLots(r) ==
  /\ pc[r] = "list"
  /\ Goto(r, "get")
  /\ Becomes(r, [txn[r] EXCEPT !.rollup = [quantity     |-> Held(Visible(r)),
                                           total_cost   |-> CostOf(Visible(r)),
                                           realized_pnl |-> txn[r].rollup.realized_pnl]])
  /\ UNCHANGED <<trades, lots, position, lotSeq, overlapped>>

(* The realised total r sees: its own, once it has written the row. *)
RealizedSeen(r) ==
  IF txn[r].upserted THEN txn[r].rollup.realized_pnl ELSE position.realized_pnl

(* ... then get, for the realised total so far ...                         *)
GetPosition(r) ==
  /\ pc[r] = "get"
  /\ Goto(r, "upsert")
  /\ Becomes(r, [txn[r] EXCEPT !.rollup =
                   [txn[r].rollup EXCEPT !.realized_pnl = RealizedSeen(r) + txn[r].gain]])
  /\ UNCHANGED <<trades, lots, position, lotSeq, overlapped>>

(* ... then INSERT ... ON CONFLICT DO UPDATE, and on to the next row.      *)
UpsertPosition(r) ==
  /\ pc[r] = "upsert"
  /\ \A q \in Request \ {r} : ~ txn[q].upserted
  /\ LET t == [txn[r] EXCEPT !.upserted = TRUE]
     IN  \/ /\ txn[r].row < Len(Rows[r])
            /\ Goto(r, "quota")
            /\ Becomes(r, [t EXCEPT !.row = txn[r].row + 1])
         \/ /\ txn[r].row = Len(Rows[r])
            /\ Goto(r, "commit")
            /\ Becomes(r, t)
  /\ UNCHANGED <<trades, lots, position, lotSeq, overlapped>>

Commit(r) ==
  /\ pc[r] = "commit"
  /\ Goto(r, "ok")
  /\ trades' = trades \o Rows[r]
  /\ lots' = Visible(r)
  /\ position' = txn[r].rollup
  /\ Becomes(r, NewTxn)
  /\ UNCHANGED <<lotSeq, overlapped>>

--------------------------------------------------------------------------------
(* The database. *)

Rollback(r) ==
  /\ Goto(r, "aborted")
  /\ Becomes(r, NewTxn)
  /\ UNCHANGED <<trades, lots, position, lotSeq, overlapped>>

(* q waits for rows that others of the group hold: lots, or the position.  *)
WaitsForLots(group, q) ==
  /\ pc[q] = "write" /\ ToWrite(q) # {}
  /\ \A l \in ToWrite(q) : \E s \in group \ {q} : LockedBy(s, l)

WaitsForPosition(group, q) == pc[q] = "upsert" /\ \E s \in group \ {q} : txn[s].upserted

(* Mutation: only waits for lots are seen. *)
Deadlocked_LotsOnly(group) == \A q \in group : WaitsForLots(group, q)

Deadlocked(group) == \A q \in group : WaitsForLots(group, q) \/ WaitsForPosition(group, q)

BreakDeadlock(r) ==
  /\ \E group \in SUBSET Request : r \in group /\ Deadlocked(group)
  /\ Rollback(r)

(* The server or the connection goes down in the middle of a request. *)
LoseConnection(r) == pc[r] \in Progress /\ Rollback(r)

Statement(r) ==
  \/ CheckBatch(r) \/ CheckQuota(r) \/ InsertRows(r) \/ ReadLots(r) \/ UpdateLot(r)
  \/ UpdateDone(r) \/ ListLots(r) \/ GetPosition(r) \/ UpsertPosition(r) \/ Commit(r)

Next == \E r \in Request : Statement(r) \/ BreakDeadlock(r) \/ LoseConnection(r)

Spec == Init /\ [][Next]_vars

(* Every request is awaited by the event loop, every wait for a lock ends  *)
(* when its holder does, and PostgreSQL breaks every deadlock.             *)
FairSpec ==
  /\ Spec
  /\ \A r \in Request : WF_vars(Statement(r))
  /\ WF_vars(\E r \in Request : BreakDeadlock(r))

--------------------------------------------------------------------------------
(* Properties. *)

(* What the rows of a log move into the position, in shares and in money.  *)
SharesColumn(log) ==
  [i \in Nat |-> IF i \in DOMAIN log
                 THEN IF log[i].action = "BUY" THEN log[i].qty ELSE -log[i].qty
                 ELSE 0]

ValueColumn(log) ==
  [i \in Nat |-> IF i \in DOMAIN log
                 THEN IF log[i].action = "BUY" THEN log[i].qty * log[i].unit
                                               ELSE -(log[i].qty * log[i].unit)
                 ELSE 0]

OpeningShares == Available(Queue(OpeningLots), Len(OpeningLots))
OpeningCost == RunningSum(Basis(OpeningLots))[Len(OpeningLots)]
BookShares == OpeningShares + RunningSum(SharesColumn(trades))[Len(trades)]
BookValue == OpeningCost + RunningSum(ValueColumn(trades))[Len(trades)]

(* However requests interleave, deadlock or fail, no share of the log goes *)
(* missing: the lots hold at least what the committed trades leave.        *)
SharesNeverLost == Held(lots) >= BookShares

(* Requests that never overlapped leave lots, position and log in          *)
(* agreement, and within the quota: what PortfolioLedger shows of whole    *)
(* transactions is what the statements do when they run one transaction at *)
(* a time, an import of many rows included.  The quota refuses an import   *)
(* before it has written anything (import_service.py: "Pre-checked before  *)
(* any write").                                                            *)
SerialRequestsAgree ==
  ~ overlapped =>
    /\ Held(lots) = BookShares
    /\ position.quantity = Held(lots)
    /\ position.total_cost = CostOf(lots)
    /\ position.total_cost - position.realized_pnl = BookValue
    /\ Len(trades) <= TradesPerMonth
    /\ \A r \in Request :
         pc[r] = "quota" /\ txn[r].row > 1 => TradesSeen(r) < TradesPerMonth

(* Every request is answered: no wait for a lot or for the position, which *)
(* an import holds while it wants more lots, lasts for ever.               *)
EveryRequestAnswered == \A r \in Request : <>(pc[r] \in Answered)

AtRest == \A r \in Request : pc[r] \in Answered

(* No share is sold twice (design doc, risk R2: "race condition on         *)
(* concurrent trade insert ... FIFO").                                     *)
NoDoubleSell == AtRest => Held(lots) = BookShares
================================================================================
