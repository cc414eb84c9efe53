------------------------------ MODULE LedgerReplay ------------------------------
(***************************************************************************)
(* Editing the trade log: PortfolioTradeService.update_trade, delete_trade *)
(* and _rebuild_position, on top of recording trades and dividends.        *)
(*                                                                         *)
(* An edit wipes the lots of the position and replays its trades in        *)
(* chronological order, (trade_date, id), through the FIFO engine.  The    *)
(* replay keeps its own list of lots, whose lot_id is the id of the BUY    *)
(* trade; the lots it inserts get fresh ids from the lot sequence; and its *)
(* bulk_update addresses the table with the ids of its own list.           *)
(***************************************************************************)
EXTENDS LedgerDividends, Sequences

CONSTANT MaxEdits  \* bound: how many edits may be requested

ASSUME EditAssumption == MaxEdits \in Nat

VARIABLES
  edits,  \* how many edits were requested
  reply   \* the request answered last: who asked, what, and the outcome

replayVars == <<allVars, edits, reply>>

Answer(user, op, outcome) == [user |-> user, op |-> op, outcome |-> outcome]

User == {Owner[a] : a \in Account}

--------------------------------------------------------------------------------
(* Replaying a log. *)

(* Mutation: the trades in the order they were recorded. *)
Earliest_ById(log, ts) == CHOOSE t \in ts : \A u \in ts : t <= u

(* _list_all_trades_for_position: by (trade_date, id). *)
Earliest(log, ts) ==
  CHOOSE t \in ts : \A u \in ts :
    log[t].date < log[u].date \/ (log[t].date = log[u].date /\ t <= u)

(* Mutation: nothing is wiped. *)
WithoutLotsOf_Nothing(table, ts) == table

(* delete_by_trade for each of the trades ts. *)
WithoutLotsOf(table, ts) ==
  [l \in {m \in DOMAIN table : table[m].trade \notin ts} |-> table[l]]

(* A replay under way: the trades still to do, its own list of lots, the   *)
(* lots table and the last lot id, the realised total, and whether no sale *)
(* ran short.                                                              *)
Replay(todo, mem, table, seq, realized, ok) ==
  [todo |-> todo, mem |-> mem, table |-> table, seq |-> seq,
   realized |-> realized, ok |-> ok]

MemoryLot(id, remaining, cost) == [id |-> id, remaining |-> remaining, cost |-> cost]

(* The replay's own list of lots, as columns for the engine. *)
MemoryQueue(mem) == [i \in Nat |-> IF i \in DOMAIN mem THEN mem[i].remaining ELSE 0]
MemoryCost(mem) == [i \in Nat |-> IF i \in DOMAIN mem THEN mem[i].cost ELSE 0]

(* bulk_update with the lots of mem: UPDATE ... WHERE id IN (their ids).   *)
LotLeft(lot, remaining) ==
  [trade |-> lot.trade, key |-> lot.key, original |-> lot.original,
   remaining |-> remaining, cost |-> lot.cost, exhausted |-> (remaining = 0)]

BulkUpdate(table, mem) ==
  [l \in DOMAIN table |->
     IF \E i \in DOMAIN mem : mem[i].id = l
     THEN LotLeft(table[l], mem[CHOOSE i \in DOMAIN mem : mem[i].id = l].remaining)
     ELSE table[l]]

ReplayBuy(s, t, row) ==
  Replay(s.todo \ {t}, Append(s.mem, MemoryLot(t, row.qty, row.unit)),
         Put(s.table, s.seq + 1, NewLot(t, row.key, row.qty, row.unit)), s.seq + 1,
         s.realized, TRUE)

AfterReplayedSale(mem, qty) ==
  LET taken == Consumed(MemoryQueue(mem), qty)
  IN  [i \in DOMAIN mem |-> MemoryLot(mem[i].id, mem[i].remaining - taken[i], mem[i].cost)]

(* Mutation: a sale that finds too few shares takes what there is. *)
ReplaySell_Unchecked(s, t, row) ==
  LET mem == AfterReplayedSale(s.mem, row.qty)
  IN  Replay(s.todo \ {t}, mem, BulkUpdate(s.table, mem), s.seq, s.realized, TRUE)

ReplaySell(s, t, row) ==
  LET queue == MemoryQueue(s.mem)
      mem   == AfterReplayedSale(s.mem, row.qty)
      gain  == row.qty * row.unit - CostOfSale(queue, MemoryCost(s.mem), row.qty, Len(s.mem))
  IN  IF row.qty > Available(queue, Len(s.mem))
      THEN Replay(s.todo, s.mem, s.table, s.seq, s.realized, FALSE)
      ELSE Replay(s.todo \ {t}, mem, BulkUpdate(s.table, mem), s.seq, s.realized + gain, TRUE)

(* One round of the loop, which ends when nothing is left to do or a sale  *)
(* ran short.                                                              *)
ReplayStep(log, s) ==
  LET t == Earliest(log, s.todo)
  IN  IF s.todo = {} \/ ~ s.ok THEN s
      ELSE IF log[t].action = "BUY" THEN ReplayBuy(s, t, log[t])
                                    ELSE ReplaySell(s, t, log[t])

Replayed(log, start) ==
  LET after[n \in Nat] == IF n = 0 THEN start ELSE ReplayStep(log, after[n - 1])
  IN  after

(* _rebuild_position of k. *)
Rebuild(log, table, seq, k) ==
  LET ts == {t \in DOMAIN log : log[t].key = k}
  IN  Replayed(log, Replay(ts, <<>>, WithoutLotsOf(table, ts), seq, 0, TRUE))[Cardinality(ts)]

(* The position the rebuild upserts, from its own list of lots. *)
RebuiltPosition(s) ==
  LET quantity == Available(MemoryQueue(s.mem), Len(s.mem))
      value    == [i \in Nat |-> MemoryQueue(s.mem)[i] * MemoryCost(s.mem)[i]]
  IN  [quantity |-> quantity, total_cost |-> RunningSum(value)[Len(s.mem)],
       realized_pnl |-> s.realized, is_closed |-> quantity = 0]

--------------------------------------------------------------------------------
InitReplay ==
  /\ InitDividends
  /\ edits = 0
  /\ reply \in {Answer(u, "none", "ok") : u \in User}

EditRequested == edits < MaxEdits /\ edits' = edits + 1

(* A rebuild that runs short raises InsufficientShares and the transaction *)
(* rolls back; only the lot ids it drew are gone.                          *)
Refuse(user, op, lastLot) ==
  /\ lotSeq' = lastLot
  /\ reply' = Answer(user, op, "insufficient_shares")
  /\ UNCHANGED <<trades, lots, positions, tradeSeq, dividendVars>>

(* update_trade: any column but the account may change (or none of these,  *)
(* when a note is edited); the old key is rebuilt, then the new one if the *)
(* trade moved.                                                            *)
UpdateTrade(t, row) ==
  LET old    == trades[t].key
      user   == Owner[old[1]]
      log    == [trades EXCEPT ![t] = row]
      first  == Rebuild(log, WithoutLotsOf(lots, {t}), lotSeq, old)
      second == IF row.key = old THEN first
                ELSE Rebuild(log, first.table, first.seq, row.key)
  IN  /\ row.key[1] = old[1]
      /\ EditRequested
      /\ \/ /\ first.ok /\ second.ok
            /\ trades' = log
            /\ lots' = second.table
            /\ lotSeq' = second.seq
            /\ positions' = Put(Put(positions, old, RebuiltPosition(first)),
                                row.key, RebuiltPosition(second))
            /\ reply' = Answer(user, "update", "ok")
            /\ UNCHANGED <<tradeSeq, dividendVars>>
         \/ ~ first.ok /\ Refuse(user, "update", first.seq)
         \/ first.ok /\ ~ second.ok /\ Refuse(user, "update", second.seq)

(* delete_trade *)
DeleteTrade(t) ==
  LET k     == trades[t].key
      user  == Owner[k[1]]
      log   == [u \in DOMAIN trades \ {t} |-> trades[u]]
      built == Rebuild(log, WithoutLotsOf(lots, {t}), lotSeq, k)
  IN  /\ EditRequested
      /\ \/ /\ built.ok
            /\ trades' = log
            /\ lots' = built.table
            /\ lotSeq' = built.seq
            /\ positions' = Put(positions, k, RebuiltPosition(built))
            /\ reply' = Answer(user, "delete", "ok")
            /\ UNCHANGED <<tradeSeq, dividendVars>>
         \/ ~ built.ok /\ Refuse(user, "delete", built.seq)

(* Recording, on behalf of the owner of the account recorded for. *)
RecordReply ==
  /\ UNCHANGED <<edits, dividendVars>>
  /\ \E k \in Key, qty \in Qty :
       \/ /\ \E date \in Date, unit \in Unit :
               RecordBuy(k, date, qty, unit) \/ RecordSell(k, date, qty, unit)
          /\ reply' = Answer(Owner[k[1]], "record", "ok")
       \/ /\ RejectSell(k, qty)
          /\ reply' = Answer(Owner[k[1]], "record", "insufficient_shares")

ReplayNext ==
  \/ RecordReply
  \/ DividendNext /\ UNCHANGED <<edits, reply>>
  \/ \E t \in DOMAIN trades : \E row \in TradeRow : UpdateTrade(t, row)
  \/ \E t \in DOMAIN trades : DeleteTrade(t)

ReplaySpec == InitReplay /\ [][ReplayNext]_replayVars

--------------------------------------------------------------------------------
(* Properties. *)

Edited == edits' # edits /\ reply'.outcome = "ok"

(* The keys whose log the step edited, or whose lots it replaced. *)
EditedKeys ==
  {lots'[l].key : l \in DOMAIN lots' \ DOMAIN lots} \cup
  {trades[t].key : t \in {u \in DOMAIN trades : u \notin DOMAIN trades' \/ trades'[u] # trades[u]}}
  \cup {trades'[t].key : t \in {u \in DOMAIN trades' : u \notin DOMAIN trades \/ trades'[u] # trades[u]}}

(* Shares of k bought by trades not later than u. *)
BoughtUpTo(k, u) ==
  RunningSum([t \in Nat |-> IF t \in DOMAIN trades /\ NotLater(t, u)
                            THEN BuyColumn(k)[t] ELSE 0])[tradeSeq]

(* What a first-in-first-out seller of the whole log has left of each BUY, *)
(* without replaying anything.                                             *)
LeftOf(k, t) ==
  LET beyond == BoughtUpTo(k, t) - Sold(k)
  IN  IF beyond <= 0 THEN 0 ELSE Smaller(beyond, trades[t].qty)

ChronologicalCost(k) ==
  RunningSum([t \in Nat |-> IF BuyColumn(k)[t] > 0 THEN LeftOf(k, t) * trades[t].unit ELSE 0])[tradeSeq]

ChronologicalPosition(k) ==
  LET quantity == RunningSum(BuyColumn(k))[tradeSeq] - Sold(k)
  IN  [quantity     |-> quantity,
       total_cost   |-> ChronologicalCost(k),
       realized_pnl |-> ChronologicalCost(k) - RunningSum(CashColumn(k))[tradeSeq],
       is_closed    |-> quantity = 0]

(* An accepted edit leaves every position it touches exactly as the edited *)
(* log, read in chronological order, says (_rebuild_position: "replay      *)
(* every BUY/SELL in chronological order and reconstruct lots + position   *)
(* from scratch").                                                         *)
EditReplaysLog ==
  [][Edited => \A k \in EditedKeys :
       k \in DOMAIN positions' /\ positions'[k] = ChronologicalPosition(k)']_replayVars

(* An edit is accepted only when the log it leaves can be replayed: a      *)
(* downstream SELL is never left without its shares.                       *)
AcceptedEditIsReplayable ==
  [][Edited => \A t \in DOMAIN trades' :
       trades'[t].key \in EditedKeys => BalanceAt(trades[t].key, t)' >= 0]_replayVars

(* However the log was edited, the lots are those of its BUYs: one lot for *)
(* each BUY, of its key, and none for anything else.                       *)
LotsOfBuys ==
  /\ \A l \in DOMAIN lots :
       LET t == lots[l].trade IN
       t \in DOMAIN trades /\ trades[t].action = "BUY" /\ trades[t].key = lots[l].key
  /\ \A t \in DOMAIN trades : trades[t].action = "BUY" =>
       Cardinality({l \in DOMAIN lots : lots[l].trade = t}) = 1

(* Editing one's own trades changes no lot of another user (design doc,    *)
(* goal G2: "User isolation by construction").                             *)
UserIsolation ==
  [][edits' # edits =>
       \A l \in DOMAIN lots : Owner[lots[l].key[1]] # reply'.user
         => l \in DOMAIN lots' /\ lots'[l] = lots[l]]_replayVars

(* Realised cash of k that no trade of the log explains: its dividends.    *)
DividendIncome(k) ==
  RunningSum(CashColumn(k))[tradeSeq] - CostAt(positions, k) + RealizedAt(positions, k)

(* Editing a trade loses no dividend: what was realised apart from trades  *)
(* is still there afterwards (dividend_service.py _accrue_realized_pnl:    *)
(* "so the portfolio summary correctly reflects realized cash").           *)
EditsKeepDividendIncome ==
  [][Edited => \A k \in Key : DividendIncome(k)' = DividendIncome(k)]_replayVars
================================================================================
