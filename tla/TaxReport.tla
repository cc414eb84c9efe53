-------------------------------- MODULE TaxReport --------------------------------
(***************************************************************************)
(* The capital gains report over the trade log: TaxReportService, with the *)
(* FIFO matcher (modules/portfolio/tax_report.py) and the wash-sale        *)
(* detector (modules/portfolio/wash_sale_detector.py).                     *)
(*                                                                         *)
(* The report reads neither lots nor positions.  It pairs the SELLs of one *)
(* account, or of all accounts of a user, with BUYs in chronological order *)
(* of both: one row for each pair that shares shares.  A row at a loss is  *)
(* a wash sale as far as other BUYs close to the sale replace its shares.  *)
(*                                                                         *)
(* Both are one loop: takers, oldest first, draw on the BUYs they may have *)
(* shares of, oldest first.  The takers of the form are the SELLs, those   *)
(* of the detector the rows of the form at a loss.                         *)
(*                                                                         *)
(* Fees travel in the unit costs of the ledger, where allocating them in   *)
(* proportion to the shares leaves them.  The rows of one symbol never     *)
(* touch those of another.  Years, terms and the CSV layout are left out.  *)
(***************************************************************************)
EXTENDS PortfolioLedger, Sequences

CONSTANT Window  \* the days before and after a sale in which a BUY replaces it

ASSUME TaxAssumption == Window \in Nat

--------------------------------------------------------------------------------
(* What is collected for a report. *)

(* Scopes: one account, or everything a user owns. *)
Scope == {{a} : a \in Account} \cup {{a \in Account : Owner[a] = u} : u \in {Owner[b] : b \in Account}}

TradesIn(A, s, action) ==
  {t \in DOMAIN trades : trades[t].key \in A \X {s} /\ trades[t].action = action}

Quantity == [t \in DOMAIN trades |-> trades[t].qty]

(* What the trades S come to. *)
TotalQty(S) == SumOf(Quantity, S, tradeSeq)

QuantityOf(S) == [t \in S |-> trades[t].qty]

Day == [t \in DOMAIN trades |-> trades[t].date]

--------------------------------------------------------------------------------
(* Draining BUYs.  An offer says what there is of each BUY and what each   *)
(* taker wants, who may have shares of which BUY, and the days of both.    *)

Open(amounts) == {x \in DOMAIN amounts : amounts[x] > 0}

(* Mutation: in the order of recording. *)
Oldest_ById(day, S) == CHOOSE x \in S : \A y \in S : x <= y

(* The order (date, id) of both queues. *)
Oldest(day, S) ==
  CHOOSE x \in S : \A y \in S : day[x] < day[y] \/ (day[x] = day[y] /\ x <= y)

(* The BUYs with shares that a taker may have. *)
Eligible(offer, m, taker) == {b \in Open(m.left) : <<b, taker>> \in offer.may}

(* Who still wants shares and can have some. *)
Waiting(offer, m) == {c \in Open(m.wanted) : Eligible(offer, m, c) # {}}

(* n shares of a BUY for a taker: a row of the form, or of the detector. *)
Row(buy, taker, n) == [buy |-> buy, taker |-> taker, qty |-> n]

(* Mutation: the BUY keeps its shares. *)
Give_KeepsShares(m, buy, taker) ==
  LET n == Smaller(m.left[buy], m.wanted[taker])
  IN  [left   |-> m.left,
       wanted |-> [m.wanted EXCEPT ![taker] = @ - n],
       rows   |-> Append(m.rows, Row(buy, taker, n))]

(* The BUY gives what it has left, or what is still wanted. *)
Give(m, buy, taker) ==
  LET n == Smaller(m.left[buy], m.wanted[taker])
  IN  [left   |-> [m.left EXCEPT ![buy] = @ - n],
       wanted |-> [m.wanted EXCEPT ![taker] = @ - n],
       rows   |-> Append(m.rows, Row(buy, taker, n))]

Round(offer, m) ==
  LET taker == Oldest(offer.takerDay, Waiting(offer, m))
  IN  IF Waiting(offer, m) = {} THEN m
      ELSE Give(m, Oldest(offer.buyDay, Eligible(offer, m, taker)), taker)

Start(offer) == [left |-> offer.left, wanted |-> offer.wanted, rows |-> <<>>]

Drained(offer) ==
  LET after[n \in Nat] == IF n = 0 THEN Start(offer) ELSE Round(offer, after[n - 1])
  IN  after

(* Shares of the BUYs X for the takers Y. *)
Shared(rows, X, Y) ==
  SumOf([i \in DOMAIN rows |-> rows[i].qty],
        {i \in DOMAIN rows : rows[i].buy \in X /\ rows[i].taker \in Y}, Len(rows))

--------------------------------------------------------------------------------
(* compute_matched_pairs. *)

(* All BUYs are in the queue before the first SELL is taken, whatever      *)
(* their dates.                                                            *)
Form(A, s) ==
  LET buys == TradesIn(A, s, "BUY")  sales == TradesIn(A, s, "SELL")
  IN  [left |-> QuantityOf(buys), wanted |-> QuantityOf(sales), may |-> buys \X sales,
       buyDay |-> Day, takerDay |-> Day]

(* The rows of a symbol; no round gives less than one share. *)
MatchedPairs(A, s) == Drained(Form(A, s))[TotalQty(TradesIn(A, s, "SELL"))].rows

(* proceeds - cost_basis *)
Gain(row) == row.qty * (trades[row.taker].unit - trades[row.buy].unit)

--------------------------------------------------------------------------------
(* detect_wash_sales. *)

(* date_within_window, both ends included. *)
Near(d, e) == d - e <= Window /\ e - d <= Window

(* A BUY replaces shares of a row; the code leaves out those bought on the *)
(* day the row's shares were.                                              *)
Replaces(buy, row) == Near(Day[buy], Day[row.taker]) /\ Day[buy] # Day[row.buy]

(* The rows at a loss, in the order of their sales, claim replacements.    *)
Claims(A, s, rows) ==
  LET buys   == TradesIn(A, s, "BUY")
      losses == {i \in DOMAIN rows : Gain(rows[i]) < 0}
  IN  [left     |-> QuantityOf(buys),
       wanted   |-> [i \in losses |-> rows[i].qty],
       may      |-> {c \in buys \X losses : Replaces(c[1], rows[c[2]])},
       buyDay   |-> Day,
       takerDay |-> [i \in losses |-> Day[rows[i].taker]]]

WashSales(A, s, rows) ==
  Drained(Claims(A, s, rows))[Shared(rows, DOMAIN trades, DOMAIN trades)].rows

(* The part of the loss of its row that a claim disallows. *)
Disallowed(rows, claim) ==
  (-(Gain(rows[claim.taker])) * claim.qty) \div rows[claim.taker].qty

DisallowedFor(rows, claims, I) ==
  SumOf([c \in DOMAIN claims |-> Disallowed(rows, claims[c])],
        {c \in DOMAIN claims : claims[c].taker \in I}, Len(claims))

(* apply_wash_sale_adjustments finds the claims of a row by its two dates. *)
SameRows(rows, i) ==
  {j \in DOMAIN rows : /\ Day[rows[j].taker] = Day[rows[i].taker]
                       /\ Day[rows[j].buy] = Day[rows[i].buy]}

(* The gain or loss on the form; a wash sale never turns it into a gain. *)
AdjustedGain(rows, claims, i) ==
  LET disallowed == DisallowedFor(rows, claims, SameRows(rows, i))
  IN  IF disallowed <= 0 THEN Gain(rows[i]) ELSE Smaller(0, Gain(rows[i]) + disallowed)

--------------------------------------------------------------------------------
(* Properties. *)

Larger(a, b) == IF a > b THEN a ELSE b

(* Shares of the trades S strictly before t. *)
Before(t, S) == TotalQty({u \in S : u # t /\ NotLater(u, t)})

(* Lay the shares bought and the shares sold side by side, each in the     *)
(* order of their days: what a BUY and a SELL have in common.              *)
Overlap(buy, sale, A, s) ==
  LET b == Before(buy, TradesIn(A, s, "BUY"))  c == Before(sale, TradesIn(A, s, "SELL"))
  IN  Larger(0, Smaller(b + trades[buy].qty, c + trades[sale].qty) - Larger(b, c))

(* For every log the ledger can hold, backdated SELLs and several accounts *)
(* of a user included, the rows of the form say exactly what first-in-     *)
(* first-out says of each BUY and SELL, whatever the order in which the    *)
(* two queues were drained, and no SELL is left over, which would raise    *)
(* ValueError instead of a report (compute_matched_pairs).                 *)
FormIsFifo ==
  \A A \in Scope, s \in Symbol :
    LET rows == MatchedPairs(A, s)  buys == TradesIn(A, s, "BUY")
    IN  \A sale \in TradesIn(A, s, "SELL") :
          /\ \A buy \in buys : Shared(rows, {buy}, {sale}) = Overlap(buy, sale, A, s)
          /\ Shared(rows, buys, {sale}) = trades[sale].qty

RecordedInOrder(k) ==
  \A t, u \in DOMAIN trades :
    trades[t].key = k /\ trades[u].key = k /\ t <= u => trades[t].date <= trades[u].date

TotalGain(rows) == SumOf([i \in DOMAIN rows |-> Gain(rows[i])], DOMAIN rows, Len(rows))

(* Two computations of one number: for a position whose trades were        *)
(* recorded in the order of their dates, the form of its account reports   *)
(* the gain that the ledger realised, sale by sale, from its lots.         *)
FormAgreesWithLedger ==
  \A k \in DOMAIN positions :
    RecordedInOrder(k) => TotalGain(MatchedPairs({k[1]}, k[2])) = positions[k].realized_pnl

(* A share replaces at most one share sold, a row is washed at most once,  *)
(* and what the form adds back is what the detector disallowed, unless two *)
(* rows of the form have the same two dates.                               *)
WashSalesCountOnce ==
  \A A \in Scope, s \in Symbol :
    LET rows   == MatchedPairs(A, s)
        claims == WashSales(A, s, rows)
        buys   == TradesIn(A, s, "BUY")
    IN  /\ \A b \in buys : Shared(claims, {b}, DOMAIN rows) <= trades[b].qty
        /\ \A i \in DOMAIN rows :
             /\ Shared(claims, buys, {i}) <= rows[i].qty
             /\ SameRows(rows, i) = {i} =>
                  AdjustedGain(rows, claims, i) = Gain(rows[i]) + DisallowedFor(rows, claims, {i})

(* "The trade-log replay guarantees BUY total >= SELL total"               *)
(* (tax_report.py): no SELL is more than was bought.                       *)
BuysCoverSells ==
  \A A \in Scope, s \in Symbol :
    TotalQty(TradesIn(A, s, "SELL")) <= TotalQty(TradesIn(A, s, "BUY"))

(* "Profitable SELLs cannot be wash sales by definition"                   *)
(* (wash_sale_detector.py): a gain stays on the form.                      *)
GainsStayTaxable ==
  \A A \in Scope, s \in Symbol :
    LET rows   == MatchedPairs(A, s)
        claims == WashSales(A, s, rows)
    IN  \A i \in DOMAIN rows : Gain(rows[i]) > 0 => AdjustedGain(rows, claims, i) = Gain(rows[i])
================================================================================
