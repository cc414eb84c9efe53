------------------------------- MODULE ShareQueue -------------------------------
(***************************************************************************)
(* What the ledger promises, without trades, lots or positions: every      *)
(* position is a queue of single shares, each with what it cost.  A        *)
(* purchase joins the queue at its tail, a sale takes shares from its head *)
(* and realises what they fetched less what they cost, a cash dividend     *)
(* realises its amount, and a stock dividend turns every share into s.     *)
(***************************************************************************)
EXTENDS Sums, Sequences

CONSTANTS Position, Qty, Unit, Net, Scale

VARIABLES
  held,     \* position -> the costs of its shares, oldest first
  realized  \* position -> what was realised on it

queueVars == <<held, realized>>

(* What the first n shares of a queue cost. *)
CostOfFirst(n, costs) ==
  RunningSum([i \in Nat |-> IF i \in DOMAIN costs THEN costs[i] ELSE 0])[n]

Shares(qty, cost) == [i \in 1..qty |-> cost]

InitQueue ==
  /\ held = [p \in Position |-> <<>>]
  /\ realized = [p \in Position |-> 0]

Buy(p, qty, cost) ==
  /\ held' = [held EXCEPT ![p] = @ \o Shares(qty, cost)]
  /\ UNCHANGED realized

Sell(p, qty, price) ==
  /\ qty <= Len(held[p])
  /\ held' = [held EXCEPT ![p] = SubSeq(@, qty + 1, Len(@))]
  /\ realized' = [realized EXCEPT ![p] = @ + (qty * price - CostOfFirst(qty, held[p]))]

PayCash(p, net) ==
  /\ realized' = [realized EXCEPT ![p] = @ + net]
  /\ UNCHANGED held

(* Every share becomes s shares in its place, which share its cost. *)
PayStock(p, s) ==
  /\ held' = [held EXCEPT ![p] = [i \in 1..s * Len(@) |-> @[(i - 1) \div s + 1] \div s]]
  /\ UNCHANGED realized

QueueNext ==
  \E p \in Position :
    \/ \E qty \in Qty, unit \in Unit : Buy(p, qty, unit) \/ Sell(p, qty, unit)
    \/ \E net \in Net : PayCash(p, net)
    \/ \E s \in Scale : PayStock(p, s)

QueueSpec == InitQueue /\ [][QueueNext]_queueVars
================================================================================
