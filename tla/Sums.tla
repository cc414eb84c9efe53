---------------------------------- MODULE Sums ----------------------------------
(***************************************************************************)
(* Running totals over rows numbered by the natural numbers.               *)
(*                                                                         *)
(* The ledger adds up quantities and amounts over database rows in primary *)
(* key order.  Such a column is written here as a function from Nat that   *)
(* is 0 where there is no row, and its running total is a recursive        *)
(* function (never a RECURSIVE operator), so that the modules below can be *)
(* proved about as well as model-checked.                                  *)
(***************************************************************************)
EXTENDS Integers

RunningSum(column) ==
  LET upTo[n \in Nat] == IF n = 0 THEN 0 ELSE upTo[n - 1] + column[n]
  IN  upTo

(* The entries of a column at some of its places, and their total among    *)
(* the places 1..last.                                                     *)
Only(column, places) == [x \in Nat |-> IF x \in places THEN column[x] ELSE 0]

SumOf(column, places, last) == RunningSum(Only(column, places))[last]

(* A table of rows with one row written: INSERT of a new id, or UPDATE. *)
Put(table, id, row) ==
  [x \in DOMAIN table \cup {id} |-> IF x = id THEN row ELSE table[x]]
================================================================================
