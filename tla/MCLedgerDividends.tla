--------------------------- MODULE MCLedgerDividends ---------------------------
(* Instances of LedgerDividends and LedgerShares for TLC. *)
EXTENDS LedgerShares, TLC

CONSTANTS a1, u1, s1, s2

OneOwner == [a \in {a1} |-> u1]

(* Nothing orders the symbols. *)
Symbols == Permutations({s1, s2})
================================================================================
