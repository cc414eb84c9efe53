-------------------------------- MODULE MCLedger --------------------------------
(* Instances of LedgerReplay for TLC. *)
EXTENDS LedgerReplay, TLC

CONSTANTS a1, a2, u1, u2, s1, s2

OneOwner == [a \in {a1, a2} |-> u1]

(* Nothing orders the symbols. *)
Symbols == Permutations({s1, s2})

TwoOwners == a1 :> u1 @@ a2 :> u2
================================================================================
