--------------------------- MODULE MCPortfolioLedger ---------------------------
(* Instances of PortfolioLedger, and of the reports over it, for TLC. *)
EXTENDS TaxReport, TLC

CONSTANTS a1, a2, a3, u1, u2

(* One user has two accounts, another has one. *)
Owners == a1 :> u1 @@ a2 :> u1 @@ a3 :> u2

(* Nothing tells the accounts of one user apart. *)
SameUser == Permutations({a1, a2})
================================================================================
