------------------------------- MODULE MCBilling -------------------------------
(* Instances of Billing for TLC: one user buys BASIC and PRO, in any order. *)
EXTENDS Billing, TLC

CONSTANTS u1, basic1, pro1, d1, d2

Owners == basic1 :> u1 @@ pro1 :> u1
Tiers == basic1 :> "BASIC" @@ pro1 :> "PRO"
================================================================================
