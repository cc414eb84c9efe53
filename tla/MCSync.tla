--------------------------------- MODULE MCSync ---------------------------------
(* Instances of Sync for TLC: the daily and the catch-up run of one dataset *)
(* over two stocks, on the limiter they share.                              *)
EXTENDS Sync

CONSTANTS prices, daily, catchup, lim

MCTasks == [r \in Runner |-> <<prices>>]
MCLimiterOf == [r \in Runner |-> lim]
================================================================================
