-------------------------------- MODULE MCAlerts --------------------------------
(* Instances of Alerts for TLC: two users with one rule each. *)
EXTENDS Alerts

CONSTANTS u1, u2, s1, s2, c1

MCOwnerOf == <<u1, u2>>
================================================================================
