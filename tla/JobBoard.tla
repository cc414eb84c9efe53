-------------------------------- MODULE JobBoard --------------------------------
(***************************************************************************)
(* What the backtest queue promises, without workers, locks or             *)
(* transactions: a submitted job ends once, in one of three ways, and its  *)
(* results appear in the very step that completes it.                      *)
(***************************************************************************)
EXTENDS Naturals

CONSTANT Job

VARIABLES
  outcome,  \* "absent", "pending", or how the job ended
  results   \* how often the results of the job were stored

boardVars == <<outcome, results>>

InitBoard ==
  /\ outcome = [j \in Job |-> "absent"]
  /\ results = [j \in Job |-> 0]

Submit(j) ==
  /\ outcome[j] = "absent"
  /\ outcome' = [outcome EXCEPT ![j] = "pending"]
  /\ UNCHANGED results

End(j, how) ==
  /\ outcome[j] = "pending"
  /\ outcome' = [outcome EXCEPT ![j] = how]
  /\ results' = [results EXCEPT ![j] = IF how = "completed" THEN 1 ELSE 0]

BoardNext ==
  \E j \in Job : Submit(j) \/ \E how \in {"completed", "failed", "cancelled"} : End(j, how)

BoardSpec == InitBoard /\ [][BoardNext]_boardVars
================================================================================
