SPECIFICATION FairSellSpec
CONSTANTS
  Places = 3
  Share = {0, 1, 2, 3}
  Cost = {1, 4}
  Ask = {1, 2, 4, 6, 9}
INVARIANTS
  ComputesClosedForm

  
CHECK_DEADLOCK FALSE
