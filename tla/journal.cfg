SPECIFICATION JournalSpec
CONSTANTS
  c1 = c1
  c2 = c2
  Connection = {c1, c2}
  Qty = {1, 2}
  Unit = {16, 32}
  Ratio = {2}
  MaxTrades = 5
SYMMETRY Connections
INVARIANTS
  QuantityFollowsLog
  SerialTradesAgree
  FirstSalesKeepCost
CHECK_DEADLOCK FALSE
