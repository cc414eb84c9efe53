SPECIFICATION ReplaySpec
CONSTANTS
  a1 = a1
  a2 = a2
  u1 = u1
  u2 = u2
  Account = {a1}
  s1 = s1
  s2 = s2
  Symbol = {s1, s2}
  Owner <- OneOwner
  Date = {1, 2}
  MonthStart = 1
  Qty = {1, 2}
  Unit = {2, 4}
  TradesPerMonth = 9
  MaxPositions = 1
  MaxTrades = 3
  Net = {1}
  Scale = {}
  MaxDividends = 1
  MaxEdits = 1
SYMMETRY Symbols
 
PROPERTIES
  EditReplaysLog
  AcceptedEditIsReplayable
CHECK_DEADLOCK FALSE
