SPECIFICATION ReplaySpec
CONSTANTS
  a1 = a1
  a2 = a2
  u1 = u1
  u2 = u2
  s1 = s1
  s2 = s2
  Account = {a1, a2}
  Symbol = {1}
  Owner <- TwoOwners
  Date = {1}
  MonthStart = 1
  Qty = {1}
  Unit = {1, 2}
  TradesPerMonth = 9
  MaxPositions = 9
  MaxTrades = 4
  Net = {1}
  Scale = {2}
  MaxDividends = 0
  MaxEdits = 1
PROPERTY UserIsolation
CHECK_DEADLOCK FALSE
