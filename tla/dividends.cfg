SPECIFICATION DividendSpec
CONSTANTS
  a1 = a1
  u1 = u1
  s1 = s1
  s2 = s2
  Account = {a1}
  Symbol = {s1, s2}
  Owner <- OneOwner
  Date = {1}
  MonthStart = 1
  Qty = {1, 2}
  Unit = {4, 8}
  TradesPerMonth = 9
  MaxPositions = 9
  MaxTrades = 3
  Net = {1}
  Scale = {2}
  MaxDividends = 2
SYMMETRY Symbols
INVARIANTS
  PositionsRollUpLots
PROPERTIES
  DividendsKeepCost
  ImplementsShareQueue
CHECK_DEADLOCK FALSE
