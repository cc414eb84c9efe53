SPECIFICATION LedgerSpec
CONSTANTS
  a1 = a1
  a2 = a2
  a3 = a3
  u1 = u1
  u2 = u2
  Account = {a1, a2, a3}
  Symbol = {1}
  Owner <- Owners
  Date = {1, 2, 4}
  MonthStart = 2
  Qty = {1, 2}
  Unit = {1, 3}
  TradesPerMonth = 2
  MaxPositions = 1
  MaxTrades = 4
  Window = 1
SYMMETRY SameUser
INVARIANTS
  TypeOK
  PositionsRollUpLots
  LotsDerivable
  MoneyConserved
  QuotasHeld
  FormIsFifo
  FormAgreesWithLedger
  WashSalesCountOnce
CHECK_DEADLOCK FALSE
