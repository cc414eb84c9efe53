SPECIFICATION FairSpec
CONSTANTS
  u1 = u1
  basic1 = basic1
  pro1 = pro1
  d1 = d1
  d2 = d2
  None = None
  User = {u1}
  Sub = {basic1, pro1}
  Owner <- Owners
  TierOf <- Tiers
  Delivery = {d1, d2}
  MaxFailures = 1
INVARIANTS
  EachEventOnce
  OrderlyEventsSetTier
PROPERTIES
  CancelledForGood
CHECK_DEADLOCK FALSE
