SPECIFICATION SyncSpec
CONSTANTS
  prices = prices
  daily = daily
  catchup = catchup
  lim = lim
  Stock = {1, 2}
  Dataset = {prices}
  Runner = {daily, catchup}
  Tasks <- MCTasks
  Limiter = {lim}
  LimiterOf <- MCLimiterOf
  MaxRequests = 2
  Reserve = 1
  MaxDay = 2
  MaxFailures = 1
INVARIANTS
  SyncedDaysStored
  NoSilentRun
 
CHECK_DEADLOCK FALSE
