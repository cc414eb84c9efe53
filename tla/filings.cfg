SPECIFICATION FilingsSpec
CONSTANTS
  f1 = f1
  f2 = f2
  request = request
  daily = daily
  weekly = weekly
  p1 = p1
  p2 = p2
  MaxFilings = 3
  Listed = {1, 2}
  Filer = {f1, f2}
  FilerOf <- MCFilerOf
  Period <- MCPeriod
  Run = {request, daily, weekly}
  Plan <- MCPlan
  Scheduled = {daily, weekly}
  Process = {p1, p2}
  ProcessOf <- MCProcessOf
  SkipFloor <- MCSkipFloor
  MaxFailures = 2
INVARIANTS
  OneMessagePerStoredFiling
  LatestFollowsFilings
PROPERTY EveryRunEnds
CHECK_DEADLOCK FALSE
