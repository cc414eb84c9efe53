SPECIFICATION AlertsSpec
CONSTANTS
  u1 = u1
  u2 = u2
  s1 = s1
  s2 = s2
  c1 = c1
  Rule = {1, 2}
  User = {u1, u2}
  Existing = {1}
  Holding = {2}
  OwnerOf <- MCOwnerOf
  Scheduler = {s1, s2}
  Client = {c1}
  MaxRequests = 2
  MaxFlips = 1
  MaxFailures = 1
INVARIANTS
  UsersWordStands
  OneMessagePerArming
PROPERTY ArmedRuleFires
CHECK_DEADLOCK FALSE
