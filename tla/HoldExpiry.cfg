SPECIFICATION LiveSpec
CONSTANTS
  a1 = a1  a2 = a2  u1 = u1  u2 = u2  u3 = u3  k1 = k1  k2 = k2  w1 = w1  w2 = w2  clearing = clearing
  Accounts <- TwoAccounts
  Clearing = clearing
  Opening <- TwoOpenings
  Actors = {u1}
  Operators = {u1}
  Finance = {}
  Keys <- None
  Amounts = {1}
  CanDebit <- FirstDebits
  CanCredit <- Everyone
  MinTransfer = 1
  MaxTransfer = 2
  Limit <- WideLimits
  Window = 1
  Skew = 0
  MaxTime = 0
  MaxTransfers = 0
  HoldKeys = {1, 2}
  Workers = {w1, w2}
  MaxActiveHolds = 2
  MaxHolds = 2
  MaxCommands = 3
  MaxFaults = 2
  DualControl = TRUE
  RequestKeys = {}
  MaxCorrections = 0
  References = {}
  FundPerCommand = 0
  FundActorLimit = 0
  FundTenantLimit = 0
  MaxFundings = 0
  MaxLifecycle = 0
INVARIANTS
  CommandsTellTheTruth
PROPERTIES
  DueHoldsSettle
CHECK_DEADLOCK FALSE
