SPECIFICATION Spec
CONSTANTS
  a1 = a1  a2 = a2  u1 = u1  u2 = u2  u3 = u3  k1 = k1  k2 = k2  w1 = w1  w2 = w2  clearing = clearing
  Accounts <- TwoAccounts
  Clearing = clearing
  Opening <- TwoOpenings
  Actors = {u1, u2}
  Operators = {u1, u2}
  Finance = {}
  Keys <- ClientKeys
  Amounts = {1, 2}
  CanDebit <- Everyone
  CanCredit <- Everyone
  MinTransfer = 1
  MaxTransfer = 2
  Limit <- TightLimits
  Window = 2
  Skew = 1
  MaxTime = 3
  MaxTransfers = 3
  HoldKeys = {}
  Workers = {}
  MaxActiveHolds = 0
  MaxHolds = 0
  MaxCommands = 0
  MaxFaults = 0
  DualControl = TRUE
  RequestKeys = {}
  MaxCorrections = 0
  References = {}
  FundPerCommand = 0
  FundActorLimit = 0
  FundTenantLimit = 0
  MaxFundings = 0
  MaxLifecycle = 0
INVARIANTS
  RollingLimitsHold
CHECK_DEADLOCK FALSE
