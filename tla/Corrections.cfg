SPECIFICATION Spec
CONSTANTS
  a1 = a1  a2 = a2  u1 = u1  u2 = u2  u3 = u3  k1 = k1  k2 = k2  w1 = w1  w2 = w2  clearing = clearing
  Accounts <- TwoAccounts
  Clearing = clearing
  Opening <- TwoOpenings
  Actors = {u1, u2, u3}
  Operators = {u1, u2, u3}
  Finance = {u2, u3}
  Keys <- OneClientKey
  Amounts = {1, 2}
  CanDebit <- FirstActor
  CanCredit <- FirstActor
  MinTransfer = 1
  MaxTransfer = 2
  Limit <- WideLimits
  Window = 1
  Skew = 0
  MaxTime = 0
  MaxTransfers = 3
  HoldKeys = {1}
  Workers = {}
  MaxActiveHolds = 1
  MaxHolds = 1
  MaxCommands = 2
  MaxFaults = 0
  DualControl = TRUE
  RequestKeys = {1}
  MaxCorrections = 2
  References = {}
  FundPerCommand = 0
  FundActorLimit = 0
  FundTenantLimit = 0
  MaxFundings = 0
  MaxLifecycle = 0
INVARIANTS
  CorrectionsReverseOnce
  CorrectionsNeedTwoPeople
PROPERTIES
  LateCorrectionsMoveNothing
CHECK_DEADLOCK FALSE
