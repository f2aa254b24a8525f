SPECIFICATION Spec
CONSTANTS
  a1 = a1  a2 = a2  u1 = u1  u2 = u2  u3 = u3  k1 = k1  k2 = k2  w1 = w1  w2 = w2  clearing = clearing
  Accounts <- TwoAccounts
  Clearing = clearing
  Opening <- OneFunded
  Actors = {u1, u2, u3}
  Operators = {u1, u2, u3}
  Finance = {u1, u2, u3}
  Keys <- OneClientKey
  Amounts = {1}
  CanDebit <- FirstActor
  CanCredit <- FirstActor
  MinTransfer = 1
  MaxTransfer = 2
  Limit <- WideLimits
  Window = 1
  Skew = 0
  MaxTime = 1
  MaxTransfers = 1
  HoldKeys = {}
  Workers = {}
  MaxActiveHolds = 0
  MaxHolds = 0
  MaxCommands = 0
  MaxFaults = 0
  DualControl = TRUE
  RequestKeys = {k1, k2}
  MaxCorrections = 0
  References <- OneReference
  FundPerCommand = 1
  FundActorLimit = 1
  FundTenantLimit = 2
  MaxFundings = 3
  MaxLifecycle = 2
SYMMETRY KeySymmetry
INVARIANTS
  ClearingMirrorsFunding
  CompensationsPairUp
  FundingNeedsTwoPeople
  ClosedAccountsAreEmpty
CHECK_DEADLOCK FALSE
