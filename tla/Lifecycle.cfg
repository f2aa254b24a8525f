SPECIFICATION Spec
CONSTANTS
  a1 = a1  a2 = a2  u1 = u1  u2 = u2  u3 = u3  k1 = k1  k2 = k2  w1 = w1  w2 = w2  clearing = clearing
  Accounts <- TwoAccounts
  Clearing = clearing
  Opening <- OneFunded
  Actors = {u1}
  Operators = {u1}
  Finance = {u1}
  Keys <- OneClientKey
  Amounts = {1}
  CanDebit <- Everyone
  CanCredit <- Everyone
  MinTransfer = 1
  MaxTransfer = 2
  Limit <- WideLimits
  Window = 1
  Skew = 0
  MaxTime = 0
  MaxTransfers = 2
  HoldKeys = {1, 2}
  Workers = {}
  MaxActiveHolds = 1
  MaxHolds = 1
  MaxCommands = 2
  MaxFaults = 0
  DualControl = FALSE
  RequestKeys = {k1}
  MaxCorrections = 1
  References <- OneReference
  FundPerCommand = 1
  FundActorLimit = 1
  FundTenantLimit = 1
  MaxFundings = 1
  MaxLifecycle = 2
INVARIANTS
  TypeOK
  ClosedAccountsAreEmpty
PROPERTIES
  ClosedAccountsStayQuiet
CHECK_DEADLOCK FALSE
