SPECIFICATION Spec
CONSTANTS
  a1 = a1  a2 = a2  u1 = u1  u2 = u2  u3 = u3  k1 = k1  k2 = k2  w1 = w1  w2 = w2  clearing = clearing
  Accounts <- TwoAccounts
  Clearing = clearing
  Opening <- TwoOpenings
  Actors = {u1}
  Operators = {u1}
  Finance = {}
  Keys <- ClientAndCaptureKeys
  Amounts = {1, 2}
  CanDebit <- Everyone
  CanCredit <- Everyone
  MinTransfer = 1
  MaxTransfer = 2
  Limit <- TightLimits
  Window = 1
  Skew = 0
  MaxTime = 0
  MaxTransfers = 2
  HoldKeys = {1, 2}
  Workers = {w1}
  MaxActiveHolds = 2
  MaxHolds = 2
  MaxCommands = 3
  MaxFaults = 0
  DualControl = TRUE
  RequestKeys = {}
  MaxCorrections = 0
  References = {}
  FundPerCommand = 0
  FundActorLimit = 0
  FundTenantLimit = 0
  MaxFundings = 0
  MaxLifecycle = 0
INVARIANTS
  ProjectionMatchesJournal
  AvailableIsLedgerLessHolds
  NoOverdraft
  HeldFundsCoverCapture
  CapturesOwnTheirTransfers
  EventsDescribeBalances
PROPERTIES
  VersionCountsChanges
  StepsConserveMoney
  KeepsItsPromise
CHECK_DEADLOCK FALSE
