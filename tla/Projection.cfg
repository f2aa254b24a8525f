SPECIFICATION Spec
CONSTANTS
  a1 = a1  o1 = o1  p1 = p1  p2 = p2  c1 = c1  c2 = c2  r1 = r1
  Accounts = {a1}
  Others = {}
  FirstVersion = 8
  Publishers = {p1}
  WorkerID <- OneNode
  BatchSize = 1
  MaxAttempts = 1
  MaxLength = 9
  MaxRetries = 1
  Operators = {}
  MaxCommits = 2
  MaxReplays = 0
  MaxFaults = 1
  Projectors = {c1, c2}
  FetchSize = 2
  Readers = {r1}
  MaxReads = 1
  MaxEvictions = 0
SYMMETRY Consumers
INVARIANTS
  ProjectionTypeOK
  AcknowledgedIsVisible
PROPERTIES
  CacheNeverGoesBack
CHECK_DEADLOCK FALSE
