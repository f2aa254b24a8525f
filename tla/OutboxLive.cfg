SPECIFICATION OutboxLive
CONSTANTS
  a1 = a1  a2 = a2  p1 = p1  p2 = p2  u1 = u1  u2 = u2
  Accounts = {a1}
  Others = {}
  FirstVersion = 9
  Publishers = {p1, p2}
  WorkerID <- TwoNames
  BatchSize = 2
  MaxAttempts = 2
  MaxLength = 9
  MaxRetries = 0
  Operators = {u1, u2}
  MaxCommits = 2
  MaxReplays = 0
  MaxFaults = 1
INVARIANTS
  OutboxTypeOK
PROPERTIES
  EventsGetOut
CHECK_DEADLOCK FALSE
