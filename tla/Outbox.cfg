SPECIFICATION OutboxSpec
CONSTANTS
  a1 = a1  a2 = a2  p1 = p1  p2 = p2  u1 = u1  u2 = u2
  Accounts = {a1}
  Others = {}
  FirstVersion = 9
  Publishers = {p1, p2}
  WorkerID <- OneName
  BatchSize = 2
  MaxAttempts = 2
  MaxLength = 9
  MaxRetries = 1
  Operators = {u1, u2}
  MaxCommits = 1
  MaxReplays = 2
  MaxFaults = 2
INVARIANTS
  PublishedWasSent
  DuplicatesAreEvidenced
  TrialsTellTheStory
CHECK_DEADLOCK FALSE
