SPECIFICATION Spec
CONSTANTS
  w1 = w1
  w2 = w2
  c1 = c1
  NumJobs = 1
  Kind <- OneRun
  Legacy = {}
  Workers = {w1}
  Clients = {c1}
  MaxAttempts = 1
  MaxTokens = 3
  MaxCrashes = 1
  MaxStalls = 0
  MaxDamage = 0
INVARIANTS
  FailedEvidence
