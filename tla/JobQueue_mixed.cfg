SPECIFICATION FairSpec
CONSTANTS
  w1 = w1
  w2 = w2
  c1 = c1
  NumJobs = 2
  Kind <- RunAndExport
  Legacy = {1}
  Workers = {w1, w2}
  Clients = {c1}
  MaxAttempts = 1
  MaxTokens = 2
  MaxCrashes = 1
  MaxStalls = 0
  MaxDamage = 1
INVARIANTS
  EvidenceOfSuccessOnly
PROPERTIES
  DamageFound
