SPECIFICATION FairSpec
CONSTANTS
  w1 = w1
  w2 = w2
  c1 = c1
  NumJobs = 1
  Kind <- OneRun
  Legacy = {}
  Workers = {w1, w2}
  Clients = {c1}
  MaxAttempts = 2
  MaxTokens = 4
  MaxCrashes = 1
  MaxStalls = 1
  MaxDamage = 0
INVARIANTS
  TypeOK
  CancelSticks
  NothingPublishedEarly
  OnePublisher
  FinalizingRecoverable
  SucceededVerified
  CancelledEvidence
PROPERTIES
  ImplementsLifecycle
  JobsEnd
