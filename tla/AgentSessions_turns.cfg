SPECIFICATION FairSpec
CONSTANTS
  MaxTokens = 3
  NumRequests = 2
  NumWorkers = 2
  MaxTurns = 2
  DailyLimit = 3
  MaxFaults = 1
INVARIANTS
  RunOnce
  ConfirmableIsLatest
  QuotaCoversCalls
PROPERTIES
  TurnsInOrder
  TurnsAnswered
