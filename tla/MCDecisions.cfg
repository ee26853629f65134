SPECIFICATION Spec
CONSTANTS
  Comparisons <- MCComparisons
  Evaluations <- MCEvaluations
  Panels <- MCPanels
  Files <- MCFiles
  Trainings <- MCTrainings
  Plans <- MCPlans
  Advices <- MCAdvices
  Experiments <- MCExperiments
  Horizon = 2
  BaselineWeight <- MCBaselineWeight
  PointLags = {0, 1}
  RollingWindow = 2
  MaxHistoryDays = 4
  MinHoldoutDays = 1
  MinContextDays = 2
  MaxTrainRows = 8
  BatchSize = 3
  MaxEntityDiagnostics = 2
  MaxFeatureShifts = 2
  MaxRoleColumns = 4
INVARIANTS
  ResultAccepted
  BestReported
  NothingHidden
  NoLookahead
  GateForetells
  BatchesFit
  PlansHold
  PlannedFilesRun
CHECK_DEADLOCK FALSE
