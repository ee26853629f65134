SPECIFICATION Spec
CONSTANTS
  Comparisons = {}
  Evaluations = {}
  Panels = {}
  Files = {}
  Trainings = {}
  Plans = {}
  Advices = {}
  Experiments <- MCExperiments
  Horizon = 2
  BaselineWeight <- MCBaselineWeight
  PointLags = {0, 1}
  RollingWindow = 2
  MaxHistoryDays = 4
  MinHoldoutDays = 1
  MinContextDays = 2
  MaxTrainRows = 8
  BatchSize = 3
  MaxEntityDiagnostics = 2
  MaxFeatureShifts = 2
  MaxRoleColumns = 4
INVARIANTS
  OriginsUseAvailable
CHECK_DEADLOCK FALSE
