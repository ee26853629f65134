SPECIFICATION Spec
CONSTANTS
  f1 = f1
  f2 = f2
  r1 = r1
  r2 = r2
  a1 = a1
  a2 = a2
  NoRun = NoRun
  NoResult = NoResult
  Run = {f1, f2}
  Request = {r1, r2}
  Adapter = {a1, a2}
  Selections <- MCCompared
  MaxStops = 1
  MaxLapses = 1
SYMMETRY MCSymmetry
CONSTRAINT OneFault
INVARIANTS
  ActiveSlotHasLiveRun
  VerdictHasDocument
  SubmittedOnce
PROPERTIES
  ReleasedByItsRun
