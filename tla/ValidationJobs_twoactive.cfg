SPECIFICATION Spec
CONSTANTS
  j1 = j1
  j2 = j2
  r1 = r1
  r2 = r2
  NoJob = NoJob
  Job = {j1, j2}
  Request = {r1, r2}
  MaxStops = 0
  MaxLapses = 0
SYMMETRY MCSymmetry
INVARIANTS
  OneActiveJob
