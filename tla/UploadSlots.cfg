SPECIFICATION Spec
CONSTANTS
  u1 = u1
  u2 = u2
  r1 = r1
  r2 = r2
  NoUpload = NoUpload
  Upload = {u1, u2}
  Request = {r1, r2}
  NumSlots = 1
  MaxUploadBytes = 2
  MaxTotalBytes = 2
  Size <- MCSize
  MaxCopies = 2
SYMMETRY MCSymmetry
INVARIANTS
  OpenHoldsSlot
  StorageCeiling
  PublishedWhole
  CompletedTogether
PROPERTIES
  VersionFixed
  StagedUntilCompleted
