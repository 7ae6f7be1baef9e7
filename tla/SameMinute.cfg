CONSTANTS
  Paths = {p1, p2}
  Contents = {c1, c2}
  NoId = NoId
  NoPath = NoPath
  Excluded <- NoPaths
  DedupWindow = 1
  Minute = 4
  MaxDepth = 3
  ReconcileEnabled = FALSE
  EditKinds <- WriteEdits
  EventGap = 1
  RunGap = 1
  MaxStarts = 1
  MaxEdits = 2
  MaxFulls = 1
  MaxManual = 0
  MaxFails = 0
  MaxStops = 0
  MaxLosses = 0
SPECIFICATION Spec
CHECK_DEADLOCK FALSE
SYMMETRY Symmetry
PROPERTIES
  SnapshotsImmutable
