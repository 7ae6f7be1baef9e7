CONSTANTS
  Paths = {p1, p2}
  Contents = {c1, c2}
  NoId = NoId
  NoPath = NoPath
  Excluded <- NoPaths
  DedupWindow = 1
  Minute = 1
  MaxDepth = 3
  ReconcileEnabled = TRUE
  EditKinds <- WriteEdits
  EventGap = 1
  RunGap = 1
  MaxStarts = 2
  MaxEdits = 3
  MaxFulls = 1
  MaxManual = 1
  MaxFails = 0
  MaxStops = 1
  MaxLosses = 0
SPECIFICATION Spec
CHECK_DEADLOCK FALSE
SYMMETRY Symmetry
INVARIANTS
  NoObservedChangeLost
