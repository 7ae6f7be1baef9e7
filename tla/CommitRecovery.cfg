CONSTANTS
  Paths = {p1, p2}
  Contents = {c1, c2}
  NoId = NoId
  NoPath = NoPath
  Excluded <- NoPaths
  DedupWindow = 1
  Minute = 1
  MaxDepth = 2
  ReconcileEnabled = TRUE
  EditKinds <- RenameEdits
  EventGap = 1
  RunGap = 1
  MaxStarts = 1
  MaxEdits = 2
  MaxFulls = 1
  MaxManual = 1
  MaxFails = 1
  MaxStops = 1
  MaxLosses = 2
SPECIFICATION Spec
CHECK_DEADLOCK FALSE
SYMMETRY Symmetry
INVARIANTS
  TipRestorable
  ParentVerified

  
