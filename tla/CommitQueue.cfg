CONSTANTS
  Paths = {p1, p2}
  Contents = {c1, c2}
  NoId = NoId
  NoPath = NoPath
  Excluded <- NoPaths
  DedupWindow = 1
  Minute = 1
  MaxDepth = 3
  ReconcileEnabled = FALSE
  EditKinds <- PlainEdits
  EventGap = 1
  RunGap = 1
  MaxStarts = 1
  MaxEdits = 2
  MaxFulls = 0
  MaxManual = 0
  MaxFails = 1
  MaxStops = 1
  MaxLosses = 0
SPECIFICATION FairSpec
CHECK_DEADLOCK FALSE
INVARIANTS
  TypeOK
  CommitOrder
  NoObservedChangeLost
  IndexMatchesTip
PROPERTIES
  EventuallyBackedUp
  ImplementsSnapshotLog
