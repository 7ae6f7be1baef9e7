CONSTANTS
  f = f
  g = g
  c1 = c1
  c2 = c2
  Paths = {f, g}
  Names = {f, g, h, k}
  Contents = {c1, c2}
  NoId = NoId
  NoPath = NoPath
  Garbage = Garbage
  NoFile = NoFile
  Snapshots <- History
  InitialRemotes <- Remotes
  InitialVaults <- Vaults
  MaxEvents = 1
  MaxClicks = 3
SPECIFICATION Spec
CHECK_DEADLOCK FALSE
INVARIANTS
  OkMeansRestored
  CacheIsFresh
  TabShowsSelected
  VersionsComplete
  VersionsOwn
  PrunedIsGone
  GatesHaveOwners
PROPERTIES
  KnownFileSurvives
