CONSTANTS
  Day = 3
  DaysPerWeek = 2
  DaysPerMonth = 4
  FullDay = 1
  FullTime = 1
  NoTime = NoTime
  Cadence = "weekly"
  Grace = 1
  Quiet = 2
  IncInterval = 1
  Lead = 1
  Postponement = 2
  Buttons = {}
  ManualKinds = {}
  Steps = {1}
  MaxClock = 3
  MaxEvents = 1
  MaxManual = 0
  MaxFails = 1
  MaxTroubles = 1
  MaxReloads = 1
SPECIFICATION FairSpec
CHECK_DEADLOCK FALSE
INVARIANTS
  RunnerInStep
PROPERTIES
  BlockedUntilAdopted
  QuietRespected
  EditsBackedUp
  CatchupRuns
