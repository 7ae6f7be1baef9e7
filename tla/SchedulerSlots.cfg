CONSTANTS
  Day = 3
  DaysPerWeek = 2
  DaysPerMonth = 4
  FullDay = 1
  FullTime = 1
  NoTime = NoTime
  Cadence = "weekly"
  Grace = 1
  Quiet = 1
  IncInterval = 1
  Lead = 1
  Postponement = 2
  Buttons = {"start", "postpone", "skip"}
  ManualKinds = {"inc", "full"}
  Steps = {1, 3}
  MaxClock = 11
  MaxEvents = 0
  MaxManual = 1
  MaxFails = 0
  MaxTroubles = 0
  MaxReloads = 1
SPECIFICATION Spec
CHECK_DEADLOCK FALSE
PROPERTIES
  NoSlotLeftBehind
