CONSTANTS
  Day = 3
  DaysPerWeek = 3
  DaysPerMonth = 4
  FullDay = 1
  FullTime = 1
  NoTime = NoTime
  Cadence = "weekly"
  Grace = 1
  Quiet = 1
  IncInterval = 1
  Lead = 1
  Postponement = 2
  MaxClock = 5
  Horizon = 36
SPECIFICATION Spec
CHECK_DEADLOCK FALSE
INVARIANTS
  TypeOK
  TimersMatchState
  SlotsAreFirst
PROPERTIES
  UploadNotInterrupted
