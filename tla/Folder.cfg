SPECIFICATION Spec
CONSTANTS
    MaxSnaps = 3
    KeepN = 2
    NeverPrune = 0
    Recent = 0
    DailyDays = 1
    Day = 2
    MonthlyMonths = 0
    Month = 4
    Contents = {c1, c2}
    Passes = {p1}
    Sweepers = {s1, s2}
    AgeGate = 1
    LockTime = 1
    Interval = 1
    Overlap = {"sweep"}
    ReuseOrphans = FALSE
    RunTime = 1
    ListTime = 1
    Faults = {"call", "run", "stop", "corrupt"}
    MaxClock = 2
    MaxFaults = 2
    MaxCommands = 1
INVARIANTS KeptStaysRestorable PassSettles NoLockLeftBehind
PROPERTY RecoveryAgrees
CHECK_DEADLOCK FALSE
SYMMETRY Symmetry
