SPECIFICATION Spec
CONSTANTS
    Devices = {d1, d2}
    NoVault = NoVault
    Corrupt = Corrupt
    Window = 2
    MaxSkew = 1
    Skews = {0, 1}
    MaxClock = 3
    MaxRuns = 2
    MaxRestarts = 1
    MaxSettings = 1
    MaxFaults = 1
PROPERTIES SecondCheckProtects StrangersWriteNothing ClaimsOnlyFresh DataJsonKeepsBoth
SYMMETRY DeviceSymmetry
CHECK_DEADLOCK FALSE
