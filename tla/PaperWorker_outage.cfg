\* The worker is away for longer than it recovers.
SPECIFICATION PatientSpec
CONSTANTS
    MaxBar = 3
    Runs = {r1}
    Workers = {w1}
    Operators = {o1}
    NoRun = NoRun
    Starts = {0}
    MaxRecovery = 1
    MaxCrashes = 0
PROPERTIES StopDrains
CHECK_DEADLOCK FALSE
