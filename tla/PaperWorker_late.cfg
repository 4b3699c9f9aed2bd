\* Time passes between sampling the clock and committing the bar.
SPECIFICATION Spec
CONSTANTS
    MaxBar = 1
    Runs = {r1}
    Workers = {w1}
    Operators = {o1}
    NoRun = NoRun
    Starts = {0}
    MaxRecovery = 1
    MaxCrashes = 0
PROPERTIES EntriesAreTimely
CHECK_DEADLOCK FALSE
