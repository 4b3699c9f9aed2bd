\* Two workers compete for one run.
SPECIFICATION FairSpec
CONSTANTS
    MaxBar = 2
    Runs = {r1}
    Workers = {w1, w2}
    Operators = {o1}
    NoRun = NoRun
    Starts = {0}
    MaxRecovery = 1
    MaxCrashes = 0
INVARIANTS BarsExactlyOnce OnlyLosersEnd
PROPERTIES Lifecycle CatchesUp
CHECK_DEADLOCK FALSE
