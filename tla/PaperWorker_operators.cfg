\* Two operators and one worker, and a second run after the first.
SPECIFICATION Spec
CONSTANTS
    MaxBar = 2
    Runs = {r1, r2}
    Workers = {w1}
    Operators = {o1, o2}
    NoRun = NoRun
    Starts = {0}
    MaxRecovery = 1
    MaxCrashes = 1
SYMMETRY Symmetry
INVARIANTS OneActiveRun LedgerMatchesRuns PendingOnlyWhileLooking FaultsAreAcknowledged
PROPERTIES OperatorsChangeWhatTheySaw
CHECK_DEADLOCK FALSE
