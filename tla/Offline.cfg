\* The market poll, the database files and the parameter search.
SPECIFICATION Spec
CONSTANTS
    Fetches = {"entries", "trend"}
    Dur <- MCDur
    Listed <- MCListed
    MaxTime = 10
    Lag = 4
    Limit = 4
    MaxPages = 4
    MaxRetries = 1
    TrendBars = 2
    FastPeriod = 2
    SlowPeriod = 3
    PullbackPeriod = 2
    Lookback = 6
    Span = 1
    VolumeBars = 2
    ExpiryBars = 2
    RewardUnits = 100
    NetOfCosts = TRUE
    FeeUnits = 0
    SlipUnits = 2
    Unit = 100
    PriceTick = 2
    MinPrice = 1
    MaxPrice = 100
    Charts <- MCCharts
    Begin = 7
    EntryHistory = 6
    TrendHistory = 3
    Tools = {t1, t2}
    MaxFiles = 4
    MaxCommits = 2
    MaxLosses = 1
    Requests <- MCRequests
    Backtest <- MCBacktest
    Horizon = 1
    MinimumTraining = 1
    MinimumValidation = 1
    MaximumDrawdown = 1
    MinimumReturn = 0
    Penalty = 1
    MaximumBacktests = 14
INVARIANTS HistoryIsWhole DecisionsAreFinal SetupsPay FilesAreWhole ReportsAreDurable HoldoutIsUnseen
PROPERTIES RestoresDiscardWhatTheySaw
CHECK_DEADLOCK FALSE
