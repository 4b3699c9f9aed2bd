\* One run through three bars of every shape, and the research engine beside it.
SPECIFICATION JointSpec
CONSTANTS
    Unit = 100
    FeeUnits = 1
    SlipUnits = 1
    MaintenanceUnits = 10
    LiquidationUnits = 5
    MaxBar = 3
    Candles <- MCCandles
    Rates <- MCRates
    Setups <- MCSetups
    Expiry = 2
    Quantities = {1}
    Leverage = 5
    StartCash = 1800
    ReserveUnits = 5
INVARIANTS CashIsExplained LedgerExplainsCash SameBook
PROPERTIES NeverFlatters CreditsNeverSave NoCreditInDoubt StopsComeFirst Lifecycle
CHECK_DEADLOCK FALSE
