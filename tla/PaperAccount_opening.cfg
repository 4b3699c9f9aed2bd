\* A credit at the open of the bar that stops the position out.
SPECIFICATION Spec
CONSTANTS
    Unit = 100
    FeeUnits = 1
    SlipUnits = 1
    MaintenanceUnits = 10
    LiquidationUnits = 5
    MaxBar = 3
    Candles <- MCCandles
    Rates <- MCRates
    Setups <- MCSetups
    Expiry = 2
    Quantities = {1}
    Leverage = 5
    StartCash = 1800
    ReserveUnits = 5
PROPERTIES CertainFundingCounts
CHECK_DEADLOCK FALSE
