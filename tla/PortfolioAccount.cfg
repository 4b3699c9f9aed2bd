\* Three symbols on one balance, through three batches.
SPECIFICATION Spec
CONSTANTS
    Unit = 100
    FeeUnits = 1
    SlipUnits = 1
    MaintenanceUnits = 10
    LiquidationUnits = 5
    MaxBar = 3
    Order <- MCOrder
    RulesOf <- MCRules
    RiskPolicy <- MCPolicy
    LeverageOf <- MCLeverage
    MaxLeverage = 50
    StartCash = 12400
    Expiry = 2
    DayStarts = {3}
    SetupOf <- MCSetupOf
    Batches <- MCBatches
    Offers <- MCOffers
INVARIANTS TypeOK CashIsExplained RiskIsLimited PendingsAreLive
PROPERTIES EntriesNeverSpendExits CreditsNeverSave LossesAreBudgeted
CHECK_DEADLOCK FALSE
