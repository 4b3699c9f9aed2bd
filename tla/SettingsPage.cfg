\* An answer to the paper tab that arrives on the settings tab.
SPECIFICATION Spec
CONSTANTS
    RiskSettings = {r1, r2}
    StrategySettings = {s1}
    Missing = Missing
    Owners = {o1, o2}
    MaxVersion = 2
    MaxLoads = 2
SYMMETRY Symmetry
PROPERTIES StaleWritesAreRejected
CHECK_DEADLOCK FALSE
