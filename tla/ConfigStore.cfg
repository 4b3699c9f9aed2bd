\* Two owners who save and take snapshots, up to version 3.
SPECIFICATION Spec
CONSTANTS
    RiskSettings = {r1, r2}
    StrategySettings = {s1, s2}
    Missing = Missing
    Owners = {o1, o2}
    Deployments <- MCDeployments
    MaxVersion = 3
SYMMETRY Symmetry
INVARIANTS StrategiesAreRecorded SnapshotsAreOfOneVersion
PROPERTIES Lifecycle OwnersReplaceWhatTheySaw
CHECK_DEADLOCK FALSE
