\* Two coordinators, two orders, one crash.
SPECIFICATION FairSpec
CONSTANTS
    Orders = {o1, o2}
    Coordinators = {c1, c2}
    NoOrder = NoOrder
    MaxCrashes = 1
INVARIANTS EnteredOnce NothingForgotten NeverReversed
PROPERTIES Lifecycle Resolves
CHECK_DEADLOCK FALSE
