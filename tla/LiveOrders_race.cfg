\* Two coordinators prepare at the same time.
SPECIFICATION Spec
CONSTANTS
    Orders = {o1, o2}
    Coordinators = {c1, c2}
    NoOrder = NoOrder
    MaxCrashes = 0
SYMMETRY Symmetry
INVARIANTS OneUnresolved
CHECK_DEADLOCK FALSE
