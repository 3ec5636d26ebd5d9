CONSTANTS
    c1 = c1
    c2 = c2
    a1 = a1
    a2 = a2
    None = None
    Accounts = {a1, a2}
    Clients = {c1, c2}
    Capacity = 2
    Setups <- AllSetups
SPECIFICATION Spec
INVARIANTS RoomsConsistent LiveIsCurrent
PROPERTIES ProjectionNeverGoesBack EndedByItsOwn
CHECK_DEADLOCK FALSE
