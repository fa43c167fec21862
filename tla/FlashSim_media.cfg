SPECIFICATION Spec
CONSTANTS
    NBlocks = 3
    NCells = 1
    Limit = 1
    BadBlocks = 1
    BadRatio = TRUE
    MaxCalls = 5
CHECK_DEADLOCK FALSE
INVARIANTS TypeOK WriteThrough ErasePrefix WearBounded
PROPERTIES BitsFall BadFrozen
