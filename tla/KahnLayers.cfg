SPECIFICATION KahnSpec
CONSTANTS
    a = a  b = b  c = c
    Unknown = Unknown
    Ids = {a, b, c}
    MaxTimes = 2
INVARIANTS
    RefusesExactly
    LayersAreReadySets
PROPERTIES
    Terminates
CHECK_DEADLOCK FALSE
