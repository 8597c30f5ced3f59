SPECIFICATION StoreSpec
CONSTANTS
    a1 = a1  a2 = a2
    Agents = {a1, a2}
    ChainOf <- MCChainOf
    Threshold = 2
    MaxFaults = 1
INVARIANTS
    DiskIsCurrent
