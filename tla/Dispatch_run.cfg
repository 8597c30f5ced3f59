SPECIFICATION FairSpec
CONSTANTS
    a1 = a1  a2 = a2
    c1 = c1  c2 = c2
    Agents = {a1, a2}
    ChainOf <- MCChainOf
    Configured = {a1}
    Threshold = 2
    Calls = {c1, c2}
    Permits = 1
    MaxDepth = 1
    MaxCancels = 1
INVARIANTS
    OpenIsRespected
    LoadIsTrue
PROPERTIES
    Recovers
