SPECIFICATION FairSpec
CONSTANTS
    i1 = i1  i2 = i2  i3 = i3
    NoKey = NoKey
    Stale = Stale
    Instances = {i1, i2, i3}
    MaxFaults = 2
INVARIANTS
    AtMostOneLeader
PROPERTIES
    LeaderAgain
