SPECIFICATION FairSpec
CONSTANTS
    m1 = m1
    m2 = m2
    c1 = c1
    c2 = c2
    o1 = o1
    g1 = g1
    g2 = g2
    NoRow = NoRow
    NoId = NoId
    NoOne = NoOne
    NoGroup = NoGroup
    Ids <- OneId
    Keyed <- OneKey
    Consumers <- TwoConsumers
    Identified <- OneConsumer
    QueueWorkers <- NoWorkers
    Groups <- TwoGroups
    GroupOf <- OneEach
    Operators <- OneOperator
    Prio <- SamePrio
    RetryLimits = {1}
    MaxInserts = 2
    MaxFaults = 1
INVARIANTS
    NoSilentLoss
    AckedWasProcessed
    SoleHolder
PROPERTIES
    EventuallySettled
