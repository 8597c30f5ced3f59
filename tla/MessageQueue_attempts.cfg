SPECIFICATION Spec
CONSTANTS
    m1 = m1
    m2 = m2
    c1 = c1
    c2 = c2
    o1 = o1
    g1 = g1
    g2 = g2
    NoRow = NoRow
    NoId = NoId
    NoOne = NoOne
    NoGroup = NoGroup
    Ids <- TwoIds
    Keyed <- NoKeys
    Consumers <- OneConsumer
    Identified <- OneConsumer
    QueueWorkers <- OneConsumer
    Groups <- TwoGroups
    GroupOf <- OneEach
    Operators <- OneOperator
    Prio <- MixedPrio
    RetryLimits = {3}
    MaxInserts = 3
    MaxFaults = 2
INVARIANTS
    ExactAttempts
