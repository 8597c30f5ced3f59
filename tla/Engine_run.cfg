SPECIFICATION FairSpec
CONSTANTS
    r1 = r1
    r2 = r2
    t1 = t1
    t2 = t2
    a = a
    p = p
    v = v
    k = k
    d = d
    b = b
    x = x
    y = y
    p0 = p0
    p1 = p1
    Default = Default
    Runs <- TwoRuns
    Trace <- OwnTraces
    Steps = {a, p, v, k, d, b, x, y}
    Inner = {p0, p1}
    Static <- Graph
    Deps <- GraphDeps
    Kind <- Kinds
    OnFailure <- Policies
    Retry <- Retries
    Spare = {a}
    Subs <- TwoSubs
    Offer <- Offers
    OfferDeps <- OffersDeps
    MaxSpawned = 1
    Supervised = TRUE
INVARIANTS
    CallsInOrder
    ReportIsTrue
    FailuresAreSeen
    SpawnsAreEarned
    NoSpawnLeaks
    RefusesBadGraphs
PROPERTIES
    AbortIsFinal
    ImplementsGraphRun
