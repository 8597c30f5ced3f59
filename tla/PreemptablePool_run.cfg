SPECIFICATION FairSpec
CONSTANTS
    bg = bg  low = low  high = high
    Jobs = {bg, low, high}
    Prio <- MixedPrio
    Deadline <- MixedDeadline
    MaxWorkers = 1
    TruePreemption = TRUE
    MaxPreemptions = 2
INVARIANTS
    NeverVanishes
    PreemptionIsInvisible
    ThrashBound
PROPERTIES
    EventuallyAnswered
CHECK_DEADLOCK FALSE
