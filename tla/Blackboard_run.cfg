SPECIFICATION Spec
CONSTANTS
    p1 = p1  p2 = p2
    ask = ask  answer = answer
    NoEntry = NoEntry
    Processes = {p1, p2}
    Entries = {ask, answer}
    Home <- Homes
    Reply <- Replies
    Problems = {ask, answer}
    Controlled = {p1, p2}
    MaxIterations = 1
    MaxStarts = 3
    MaxFaults = 1
INVARIANTS
    OneCopy
    NothingMissed
    SolvedOnce
    TriggersKept
CHECK_DEADLOCK FALSE
