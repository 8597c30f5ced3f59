SPECIFICATION FairSpec
CONSTANTS
    a = a  b = b  c = c  x = x  y = y  w1 = w1  w2 = w2
    r1 = r1 r2 = r2
    NoWorker = NoWorker
    Runs = {r1, r2}
    Workers = {w1, w2}
    Nodes = {a}
    Static = {a}
    Deps <- One
    Capable <- Anyone
    Offered <- NoSpawns
    MaxRetries = 1
    MaxSubmits = 1
    Late = FALSE
    Filtered = TRUE
    Conc = 1
    Faults = {"crash", "stall", "stop", "exit", "lost post"}
    MaxFaults = 1
PROPERTIES
    RunsComplete
CHECK_DEADLOCK FALSE
