SPECIFICATION Spec
CONSTANTS
    a = a  b = b  c = c  x = x  y = y  w1 = w1  w2 = w2
    r1 = r1
    NoWorker = NoWorker
    Runs = {r1}
    Workers = {w1, w2}
    Nodes = {a, b, c, x}
    Static = {a, b, c}
    Deps <- Layered
    Capable <- Anyone
    Offered <- SpawnX
    MaxRetries = 2
    MaxSubmits = 1
    Late = TRUE
    Filtered = FALSE
    Conc = 1
    Faults = {"crash", "stall", "stop", "exit", "lost post"}
    MaxFaults = 1
INVARIANTS
    DepsFirst
    NodesAccounted
    Traceable
    OneExecution
    SuccessIsEarned
PROPERTIES
    ImplementsGraphRun
CHECK_DEADLOCK FALSE
