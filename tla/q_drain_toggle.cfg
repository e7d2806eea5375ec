CONSTANTS
    s1 = s1  s2 = s2  w1 = w1
    Servers = {s1}
    Workers = {w1}
    Home <- WorkerOnS1
    Jobs = {j1}
    ReadCount = 2
    Batch = 1
    MaxDeliveries = 2
    EmptyThresh = 3
    BlockTicks = 2
    MaxMsgs = 2
    FaultKinds = {"enqueue", "group", "read", "claim", "ack", "xdel"}
    Budget <- DrainBudget
SPECIFICATION Spec
INVARIANT DrainedIsSafe
\* The environment may stop sending requests.
CHECK_DEADLOCK FALSE
