CONSTANTS
    s1 = s1  s2 = s2  w1 = w1
    Servers = {s1, s2}
    Workers = {w1}
    Home <- WorkerOnS1
    Jobs = {j1}
    ReadCount = 2
    Batch = 2
    MaxDeliveries = 2
    EmptyThresh = 3
    BlockTicks = 2
    MaxMsgs = 1
    FaultKinds = {"read", "claim", "ack", "dlq"}
    Budget <- ReplicaBudget
SPECIFICATION Spec
INVARIANTS NoJobLost DeliveryBound
\* The environment may stop sending requests.
CHECK_DEADLOCK FALSE
