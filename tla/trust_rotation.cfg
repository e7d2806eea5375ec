CONSTANTS
    Ops = {1}
    MaxKeys = 3
    Requests = {1}
    Limit = 2
    Instances <- OneRotation
SPECIFICATION Spec
CHECK_DEADLOCK FALSE
INVARIANTS RotationKeepsKey
