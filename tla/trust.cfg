CONSTANTS
    Ops = {1, 2}
    MaxKeys = 3
    Requests = {1, 2}
    Limit = 2
    Instances <- KeysAndReaders
SPECIFICATION Spec
\* Administrators may stop, and nothing runs then.
CHECK_DEADLOCK FALSE
INVARIANTS TypeOK SigningKeyKept
PROPERTIES KeyRetires KeySetCatchesUp
