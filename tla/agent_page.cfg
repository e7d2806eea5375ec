CONSTANTS
    Saves = {1, 2}
    Starts = {1, 2}
    Polls = {1, 2}
    Pickers = {1, 2}
    MaxOpen = 2
    MaxJobs = 2
    MaxKeys = 2
    Budgets <- EachActivity
SPECIFICATION Spec
INVARIANTS TypeOK SavedOnce JobShown SecretSeen
PROPERTIES PollingEnds
CHECK_DEADLOCK FALSE
