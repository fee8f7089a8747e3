SPECIFICATION Spec
CONSTANTS
    N = 5
    CommitId <- Numbers
    Histories <- FluxHistories
    NoCommit = 0
INVARIANT FastForwardFound
CHECK_DEADLOCK FALSE
