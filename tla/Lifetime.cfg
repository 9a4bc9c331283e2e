SPECIFICATION Spec
CONSTANTS
    MaxSend = 4
    MaxBreaks = 6
    MaxRetry = 3
INVARIANTS TypeOK NoDanglingUse NoOrphan OnlyAfterAllTries NoQuietDrop
