SPECIFICATION FairSpec
CONSTANTS
    Worker = {w1}
    Client = {c1}
    Task = {t1}
    MayShutDown = FALSE
PROPERTY EveryTaskRuns
CHECK_DEADLOCK FALSE
