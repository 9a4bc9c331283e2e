SPECIFICATION FairSpec
CONSTANTS
    Worker = {w1, w2}
    Client = {c1, c2}
    Task = {t1, t2, t3}
    MayShutDown = TRUE
INVARIANTS TypeOK FifoOnce ShutdownSoon
PROPERTY EveryTaskRuns
\* An idle pool, and a pool that was shut down, stand still.
CHECK_DEADLOCK FALSE
