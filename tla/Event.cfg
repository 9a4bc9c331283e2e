SPECIFICATION Spec
CONSTANTS
    Thread = {t1, t2, t3}
    Setter = {s1, s2}
    MaxCalls = 4
INVARIANTS TypeOK OnePerSet JoinMeansDone SetIsSeen
\* Threads may wait for an event nobody sets any more.
CHECK_DEADLOCK FALSE
