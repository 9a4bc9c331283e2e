SPECIFICATION Spec
CONSTANTS
    MaxSession = 3
    MayQuit = TRUE
INVARIANTS TypeOK SameSegments MappedWhenReady AssertHolds MutexAlive NothingLeft
PROPERTIES OnlyOwnNames Meets
