\* A dual-core build: a task deleted while running on the other core.
CONSTANTS
    c1 = c1  c2 = c2  k1 = k1  k2 = k2  k3 = k3
    Creators <- MCCreators
    Ids <- MCIds
    SerialFirstUse = TRUE
    Cores = 2
SPECIFICATION Spec
CHECK_DEADLOCK FALSE
INVARIANT NoFreeWhileRunning
