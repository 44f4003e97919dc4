\* Two creators may make the first registry call at the same time.
CONSTANTS
    c1 = c1  c2 = c2  k1 = k1  k2 = k2  k3 = k3
    Creators <- MCCreators
    Ids <- MCIds
    SerialFirstUse = FALSE
    Cores = 1
SPECIFICATION Spec
CHECK_DEADLOCK FALSE
INVARIANT NoLostRegistration
