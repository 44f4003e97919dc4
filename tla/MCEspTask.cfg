\* Two creators, three tasks; the first registry use is not concurrent;
\* a dual-core build, as ESP32 targets are by default.
CONSTANTS
    c1 = c1  c2 = c2  k1 = k1  k2 = k2  k3 = k3
    Creators <- MCCreators
    Ids <- MCIds
    SerialFirstUse = TRUE
    Cores = 2
SPECIFICATION Spec
\* Every task slot used and every creator idle is a real end state.
CHECK_DEADLOCK FALSE
INVARIANTS
    NoLostRegistration
    StaticTaskReleased
