CONSTANTS
    Cap = 2
    Items = {a, b}
    Senders = {s1, s2}
    Receivers = {r1, r2}
    MaxDelay = MaxDelay
    Timeouts <- MCTimeouts
    OSAL_MAX_DELAY = MaxDelay
    NoItem = NoItem
    NoThread = NoThread

SPECIFICATION Spec

INVARIANT TypeOK
INVARIANT NoLostWakeup
PROPERTY ImplementsQueueSpec
