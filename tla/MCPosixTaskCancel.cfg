CONSTANTS
    Tasks = {t1, t2}
    Senders = {s1}
    Cap = 1
    MaxDelay = MaxDelay
    Timeouts <- MCTimeouts
    OSAL_MAX_DELAY = MaxDelay
    NoThread = NoThread

SPECIFICATION Spec

INVARIANT NoMutexHeldByEndedTask
