\* One task and an ISR against a one-slot command queue at 100 Hz.
\* Deadlock is not checked: once delete has taken effect the timer no
\* longer exists and no further step is possible.
CONSTANTS
    Tasks = {t1}
    QLen = 1
    MaxDelay = MaxDelay
    Timeouts <- MCTimeouts
    OSAL_MAX_DELAY = MaxDelay
    TICK_RATE_HZ = 100
    MaxCmds = 4
SPECIFICATION Spec
CHECK_DEADLOCK FALSE
INVARIANT TypeOK
INVARIANT MetaOwnership
PROPERTY DeleteTakesEffect
