\* One task deleting a timer that may expire while the delete command is
\* still queued.
CONSTANTS
    Tasks = {t1}
    QLen = 1
    MaxDelay = MaxDelay
    Timeouts <- MCTimeouts
    OSAL_MAX_DELAY = MaxDelay
    TICK_RATE_HZ = 100
    MaxCmds = 3
SPECIFICATION Spec
CHECK_DEADLOCK FALSE
PROPERTY MetaReadOnlyWhileAllocated
