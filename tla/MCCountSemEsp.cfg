\* ESP backend, callers passing an explicit max_value.
CONSTANTS
    Backend = "esp"
    Tasks = {t1, t2}
    InitValues = {0, 1, 3}
    MaxValues = {1, 2}
    MaxDelay = MaxDelay
    Timeouts <- MCTimeouts
    OSAL_MAX_DELAY = MaxDelay
    SEM_VALUE_MAX = 3
SPECIFICATION Spec
INVARIANT TypeOK
INVARIANT CountWithinMax
