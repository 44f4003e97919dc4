----------------------------- MODULE MCCountSem -----------------------------
(* Model values for CountSem: OSAL_MAX_DELAY is compared for equality    *)
(* only, so a model value stands for 0xFFFFFFFF.                          *)
EXTENDS CountSem

CONSTANT MaxDelay

MCTimeouts == {0, 50, MaxDelay}
=============================================================================
