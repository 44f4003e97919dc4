----------------------------- MODULE MCEspTimer -----------------------------
(* Model values for EspTimer: OSAL_MAX_DELAY is compared for equality    *)
(* only, so a model value stands for 0xFFFFFFFF.                          *)
EXTENDS EspTimer

CONSTANT MaxDelay

MCTimeouts == {0, 50, MaxDelay}

(* A cmd_timeout_ms shorter than one tick at 100 Hz.                      *)
MCSubTickTimeouts == {0, 5, MaxDelay}
=============================================================================
