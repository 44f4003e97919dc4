----------------------------- MODULE MCPosixTask -----------------------------
(* Two tasks blocking on one queue of capacity 1, one sender thread, and *)
(* receives that poll, wait 100 ms or wait forever.  OSAL_MAX_DELAY is a *)
(* model value: the code only compares a timeout with it.                *)
EXTENDS PosixTask

CONSTANT MaxDelay

MCTimeouts == {0, 100, MaxDelay}
=============================================================================
