---------------------------- MODULE MCPosixQueue ----------------------------
(* Model-checking instance of PosixQueue: two senders and two receivers   *)
(* on a queue of capacity 2, each call choosing to poll (0), wait 50 ms,  *)
(* or wait forever.  OSAL_MAX_DELAY (0xFFFFFFFF) is beyond TLC's         *)
(* integers; the code only compares a timeout with it for equality, so    *)
(* it is a model value here.                                              *)
EXTENDS PosixQueue

CONSTANT MaxDelay

MCTimeouts == {0, 50, MaxDelay}
=============================================================================
