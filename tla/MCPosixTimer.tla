---------------------------- MODULE MCPosixTimer ----------------------------
(* Model-checking instance of PosixTimer: one timer, one-shot or          *)
(* auto-reload (both initial states), two periods, two context pointers.  *)
EXTENDS PosixTimer
=============================================================================
