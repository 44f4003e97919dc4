----------------------------- MODULE MCOsalMutex -----------------------------
(* Two tasks, the fewest for a give by a task that does not hold the     *)
(* mutex, on either backend.                                               *)
EXTENDS OsalMutex
=============================================================================
