------------------------------ MODULE MCOsalDemo ------------------------------
(* The demo with its own sizes: a 20-reading queue and batches of 10.    *)
(* 21 readings are enough to fill the queue while the consumer lags, so  *)
(* the producer's timeout path runs; one timer callback.                 *)
EXTENDS OsalDemo
=============================================================================
