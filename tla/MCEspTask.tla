------------------------------ MODULE MCEspTask ------------------------------
(* Model values for EspTask.                                              *)
EXTENDS EspTask

CONSTANTS c1, c2, k1, k2, k3

MCCreators == {c1, c2}
MCIds == {k1, k2, k3}
=============================================================================
