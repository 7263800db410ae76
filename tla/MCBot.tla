------------------------------- MODULE MCBot -------------------------------
(* Instances of Bot for TLC.                                               *)
EXTENDS Bot, TLC

CONSTANTS i1, i2
=============================================================================
