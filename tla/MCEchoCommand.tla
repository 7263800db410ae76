---------------------------- MODULE MCEchoCommand ----------------------------
(* Instances of EchoCommand for TLC.                                       *)
EXTENDS EchoCommand, TLC

CONSTANTS j1, j2, j3

MCJobs == {j1, j2, j3}
=============================================================================
