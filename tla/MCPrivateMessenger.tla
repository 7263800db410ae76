------------------------- MODULE MCPrivateMessenger -------------------------
(* Instances of PrivateMessenger for TLC.                                  *)
EXTENDS PrivateMessenger, TLC

CONSTANTS s1, s2, s3, u1, u2

\* s1 and s2 write to the same user, s3 to another.
MCTo == [s \in Senders |-> IF s = s3 THEN u2 ELSE u1]
=============================================================================
