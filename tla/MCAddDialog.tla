----------------------------- MODULE MCAddDialog -----------------------------
(* Instances of AddDialog for TLC.                                         *)
EXTENDS AddDialog, TLC

CONSTANTS d1, d2, s1, s2, s3

\* One modal is submitted twice, the other once.
MCOf == [s \in Submissions |-> IF s = s3 THEN d2 ELSE d1]
=============================================================================
