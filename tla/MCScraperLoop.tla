--------------------------- MODULE MCScraperLoop ---------------------------
(* Instances of ScraperLoop for TLC.                                       *)
EXTENDS ScraperLoop, TLC

CONSTANTS t1, t2, t3

MCOrder == <<t1, t2, t3>>

\* Two seconds and five minutes, in 1/64 s; the bounds of the halvings.
MCLadder == [n \in 0 .. 8 |-> 19200 \div 2 ^ n]
=============================================================================
