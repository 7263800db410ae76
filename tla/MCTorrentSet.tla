---------------------------- MODULE MCTorrentSet ----------------------------
(* Instances of TorrentSet for TLC.                                        *)
EXTENDS TorrentSet, TLC

CONSTANTS d1, d2, movie, music, n1, n2
=============================================================================
