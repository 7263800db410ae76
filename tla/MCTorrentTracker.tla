-------------------------- MODULE MCTorrentTracker --------------------------
(* Instances of TorrentTracker for TLC.                                    *)
EXTENDS TorrentTracker, TLC

CONSTANTS t1, t2, r1, r2, r3

MCTorrents == {t1, t2}
\* All dialogs carry the same magnet; the other torrent has no subscriber.
MCLink == [r \in Requests |-> t1]

Symmetry == Permutations(Requests)
=============================================================================
