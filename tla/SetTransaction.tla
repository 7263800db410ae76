--------------------------- MODULE SetTransaction ---------------------------
(***************************************************************************)
(* What Torrent.Set (models/torrents.go) promises for one torrent: each    *)
(* call is a read and a later commit.  A commit replaces what is stored by *)
(* the record of its call, even when others committed in between; or it    *)
(* leaves what is stored, when the record equals what the call had read.   *)
(* A call that read no row commits only while there is still none.  A call *)
(* that fails before its commit takes effect has done nothing.  The answer *)
(* to a commit may get lost: the caller then sees an error for a record    *)
(* that is stored, which to the row is a commit like any other.            *)
(*                                                                         *)
(* TorrentSet shows that the statements of the transaction implement this, *)
(* and TorrentTracker uses Set as if it were this.                         *)
(***************************************************************************)
CONSTANTS Writers  \* whoever calls Set

VARIABLES
  row,   \* completion status of the stored torrent, "none" without a row
  busy,  \* writers with an open transaction
  seen   \* what an open transaction has read, "none" for the others

vars == <<row, busy, seen>>

Status == {"none", "loading", "done"}

Init ==
  /\ row = "none"
  /\ busy = {}
  /\ seen = [w \in Writers |-> "none"]

\* The transaction reads the row.
Begin(w) ==
  /\ w \notin busy
  /\ busy' = busy \cup {w}
  /\ seen' = [seen EXCEPT ![w] = row]
  /\ UNCHANGED row

\* The transaction commits a record of status new, whatever its caller hears.
Commit(w) ==
  /\ w \in busy
  /\ seen[w] = "none" => row = "none"
  /\ \E new \in Status \ {"none"} :
       row' = new \/ (row' = row /\ seen[w] = new)
  /\ busy' = busy \ {w}
  /\ seen' = [seen EXCEPT ![w] = "none"]

\* Transactions are rolled back, all of them when the process ends.
Abort(W) ==
  /\ busy' = busy \ W
  /\ seen' = [w \in Writers |-> IF w \in W THEN "none" ELSE seen[w]]
  /\ UNCHANGED row

Next ==
  \/ \E w \in Writers : Begin(w) \/ Commit(w)
  \/ \E W \in SUBSET Writers : Abort(W)

Spec == Init /\ [][Next]_vars

-----------------------------------------------------------------------------

\* A row that a transaction has read is there until it ends: no call removes one.
RowKept == \A w \in Writers : seen[w] # "none" => row # "none"

=============================================================================
