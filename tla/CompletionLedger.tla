------------------------- MODULE CompletionLedger -------------------------
(***************************************************************************)
(* What the program promises one subscriber of a torrent, as the books of  *)
(* two clerks: the table (models/torrents.go) enters the completion date   *)
(* and may lose it again to an older record, the notifier                  *)
(* (commands/torrent_notifier.go) answers for each completion that was     *)
(* reported to it with at most one notice.                                 *)
(*                                                                         *)
(* TorrentTracker shows that the scraper, the dialogs, the notifier and    *)
(* restarts together keep these books.                                     *)
(***************************************************************************)
EXTENDS Naturals

VARIABLES
  finished,  \* Transmission has the whole torrent
  dated,     \* its row has a completion date
  reported,  \* completions that Set has reported to the scraper
  erased,    \* dates that were lost
  told       \* notices that the subscriber was sent

vars == <<finished, dated, reported, erased, told>>

Init ==
  /\ finished = FALSE /\ dated = FALSE
  /\ reported = 0 /\ erased = 0 /\ told = 0

\* The download finishes, once.
Finish ==
  /\ ~finished /\ finished' = TRUE
  /\ UNCHANGED <<dated, reported, erased, told>>

\* A date is entered that nobody is told about: by a dialog, or with a new row.
Enter ==
  /\ finished
  /\ ~dated /\ dated' = TRUE
  /\ UNCHANGED <<finished, reported, erased, told>>

\* The scraper enters a date, possibly over that of a dialog, and reports it:
\* the first time, and again only for dates that were lost in between.
Report ==
  /\ finished
  /\ reported <= erased /\ reported' = reported + 1
  /\ dated' = TRUE
  /\ UNCHANGED <<finished, erased, told>>

\* A record from before the completion is stored over it.
Erase ==
  /\ dated /\ dated' = FALSE
  /\ erased' = erased + 1
  /\ UNCHANGED <<finished, reported, told>>

\* A notice is sent for a report that has had none.
Tell ==
  /\ told < reported /\ told' = told + 1
  /\ UNCHANGED <<finished, dated, reported, erased>>

Next == Finish \/ Enter \/ Report \/ Erase \/ Tell

Spec == Init /\ [][Next]_vars

-----------------------------------------------------------------------------

\* The books balance: no notice without a report, no report without a completion,
\* and one report more than lost dates only while the last date stands.
Balanced ==
  /\ finished \in BOOLEAN /\ dated \in BOOLEAN
  /\ reported \in Nat /\ erased \in Nat /\ told \in Nat
  /\ dated \/ reported > 0 => finished
  /\ told <= reported
  /\ reported <= erased + (IF dated THEN 1 ELSE 0)

=============================================================================
