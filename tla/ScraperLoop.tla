----------------------------- MODULE ScraperLoop -----------------------------
(***************************************************************************)
(* The scraper's loop (internal/server/polly.go): a poll stores what       *)
(* Transmission lists, in the order of the list, and ends at the first     *)
(* torrent that cannot be stored; the pause after it grows with failures   *)
(* and shrinks with successes.                                             *)
(*                                                                         *)
(* TorrentTracker has what one store does and who else stores; this module *)
(* has the pauses and the order.                                           *)
(***************************************************************************)
EXTENDS Integers, Sequences

CONSTANTS
  minPeriod, maxPeriod,  \* in units so small that no halving rounds
  Order,   \* the torrents as Transmission lists them
  Rungs,   \* good polls in a row that are certain to bring the minimum back
  Ladder,  \* Ladder[n]: bound of the period after n of them
  Faults   \* {"fail"} when Transmission or the database may fail

Torrents == {Order[i] : i \in 1 .. Len(Order)}

ASSUME PeriodAssumption ==
  minPeriod \in Nat \ {0} /\ maxPeriod \in Nat /\ minPeriod <= maxPeriod
ASSUME OrderAssumption == Order \in Seq(Torrents)
ASSUME LadderAssumption ==
  /\ Rungs \in Nat /\ Ladder \in [0 .. Rungs -> Nat]
  /\ Ladder[0] >= maxPeriod /\ Ladder[Rungs] <= minPeriod
  /\ \A n \in 0 .. Rungs - 1 : Ladder[n] \div 2 <= Ladder[n + 1]
ASSUME FaultsAssumption == Faults \subseteq {"fail"}

VARIABLES
  bad,            \* torrents that the database refuses: a name that is too long
  pc,             \* "ready", "polling" or "sleeping"
  currentPeriod,  \* the pause after the next poll is made from it
  todo,           \* what the poll has still to store
  changed,        \* torrents whose last change is not in the database
  late,           \* those of them that changed since the last list
  good            \* history: good polls in a row, counted up to Rungs

vars == <<bad, pc, currentPeriod, todo, changed, late, good>>

-----------------------------------------------------------------------------

\* A torrent changes in Transmission.
Change(t) ==
  /\ changed' = changed \cup {t}
  /\ late' = IF pc = "polling" THEN late \cup {t} ELSE late
  /\ UNCHANGED <<bad, pc, currentPeriod, todo, good>>

\* Mutant: the period is doubled and not capped.
DoubleUncapped ==
  /\ currentPeriod' = currentPeriod * 2
  /\ good' = 0

\* A poll ended with an error.
Double ==
  /\ currentPeriod' =
       IF currentPeriod * 2 > maxPeriod THEN maxPeriod ELSE currentPeriod * 2
  /\ good' = 0

\* Mutant: the period is halved only when that gives the minimum or more.
HalveAbove ==
  /\ currentPeriod' =
       IF currentPeriod \div 2 >= minPeriod
       THEN currentPeriod \div 2
       ELSE currentPeriod
  /\ good' = IF good < Rungs THEN good + 1 ELSE good

\* A poll ended without one.
Halve ==
  /\ currentPeriod' =
       IF currentPeriod = minPeriod \/ currentPeriod \div 2 < minPeriod
       THEN minPeriod
       ELSE currentPeriod \div 2
  /\ good' = IF good < Rungs THEN good + 1 ELSE good

\* Transmission is asked for all torrents.
List ==
  /\ pc = "ready"
  /\ pc' = "polling" /\ todo' = Order /\ late' = {}
  /\ UNCHANGED <<bad, currentPeriod, changed, good>>

ListFails ==
  /\ "fail" \in Faults /\ pc = "ready"
  /\ pc' = "sleeping" /\ Double
  /\ UNCHANGED <<bad, todo, changed, late>>

\* The next torrent is stored as it was listed.
Store ==
  /\ pc = "polling" /\ todo # <<>> /\ Head(todo) \notin bad
  /\ todo' = Tail(todo)
  /\ changed' = IF Head(todo) \in late THEN changed ELSE changed \ {Head(todo)}
  /\ UNCHANGED <<bad, pc, currentPeriod, late, good>>

\* Mutant: what cannot be stored is tried again at once.
StoreRetries ==
  /\ pc = "polling" /\ todo # <<>>
  /\ Head(todo) \in bad \/ "fail" \in Faults
  /\ Double
  /\ UNCHANGED <<bad, pc, todo, changed, late>>

\* It cannot be stored: the poll ends with an error.
StoreFails ==
  /\ pc = "polling" /\ todo # <<>>
  /\ Head(todo) \in bad \/ "fail" \in Faults
  /\ pc' = "sleeping" /\ todo' = <<>> /\ Double
  /\ UNCHANGED <<bad, changed, late>>

\* It is stored, but the answer to its commit is an error: the poll ends as well.
StoreUnheard ==
  /\ "fail" \in Faults
  /\ pc = "polling" /\ todo # <<>> /\ Head(todo) \notin bad
  /\ changed' = IF Head(todo) \in late THEN changed ELSE changed \ {Head(todo)}
  /\ pc' = "sleeping" /\ todo' = <<>> /\ Double
  /\ UNCHANGED <<bad, late>>

\* All are stored.
Done ==
  /\ pc = "polling" /\ todo = <<>>
  /\ pc' = "sleeping" /\ Halve
  /\ UNCHANGED <<bad, todo, changed, late>>

\* The pause is over; the context is not done.
Wake ==
  /\ pc = "sleeping"
  /\ pc' = "ready"
  /\ UNCHANGED <<bad, currentPeriod, todo, changed, late, good>>

-----------------------------------------------------------------------------

Init ==
  /\ bad \in SUBSET Torrents
  /\ pc = "ready"
  /\ currentPeriod = minPeriod
  /\ todo = <<>>
  /\ changed = Torrents
  /\ late = {}
  /\ good = 0

Scrape == List \/ ListFails \/ Store \/ StoreFails \/ StoreUnheard \/ Done

Next == Scrape \/ Wake \/ \E t \in Torrents : Change(t)

Fairness == WF_vars(Scrape \/ Wake)

Spec == Init /\ [][Next]_vars /\ Fairness

-----------------------------------------------------------------------------

TypeOK ==
  /\ bad \subseteq Torrents
  /\ pc \in {"ready", "polling", "sleeping"}
  /\ currentPeriod \in minPeriod .. maxPeriod
  /\ todo \in Seq(Torrents)
  /\ changed \subseteq Torrents
  /\ late \subseteq changed
  /\ good \in 0 .. Rungs

\* However long the failures lasted, n good polls in a row bring the period
\* down to the n-th rung, and those of the whole ladder to the minimum.
Recovers ==
  currentPeriod <= IF Ladder[good] < minPeriod THEN minPeriod ELSE Ladder[good]

\* The torrents that Transmission lists before every bad one.
Ahead ==
  {t \in Torrents :
     \E i \in 1 .. Len(Order) :
       Order[i] = t /\ \A j \in 1 .. i : Order[j] \notin bad}

\* A call fails that is not that of a bad torrent.
Fault == ListFails \/ StoreUnheard \/ (StoreFails /\ Head(todo) \notin bad)

\* A torrent that is listed before every bad one is stored as it is, unless it
\* changes for ever or calls fail for ever.
AheadStored ==
  \A t \in Torrents :
    \/ []<><<Fault \/ Change(t)>>_vars
    \/ t \in changed \cap Ahead ~> t \notin changed

=============================================================================
