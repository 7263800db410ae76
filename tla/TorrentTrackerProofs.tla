------------------------ MODULE TorrentTrackerProofs ------------------------
(***************************************************************************)
(* Safety of TorrentTracker for every set of torrents and requests, every  *)
(* limit of the notifier and every combination of failures.                *)
(***************************************************************************)
EXTENDS TorrentTracker, FiniteSetTheorems, TLAPS

-----------------------------------------------------------------------------
(* The helpers.                                                            *)

\* Statuses only advance: what was no further than a status is no further
\* than a later one.
LEMMA UpToTrans ==
  ASSUME NEW s \in Status, NEW u \in Status, NEW v \in Status,
         UpTo(s, u), UpTo(u, v)
  PROVE  UpTo(s, v)
BY DEF UpTo, Status

\* What a commit of Torrent.Set does to the two tables it is allowed to touch:
\* only the row of its torrent moves, to the new record or nowhere, and
\* erasing a completion date is always counted.
LEMMA CommitEffect ==
  ASSUME TypeOK,
         NEW t \in Torrents, NEW seen \in Status, NEW new \in Status,
         SetCommit(t, seen, new)
  PROVE  /\ row' \in [Torrents -> Status]
         /\ undone' \in [Torrents -> Nat]
         /\ \A u \in Torrents : u # t => row'[u] = row[u] /\ undone'[u] = undone[u]
         /\ ~Conflict(t, seen)
         /\ row'[t] = new \/ (seen = new /\ row'[t] = row[t])
         /\ undone'[t] = undone[t] + (IF row[t] = "done" /\ row'[t] # "done" THEN 1 ELSE 0)
<1>1. PICK v \in Outcomes(t, seen, new) :
        /\ row' = [row EXCEPT ![t] = v]
        /\ undone' = IF row[t] = "done" /\ v # "done"
                       THEN [undone EXCEPT ![t] = @ + 1] ELSE undone
  BY DEF SetCommit
<1>2. v = new \/ (seen = new /\ v = row[t])
  BY DEF Outcomes
<1>3. v \in Status
  BY <1>2 DEF TypeOK
<1>4. row'[t] = v
  BY <1>1 DEF TypeOK
<1>5. ~Conflict(t, seen)
  BY DEF SetCommit
<1>6. QED
  BY <1>1, <1>2, <1>3, <1>4, <1>5 DEF TypeOK

-----------------------------------------------------------------------------
(* Type correctness.                                                       *)

\* Every variable keeps its type, in every behaviour.
THEOREM TypeCorrect == Spec => []TypeOK
<1>1. Init => TypeOK
  <2> SUFFICES ASSUME Init PROVE TypeOK
    OBVIOUS
  <2>1. /\ remote \in [Torrents -> Status]
        /\ row \in [Torrents -> Status]
        /\ list \in [Torrents -> Status]
    BY DEF Init, Fresh, Status
  <2>2. /\ dlgSnap \in [Requests -> Status]
        /\ dlgSeen \in [Requests -> Status]
    BY DEF Init, Status
  <2>3. dlgPc \in [Requests -> InFlight \cup {"new", "thanked", "failed", "lost"}]
    BY DEF Init
  <2>4. /\ fired \in [Torrents -> Nat]
        /\ undone \in [Torrents -> Nat]
        /\ told \in [Requests -> Nat]
    BY DEF Init
  <2>5. QED
    BY <2>1, <2>2, <2>3, <2>4 DEF Init, TypeOK, Status
<1>2. TypeOK /\ [Next]_vars => TypeOK'
  <2> SUFFICES ASSUME TypeOK, [Next]_vars PROVE TypeOK'
    OBVIOUS
  <2> USE DEF TypeOK, dbVars, procVars, scrVars, ntfVars, dlgVars, histVars
  <2>1. ASSUME NEW t \in Torrents, RemoteAdd(t) \/ RemoteFinish(t) PROVE TypeOK'
    BY <2>1 DEF RemoteAdd, RemoteFinish, Status
  <2>2. CASE Startup
    BY <2>2 DEF Startup, Boot, Subscribe, OpenSession, StartHooks
  <2>3. CASE Shutdown
    <3>1. ASSUME Halt PROVE TypeOK'
      <4>1. list' \in [Torrents -> Status]
        BY <3>1 DEF Halt, Fresh, Status
      <4>2. dlgPc' \in [Requests -> InFlight \cup {"new", "thanked", "failed", "lost"}]
        BY <3>1 DEF Halt
      <4>3. /\ dlgSnap' \in [Requests -> Status]
            /\ dlgSeen' \in [Requests -> Status]
            /\ scrSeen' \in Status
        BY <3>1 DEF Halt, Status
      <4>4. QED
        BY <3>1, <4>1, <4>2, <4>3 DEF Halt
    <3>2. Interrupt => TypeOK'
      BY DEF Interrupt
    <3>3. QED
      BY <2>3, <3>1, <3>2 DEF Shutdown, BotReturns, ScraperQuits, Crash
  <2>4. CASE ScrapeList \/ ScrapeLogs \/ ScrapeDone \/ Handover
    BY <2>4 DEF ScrapeList, ScrapeLogs, ScrapeDone, Handover
  <2>5. ASSUME NEW t \in Torrents, ScrapeSetBegin(t) PROVE TypeOK'
    BY <2>5 DEF ScrapeSetBegin
  <2>6. CASE ScrapeSetCommit
    <3>1. /\ row' \in [Torrents -> Status]
          /\ undone' \in [Torrents -> Nat]
      BY <2>6, CommitEffect DEF ScrapeSetCommit
    <3>2. /\ list' \in [Torrents -> Status]
          /\ fired' \in [Torrents -> Nat]
          /\ scrPc' \in {"loop", "send"}
      BY <2>6 DEF ScrapeSetCommit, Status
    <3>3. QED
      BY <2>6, <3>1, <3>2 DEF ScrapeSetCommit
  <2>7. CASE ScrapeConflict \/ ScrapeFails
    BY <2>7 DEF ScrapeConflict, ScrapeFails, ScrapeAbandon, Fresh, Status
  <2>7a. CASE ScrapeUnheard
    <3>1. /\ row' \in [Torrents -> Status]
          /\ undone' \in [Torrents -> Nat]
      BY <2>7a, CommitEffect DEF ScrapeUnheard
    <3>2. /\ list' \in [Torrents -> Status]
          /\ scrPc' \in {"idle", "unheard"}
          /\ scrSeen' \in Status
      BY <2>7a DEF ScrapeUnheard, Fresh, Status
    <3>3. QED
      BY <2>7a, <3>1, <3>2 DEF ScrapeUnheard
  <2>8. CASE Notifier
    <3>1. CASE NotifierRead
      BY <3>1 DEF NotifierRead, Pages, Subscribers
    <3>2. ASSUME NEW r \in Requests, NotifyOne(r) PROVE TypeOK'
      BY <3>2 DEF NotifyOne
    <3>3. CASE NotifierNext
      BY <3>3 DEF NotifierNext
    <3>4. QED
      BY <2>8, <3>1, <3>2, <3>3 DEF Notifier
  <2>9. CASE NotifierTroubled
    BY <2>9 DEF NotifierTroubled, NotifierReadFails, NotifyFails, NotifierStops
  <2>10. ASSUME NEW r \in Requests,
                DialogAdd(r) \/ Dialog(r) \/ DialogFails(r)
         PROVE  TypeOK'
    <3> USE DEF InFlight
    <3>1. Link[r] \in Torrents
      BY LinkAssumption
    <3>2. CASE DialogAdd(r)
      BY <3>1, <3>2 DEF DialogAdd, Status
    <3>3. CASE DialogFetch(r) \/ DialogSetBegin(r)
      BY <3>1, <3>3 DEF DialogFetch, DialogSetBegin
    <3>4. CASE DialogSetCommit(r)
      <4>1. /\ row' \in [Torrents -> Status]
            /\ undone' \in [Torrents -> Nat]
        BY <3>1, <3>4, CommitEffect DEF DialogSetCommit
      <4>2. QED
        BY <3>4, <4>1 DEF DialogSetCommit, ForgetSnapshot, Status
    <3>5. CASE DialogSubscribe(r) \/ DialogThank(r)
      BY <3>5 DEF DialogSubscribe, DialogThank
    <3>6. CASE DialogConflict(r) \/ DialogFails(r)
      BY <3>6 DEF DialogConflict, DialogFails, DialogGivesUp, ForgetSnapshot, Status
    <3>7. QED
      BY <2>10, <3>2, <3>3, <3>4, <3>5, <3>6 DEF Dialog
  <2>11. CASE UNCHANGED vars
    BY <2>11 DEF vars
  <2>12. QED
    BY <2>1, <2>2, <2>3, <2>4, <2>5, <2>6, <2>7, <2>7a, <2>8, <2>9, <2>10, <2>11
    DEF Next, Remote, Scraper
<1>3. QED
  BY <1>1, <1>2, PTL DEF Spec

-----------------------------------------------------------------------------
(* The inductive invariant, in three parts.                                *)

\* What is known of a torrent was once true of it in Transmission, in every
\* place that holds it between Transmission and the user.
Honest ==
  /\ \A t \in Torrents : UpTo(row[t], remote[t]) /\ UpTo(list[t], remote[t])
  /\ \A r \in Requests : UpTo(dlgSnap[r], remote[Link[r]])
  /\ scrPc = "send" => remote[scrT] = "done"
  /\ ntfPc \in {"got", "deliver"} => remote[ntfT] = "done"
  /\ life # "hooked" => ntfPc = "off"
  /\ \A r \in pending : ntfPc = "deliver" /\ Link[r] = ntfT
  /\ \A r \in Requests : told[r] > 0 => remote[Link[r]] = "done"

\* Nobody stores an absent torrent, and what a dialog has written is there.
Recorded ==
  /\ scrPc = "tx" => list[scrT] # "none"
  /\ \A r \in Requests :
       /\ dlgPc[r] = "added" => remote[Link[r]] # "none"
       /\ dlgPc[r] \in {"fetched", "tx"} => dlgSnap[r] # "none"
       /\ dlgSeen[r] # "none" => row[Link[r]] # "none"
       /\ dlgPc[r] \in {"stored", "subscribed", "thanked"} => row[Link[r]] # "none"
       /\ dlgPc[r] \in {"subscribed", "thanked"} => r \in subs

\* A completion is on its way to r: waiting to be sent, or with the notifier.
Waiting(r) == IF scrPc = "send" /\ scrT = Link[r] THEN 1 ELSE 0
Held(r) == IF (ntfPc = "got" /\ ntfT = Link[r]) \/ r \in pending THEN 1 ELSE 0

\* A completion date in the row leaves room for one completion more than were
\* undone, and a scraper that read a row without one may still claim it.
Accounted ==
  /\ \A t \in Torrents :
       fired[t] <= undone[t] + (IF row[t] = "done" THEN 1 ELSE 0)
  /\ scrPc = "tx" /\ scrSeen = "loading" => fired[scrT] <= undone[scrT]
  /\ \A r \in Requests : told[r] + Waiting(r) + Held(r) <= fired[Link[r]]

-----------------------------------------------------------------------------
(* Honest is preserved.                                                    *)

LEMMA HonestInit == Init => Honest
<1> SUFFICES ASSUME Init PROVE Honest
  OBVIOUS
<1>1. \A r \in Requests : Link[r] \in Torrents
  BY LinkAssumption
<1>2. QED
  BY <1>1 DEF Init, Honest, Fresh, UpTo

\* A step that only moves torrents forward in Transmission keeps Honest.
LEMMA HonestRemote ==
  ASSUME TypeOK, Honest, remote' \in [Torrents -> Status],
         \A t \in Torrents : UpTo(remote[t], remote'[t]),
         UNCHANGED <<row, life, scrPc, list, scrT, ntfVars, dlgSnap, told>>
  PROVE  Honest'
<1> USE DEF ntfVars
<1>1. \A r \in Requests : Link[r] \in Torrents
  BY LinkAssumption
<1>2. \A t \in Torrents : remote[t] = "done" => remote'[t] = "done"
  BY DEF UpTo, TypeOK, Status
<1>3. \A t \in Torrents : UpTo(row'[t], remote'[t]) /\ UpTo(list'[t], remote'[t])
  BY UpToTrans DEF Honest, TypeOK
<1>4. \A r \in Requests : UpTo(dlgSnap'[r], remote'[Link[r]])
  BY <1>1, UpToTrans DEF Honest, TypeOK
<1>5. QED
  BY <1>1, <1>2, <1>3, <1>4 DEF Honest, TypeOK

\* A commit of something Transmission said keeps the table honest.
LEMMA HonestCommit ==
  ASSUME TypeOK, Honest, NEW t \in Torrents, NEW seen \in Status,
         NEW new \in Status, UpTo(new, remote[t]), SetCommit(t, seen, new)
  PROVE  \A u \in Torrents : UpTo(row'[u], remote[u])
BY CommitEffect DEF Honest

LEMMA HonestStep == TypeOK /\ Honest /\ [Next]_vars => Honest'
<1> SUFFICES ASSUME TypeOK, Honest, [Next]_vars PROVE Honest'
  OBVIOUS
<1> USE DEF dbVars, procVars, scrVars, ntfVars, dlgVars, histVars
<1>0. \A r \in Requests : Link[r] \in Torrents
  BY LinkAssumption
<1>1. ASSUME NEW t \in Torrents, RemoteAdd(t) \/ RemoteFinish(t) PROVE Honest'
  <2>1. /\ remote' \in [Torrents -> Status]
        /\ \A u \in Torrents : UpTo(remote[u], remote'[u])
    BY <1>1 DEF RemoteAdd, RemoteFinish, TypeOK, Status, UpTo
  <2>2. QED
    BY <1>1, <2>1, HonestRemote DEF RemoteAdd, RemoteFinish
<1>2. CASE Startup
  <2>1. CASE Boot \/ Subscribe \/ OpenSession
    BY <2>1 DEF Boot, Subscribe, OpenSession, Honest
  <2>2. CASE StartHooks
    BY <2>2 DEF StartHooks, Honest
  <2>3. QED
    BY <1>2, <2>1, <2>2 DEF Startup
<1>3. CASE Shutdown
  <2>1. ASSUME Halt PROVE Honest'
    BY <2>1 DEF Halt, Honest, Fresh, UpTo
  <2>2. CASE Interrupt
    BY <2>2 DEF Interrupt, Honest
  <2>3. QED
    BY <1>3, <2>1, <2>2 DEF Shutdown, BotReturns, ScraperQuits, Crash
<1>4. CASE ScrapeList
  BY <1>4 DEF ScrapeList, Honest, UpTo
<1>5. ASSUME NEW t \in Torrents, ScrapeSetBegin(t) PROVE Honest'
  BY <1>5 DEF ScrapeSetBegin, Honest
<1>6. CASE ScrapeSetCommit
  <2>1. scrT \in Torrents /\ scrSeen \in Status /\ list[scrT] \in Status
    BY DEF TypeOK
  <2>2. SetCommit(scrT, scrSeen, list[scrT])
    BY <1>6 DEF ScrapeSetCommit
  <2>3. \A u \in Torrents : UpTo(row'[u], remote'[u])
    BY <1>6, <2>1, <2>2, HonestCommit DEF ScrapeSetCommit, Honest
  <2>4. \A u \in Torrents : UpTo(list'[u], remote'[u])
    BY <1>6 DEF ScrapeSetCommit, Honest, UpTo, TypeOK
  <2>5. scrPc' = "send" => remote'[scrT'] = "done"
    BY <1>6, <2>1 DEF ScrapeSetCommit, Completed, Honest, UpTo
  <2>6. QED
    BY <1>6, <2>3, <2>4, <2>5 DEF ScrapeSetCommit, Honest
<1>7. CASE ScrapeConflict \/ ScrapeFails
  BY <1>7 DEF ScrapeConflict, ScrapeFails, ScrapeAbandon, Honest, Fresh, UpTo
<1>7a. CASE ScrapeUnheard
  <2>1. /\ scrT \in Torrents /\ scrSeen \in Status /\ list[scrT] \in Status
        /\ UpTo(list[scrT], remote[scrT])
        /\ SetCommit(scrT, scrSeen, list[scrT])
    BY <1>7a DEF ScrapeUnheard, TypeOK, Honest
  <2>2. \A u \in Torrents : UpTo(row'[u], remote'[u])
    BY <1>7a, <2>1, HonestCommit DEF ScrapeUnheard
  <2>3. QED
    BY <1>7a, <2>2 DEF ScrapeUnheard, Honest, Fresh, UpTo
<1>8. CASE ScrapeDone \/ ScrapeLogs
  BY <1>8 DEF ScrapeDone, ScrapeLogs, Honest
<1>9. CASE Handover
  <2>1. pending = {} /\ life = "hooked"
    BY <1>9 DEF Handover, Honest
  <2>2. QED
    BY <1>9, <2>1 DEF Handover, Honest
<1>10. CASE Notifier
  <2>1. CASE NotifierRead
    BY <2>1 DEF NotifierRead, Pages, Subscribers, Honest
  <2>2. ASSUME NEW r \in Requests, NotifyOne(r) PROVE Honest'
    <3>1. remote[Link[r]] = "done"
      BY <2>2 DEF NotifyOne, Honest
    <3>2. \A q \in Requests : told'[q] > 0 => remote'[Link[q]] = "done"
      BY <2>2, <3>1 DEF NotifyOne, Honest, TypeOK
    <3>3. QED
      BY <2>2, <3>2 DEF NotifyOne, Honest
  <2>3. CASE NotifierNext
    BY <2>3 DEF NotifierNext, Honest
  <2>4. QED
    BY <1>10, <2>1, <2>2, <2>3 DEF Notifier
<1>11. CASE NotifierTroubled
  BY <1>11 DEF NotifierTroubled, NotifierReadFails, NotifyFails, NotifierStops, Honest
<1>12. ASSUME NEW r \in Requests,
              DialogAdd(r) \/ Dialog(r) \/ DialogFails(r)
       PROVE  Honest'
  <2>1. CASE DialogAdd(r)
    <3>1. /\ remote' \in [Torrents -> Status]
          /\ \A u \in Torrents : UpTo(remote[u], remote'[u])
      BY <1>0, <2>1 DEF DialogAdd, TypeOK, Status, UpTo
    <3>2. QED
      BY <2>1, <3>1, HonestRemote DEF DialogAdd
  <2>2. CASE DialogFetch(r)
    BY <2>2 DEF DialogFetch, Honest, UpTo, TypeOK
  <2>3. CASE DialogSetBegin(r) \/ DialogSubscribe(r) \/ DialogThank(r)
    BY <2>3 DEF DialogSetBegin, DialogSubscribe, DialogThank, Honest
  <2>4. CASE DialogSetCommit(r)
    <3>1. /\ dlgSeen[r] \in Status /\ dlgSnap[r] \in Status
          /\ UpTo(dlgSnap[r], remote[Link[r]])
      BY DEF TypeOK, Honest
    <3>2. \A u \in Torrents : UpTo(row'[u], remote[u])
      BY <1>0, <2>4, <3>1, HonestCommit DEF DialogSetCommit
    <3>3. QED
      BY <2>4, <3>2 DEF DialogSetCommit, ForgetSnapshot, Honest, UpTo, TypeOK
  <2>5. CASE DialogConflict(r) \/ DialogFails(r)
    BY <2>5 DEF DialogConflict, DialogFails, DialogGivesUp, ForgetSnapshot, Honest,
                UpTo, TypeOK
  <2>6. QED
    BY <1>12, <2>1, <2>2, <2>3, <2>4, <2>5 DEF Dialog
<1>13. CASE UNCHANGED vars
  BY <1>13 DEF vars, Honest
<1>14. QED
  BY <1>1, <1>2, <1>3, <1>4, <1>5, <1>6, <1>7, <1>7a, <1>8, <1>9, <1>10, <1>11, <1>12,
     <1>13
  DEF Next, Remote, Scraper

\* No user is told of a completion, and no row records one, that Transmission
\* has not reached: whatever is lost, repeated or interleaved.
THEOREM NoticesAreTrue == Spec => []NoFalseCompletion
<1>1. Honest => NoFalseCompletion
  BY DEF Honest, NoFalseCompletion
<1>2. QED
  BY <1>1, HonestInit, HonestStep, TypeCorrect, PTL DEF Spec

-----------------------------------------------------------------------------
(* Recorded is preserved.                                                  *)

LEMMA RecordedInit == Init => Recorded
BY DEF Init, Recorded

\* A row never goes away, and a commit that does not conflict leaves one.
LEMMA CommitKeepsRows ==
  ASSUME TypeOK, NEW t \in Torrents, NEW seen \in Status,
         NEW new \in Status \ {"none"}, SetCommit(t, seen, new)
  PROVE  /\ \A u \in Torrents : row[u] # "none" => row'[u] # "none"
         /\ (seen # "none" => row[t] # "none") => row'[t] # "none"
BY CommitEffect

LEMMA RecordedStep == TypeOK /\ Recorded /\ [Next]_vars => Recorded'
<1> SUFFICES ASSUME TypeOK, Recorded, [Next]_vars PROVE Recorded'
  OBVIOUS
<1> USE DEF dbVars, procVars, scrVars, ntfVars, dlgVars, histVars
<1>0. \A r \in Requests : Link[r] \in Torrents
  BY LinkAssumption
<1>1. ASSUME NEW t \in Torrents, RemoteAdd(t) \/ RemoteFinish(t) PROVE Recorded'
  <2>1. \A u \in Torrents : remote[u] # "none" => remote'[u] # "none"
    BY <1>1 DEF RemoteAdd, RemoteFinish, TypeOK
  <2>2. QED
    BY <1>0, <1>1, <2>1 DEF RemoteAdd, RemoteFinish, Recorded
<1>2. CASE Startup
  BY <1>2 DEF Startup, Boot, Subscribe, OpenSession, StartHooks, Recorded
<1>3. CASE Shutdown
  <2>1. ASSUME Halt PROVE Recorded'
    BY <2>1 DEF Halt, Recorded, InFlight
  <2>2. CASE Interrupt
    BY <2>2 DEF Interrupt, Recorded
  <2>3. QED
    BY <1>3, <2>1, <2>2 DEF Shutdown, BotReturns, ScraperQuits, Crash
<1>4. CASE ScrapeList \/ ScrapeLogs \/ ScrapeDone \/ Handover
  BY <1>4 DEF ScrapeList, ScrapeLogs, ScrapeDone, Handover, Recorded
<1>5. ASSUME NEW t \in Torrents, ScrapeSetBegin(t) PROVE Recorded'
  BY <1>5 DEF ScrapeSetBegin, Recorded
<1>6. CASE ScrapeSetCommit \/ ScrapeUnheard
  <2>1. /\ scrT \in Torrents /\ scrSeen \in Status
        /\ list[scrT] \in Status \ {"none"}
        /\ SetCommit(scrT, scrSeen, list[scrT])
    BY <1>6 DEF ScrapeSetCommit, ScrapeUnheard, TypeOK, Recorded
  <2>2. \A u \in Torrents : row[u] # "none" => row'[u] # "none"
    BY <2>1, CommitKeepsRows
  <2>3. QED
    BY <1>0, <1>6, <2>2 DEF ScrapeSetCommit, ScrapeUnheard, Recorded
<1>7. CASE ScrapeConflict \/ ScrapeFails
  BY <1>7 DEF ScrapeConflict, ScrapeFails, ScrapeAbandon, Recorded
<1>8. CASE Notifier
  BY <1>8 DEF Notifier, NotifierRead, NotifyOne, NotifierNext, Recorded
<1>9. CASE NotifierTroubled
  BY <1>9 DEF NotifierTroubled, NotifierReadFails, NotifyFails, NotifierStops, Recorded
<1>10. ASSUME NEW r \in Requests,
              DialogAdd(r) \/ Dialog(r) \/ DialogFails(r)
       PROVE  Recorded'
  <2>1. CASE DialogAdd(r)
    <3>1. /\ remote'[Link[r]] # "none"
          /\ \A u \in Torrents : remote[u] # "none" => remote'[u] # "none"
      BY <1>0, <2>1 DEF DialogAdd, TypeOK
    <3>2. QED
      BY <1>0, <2>1, <3>1 DEF DialogAdd, Recorded, TypeOK
  <2>2. CASE DialogFetch(r)
    BY <1>0, <2>2 DEF DialogFetch, Recorded, TypeOK
  <2>3. CASE DialogSetBegin(r)
    BY <1>0, <2>3 DEF DialogSetBegin, Recorded, TypeOK
  <2>4. CASE DialogSetCommit(r)
    <3>1. /\ Link[r] \in Torrents /\ dlgSeen[r] \in Status
          /\ dlgSnap[r] \in Status \ {"none"}
          /\ SetCommit(Link[r], dlgSeen[r], dlgSnap[r])
      BY <1>0, <2>4 DEF DialogSetCommit, TypeOK, Recorded
    <3>2. dlgSeen[r] # "none" => row[Link[r]] # "none"
      BY DEF Recorded
    <3>3. /\ \A u \in Torrents : row[u] # "none" => row'[u] # "none"
          /\ row'[Link[r]] # "none"
      BY <3>1, <3>2, CommitKeepsRows
    <3>4. QED
      BY <1>0, <2>4, <3>3 DEF DialogSetCommit, ForgetSnapshot, Recorded, TypeOK
  <2>5. CASE DialogSubscribe(r) \/ DialogThank(r)
    BY <2>5 DEF DialogSubscribe, DialogThank, Recorded, TypeOK
  <2>6. CASE DialogConflict(r) \/ DialogFails(r)
    BY <2>6 DEF DialogConflict, DialogFails, DialogGivesUp, ForgetSnapshot, Recorded,
                TypeOK
  <2>7. QED
    BY <1>10, <2>1, <2>2, <2>3, <2>4, <2>5, <2>6 DEF Dialog
<1>11. CASE UNCHANGED vars
  BY <1>11 DEF vars, Recorded
<1>12. QED
  BY <1>1, <1>2, <1>3, <1>4, <1>5, <1>6, <1>7, <1>8, <1>9, <1>10, <1>11
  DEF Next, Remote, Scraper

\* Whoever was thanked keeps a subscription whose torrent has a row, whatever
\* fails or restarts afterwards.
THEOREM ThanksAreKept == Spec => []ThankedIsSubscribed
<1>1. Recorded => ThankedIsSubscribed
  BY DEF Recorded, ThankedIsSubscribed
<1>2. QED
  BY <1>1, RecordedInit, RecordedStep, TypeCorrect, PTL DEF Spec

-----------------------------------------------------------------------------
(* Accounted is preserved.                                                 *)

LEMMA AccountedInit == Init => Accounted
<1> SUFFICES ASSUME Init PROVE Accounted
  OBVIOUS
<1>1. \A r \in Requests : Link[r] \in Torrents
  BY LinkAssumption
<1>2. \A r \in Requests : Waiting(r) = 0 /\ Held(r) = 0
  BY DEF Init, Waiting, Held
<1>3. QED
  BY <1>1, <1>2 DEF Init, Accounted, Fresh

\* A step that reports and delivers nothing, and puts no completion on its
\* way, keeps Accounted.
LEMMA AccountedQuiet ==
  ASSUME TypeOK, Accounted,
         UNCHANGED <<row, fired, undone, told>>,
         scrPc' = "tx" => UNCHANGED <<scrPc, scrT, scrSeen>>,
         \A r \in Requests : Waiting(r)' + Held(r)' <= Waiting(r) + Held(r)
  PROVE  Accounted'
<1>1. \A r \in Requests : /\ Link[r] \in Torrents
                          /\ Waiting(r) \in Nat /\ Held(r) \in Nat
                          /\ Waiting(r)' \in Nat /\ Held(r)' \in Nat
  BY LinkAssumption DEF Waiting, Held
<1>2. \A r \in Requests : told'[r] + Waiting(r)' + Held(r)' <= fired'[Link[r]]
  BY <1>1 DEF Accounted, TypeOK
<1>3. QED
  BY <1>2 DEF Accounted

LEMMA AccountedStep == TypeOK /\ Honest /\ Accounted /\ [Next]_vars => Accounted'
<1> SUFFICES ASSUME TypeOK, Honest, Accounted, [Next]_vars PROVE Accounted'
  OBVIOUS
<1> USE DEF dbVars, procVars, scrVars, ntfVars, dlgVars, histVars
<1>0. \A r \in Requests : /\ Link[r] \in Torrents
                          /\ Waiting(r) \in Nat /\ Held(r) \in Nat
  BY LinkAssumption DEF Waiting, Held
<1>1. ASSUME NEW t \in Torrents, RemoteAdd(t) \/ RemoteFinish(t) PROVE Accounted'
  BY <1>1, AccountedQuiet DEF RemoteAdd, RemoteFinish, Waiting, Held
<1>2. CASE Startup
  <2>1. CASE Boot \/ Subscribe \/ OpenSession
    BY <2>1, AccountedQuiet DEF Boot, Subscribe, OpenSession, Waiting, Held
  <2>2. CASE StartHooks
    BY <2>2, AccountedQuiet DEF StartHooks, Waiting, Held
  <2>3. QED
    BY <1>2, <2>1, <2>2 DEF Startup
<1>3. CASE Shutdown
  <2>1. ASSUME Halt PROVE Accounted'
    BY <2>1, AccountedQuiet DEF Halt, Waiting, Held
  <2>2. CASE Interrupt
    BY <2>2, AccountedQuiet DEF Interrupt, Waiting, Held
  <2>3. QED
    BY <1>3, <2>1, <2>2 DEF Shutdown, BotReturns, ScraperQuits, Crash
<1>4. CASE ScrapeList \/ ScrapeLogs \/ ScrapeDone
  BY <1>4, AccountedQuiet DEF ScrapeList, ScrapeLogs, ScrapeDone, Waiting, Held
<1>5. ASSUME NEW t \in Torrents, ScrapeSetBegin(t) PROVE Accounted'
  <2>1. scrSeen' = "loading" => fired[t] <= undone[t]
    <3>1. /\ fired[t] <= undone[t] + (IF row[t] = "done" THEN 1 ELSE 0)
          /\ undone[t] \in Nat
      BY <1>5 DEF Accounted, TypeOK
    <3>2. QED
      BY <1>5, <3>1 DEF ScrapeSetBegin
  <2>2. \A r \in Requests : Waiting(r)' = 0 /\ Waiting(r) = 0 /\ Held(r)' = Held(r)
    BY <1>5 DEF ScrapeSetBegin, Waiting, Held
  <2>3. QED
    BY <1>5, <2>1, <2>2 DEF ScrapeSetBegin, Accounted
<1>6. CASE ScrapeSetCommit
  <2>1. /\ scrT \in Torrents /\ scrSeen \in Status /\ list[scrT] \in Status
        /\ SetCommit(scrT, scrSeen, list[scrT])
    BY <1>6 DEF ScrapeSetCommit, TypeOK
  <2>2. /\ \A u \in Torrents :
              u # scrT => row'[u] = row[u] /\ undone'[u] = undone[u] /\ fired'[u] = fired[u]
        /\ undone' \in [Torrents -> Nat]
        /\ fired' \in [Torrents -> Nat]
    <3>1. /\ \A u \in Torrents : u # scrT => row'[u] = row[u] /\ undone'[u] = undone[u]
          /\ undone' \in [Torrents -> Nat]
      BY <2>1, CommitEffect
    <3>2. /\ fired' \in [Torrents -> Nat]
          /\ \A u \in Torrents : u # scrT => fired'[u] = fired[u]
      BY <1>6, <2>1 DEF ScrapeSetCommit, TypeOK
    <3>3. QED
      BY <3>1, <3>2
  <2>3. \A r \in Requests : Waiting(r) = 0 /\ Held(r)' = Held(r) /\ told'[r] = told[r]
    BY <1>6 DEF ScrapeSetCommit, Waiting, Held
  <2>4. scrPc' # "tx" /\ scrT' = scrT
    BY <1>6 DEF ScrapeSetCommit
  <2>5. CASE Completed(scrSeen, list[scrT])
    <3>1. row'[scrT] = "done" /\ undone'[scrT] = undone[scrT]
      <4>1. /\ row'[scrT] = "done"
            /\ undone'[scrT] = undone[scrT]
                 + (IF row[scrT] = "done" /\ row'[scrT] # "done" THEN 1 ELSE 0)
        BY <2>1, <2>5, CommitEffect DEF Completed
      <4>2. undone[scrT] \in Nat
        BY <2>1 DEF TypeOK
      <4>3. QED
        BY <4>1, <4>2
    <3>2. fired'[scrT] = fired[scrT] + 1
      BY <1>6, <2>1, <2>5 DEF ScrapeSetCommit, TypeOK
    <3>3. fired[scrT] <= undone[scrT]
      BY <1>6, <2>5 DEF ScrapeSetCommit, Completed, Accounted
    <3>4. \A t \in Torrents :
            fired'[t] <= undone'[t] + (IF row'[t] = "done" THEN 1 ELSE 0)
      BY <2>1, <2>2, <3>1, <3>2, <3>3 DEF Accounted, TypeOK
    <3>5. \A r \in Requests : told'[r] + Waiting(r)' + Held(r)' <= fired'[Link[r]]
      BY <1>0, <2>1, <2>2, <2>3, <2>4, <3>2 DEF Accounted, TypeOK, Waiting
    <3>6. QED
      BY <2>4, <3>4, <3>5 DEF Accounted
  <2>6. CASE ~Completed(scrSeen, list[scrT])
    <3>1. fired' = fired /\ \A r \in Requests : Waiting(r)' = 0
      BY <1>6, <2>6 DEF ScrapeSetCommit, Waiting
    <3>2. undone'[scrT] = undone[scrT]
              + (IF row[scrT] = "done" /\ row'[scrT] # "done" THEN 1 ELSE 0)
      BY <2>1, CommitEffect
    <3>3. \A t \in Torrents :
            fired'[t] <= undone'[t] + (IF row'[t] = "done" THEN 1 ELSE 0)
      BY <2>1, <2>2, <3>1, <3>2 DEF Accounted, TypeOK
    <3>4. QED
      BY <2>3, <2>4, <3>1, <3>3 DEF Accounted
  <2>7. QED
    BY <2>5, <2>6
<1>7. CASE ScrapeConflict \/ ScrapeFails
  <2>1. \A r \in Requests : Waiting(r)' = 0 /\ Held(r)' = Held(r)
    BY <1>7 DEF ScrapeConflict, ScrapeFails, ScrapeAbandon, Waiting, Held
  <2>2. QED
    BY <1>0, <1>7, <2>1, AccountedQuiet DEF ScrapeConflict, ScrapeFails, ScrapeAbandon
<1>7a. CASE ScrapeUnheard
  <2>1. /\ scrT \in Torrents /\ scrSeen \in Status /\ list[scrT] \in Status
        /\ SetCommit(scrT, scrSeen, list[scrT])
    BY <1>7a DEF ScrapeUnheard, TypeOK
  <2>2. \A t \in Torrents :
          fired[t] <= undone'[t] + (IF row'[t] = "done" THEN 1 ELSE 0)
    <3>1. \A t \in Torrents :
            undone'[t] = undone[t] + (IF row[t] = "done" /\ row'[t] # "done" THEN 1 ELSE 0)
      BY <2>1, CommitEffect DEF TypeOK
    <3>2. QED
      BY <3>1 DEF Accounted, TypeOK
  <2>3. \A r \in Requests : Waiting(r)' = Waiting(r) /\ Held(r)' = Held(r)
    BY <1>7a DEF ScrapeUnheard, Waiting, Held
  <2>4. QED
    BY <1>7a, <2>2, <2>3 DEF ScrapeUnheard, Accounted
<1>8. CASE Handover
  <2>1. pending = {}
    BY <1>8 DEF Handover, Honest
  <2>2. \A r \in Requests : Waiting(r)' + Held(r)' = Waiting(r) + Held(r)
    BY <1>8, <2>1 DEF Handover, Waiting, Held
  <2>3. QED
    BY <1>0, <1>8, <2>2, AccountedQuiet DEF Handover
<1>9. CASE Notifier
  <2>1. CASE NotifierRead
    <3>1. \A r \in Requests : Waiting(r)' = Waiting(r) /\ Held(r)' <= Held(r)
      BY <2>1 DEF NotifierRead, Pages, Subscribers, Waiting, Held
    <3>2. QED
      BY <1>0, <2>1, <3>1, AccountedQuiet DEF NotifierRead, Held
  <2>2. ASSUME NEW r \in Requests, NotifyOne(r) PROVE Accounted'
    <3>1. Held(r) = 1 /\ Held(r)' = 0 /\ told'[r] = told[r] + 1
      BY <2>2 DEF NotifyOne, Held, TypeOK
    <3>2. \A q \in Requests : /\ Waiting(q)' = Waiting(q)
                              /\ q # r => Held(q)' = Held(q) /\ told'[q] = told[q]
      BY <2>2 DEF NotifyOne, Waiting, Held, TypeOK
    <3>3. \A q \in Requests : told'[q] + Waiting(q)' + Held(q)' <= fired'[Link[q]]
      BY <1>0, <2>2, <3>1, <3>2 DEF NotifyOne, Accounted, TypeOK
    <3>4. QED
      BY <2>2, <3>3 DEF NotifyOne, Accounted
  <2>3. CASE NotifierNext
    BY <1>0, <2>3, AccountedQuiet DEF NotifierNext, Waiting, Held
  <2>4. QED
    BY <1>9, <2>1, <2>2, <2>3 DEF Notifier
<1>10. CASE NotifierTroubled
  <2>1. \A r \in Requests : Waiting(r)' = Waiting(r) /\ Held(r)' <= Held(r)
    BY <1>10 DEF NotifierTroubled, NotifierReadFails, NotifyFails, NotifierStops,
                 Waiting, Held
  <2>2. \A r \in Requests : Waiting(r)' + Held(r)' <= Waiting(r) + Held(r)
    BY <1>0, <2>1 DEF Held
  <2>3. QED
    BY <1>10, <2>2, AccountedQuiet
    DEF NotifierTroubled, NotifierReadFails, NotifyFails, NotifierStops
<1>11. ASSUME NEW r \in Requests,
              DialogAdd(r) \/ Dialog(r) \/ DialogFails(r)
       PROVE  Accounted'
  <2>1. \A q \in Requests : Waiting(q)' = Waiting(q) /\ Held(q)' = Held(q)
    BY <1>11 DEF DialogAdd, Dialog, DialogFails, DialogFetch, DialogSetBegin,
                 DialogSetCommit, DialogConflict, DialogSubscribe, DialogThank,
                 DialogGivesUp, Waiting, Held
  <2>2. CASE DialogSetCommit(r)
    <3>1. /\ Link[r] \in Torrents /\ dlgSeen[r] \in Status /\ dlgSnap[r] \in Status
          /\ SetCommit(Link[r], dlgSeen[r], dlgSnap[r])
      BY <1>0, <2>2 DEF DialogSetCommit, TypeOK
    <3>2. \A t \in Torrents :
            /\ undone'[t] = undone[t] + (IF row[t] = "done" /\ row'[t] # "done" THEN 1 ELSE 0)
            /\ undone'[t] \in Nat
      BY <3>1, CommitEffect DEF TypeOK
    <3>3. /\ \A t \in Torrents :
                 fired[t] <= undone'[t] + (IF row'[t] = "done" THEN 1 ELSE 0)
          /\ \A t \in Torrents : undone[t] <= undone'[t]
      BY <3>2 DEF Accounted, TypeOK
    <3>4. scrPc = "tx" /\ scrSeen = "loading" => fired[scrT] <= undone'[scrT]
      BY <3>2, <3>3 DEF Accounted, TypeOK
    <3>5. QED
      BY <2>1, <2>2, <3>3, <3>4 DEF DialogSetCommit, Accounted
  <2>3. CASE ~DialogSetCommit(r)
    <3>1. UNCHANGED <<row, fired, undone, told, scrPc, scrT, scrSeen>>
      BY <1>11, <2>3 DEF DialogAdd, Dialog, DialogFails, DialogFetch, DialogSetBegin,
                 DialogConflict, DialogSubscribe, DialogThank, DialogGivesUp
    <3>2. QED
      BY <1>0, <2>1, <3>1, AccountedQuiet
  <2>4. QED
    BY <2>2, <2>3
<1>12. CASE UNCHANGED vars
  BY <1>0, <1>12, AccountedQuiet DEF vars, Waiting, Held
<1>13. QED
  BY <1>1, <1>2, <1>3, <1>4, <1>5, <1>6, <1>7, <1>7a, <1>8, <1>9, <1>10, <1>11, <1>12
  DEF Next, Remote, Scraper

-----------------------------------------------------------------------------
(* The action property.                                                    *)

\* A stored completion of which no older snapshot is left is never undone.
THEOREM SettledStays == Spec => SettledForGood
<1>1. ASSUME TypeOK, Honest, Recorded, [Next]_vars, NEW t \in Torrents, Settled(t)
      PROVE  Settled(t)'
  <2> USE DEF dbVars, procVars, scrVars, ntfVars, dlgVars, histVars
  <2>0. /\ \A r \in Requests : Link[r] \in Torrents
        /\ row[t] = "done" /\ remote[t] = "done"
    BY <1>1, LinkAssumption DEF Settled, Honest, UpTo
  <2>1. ASSUME NEW u \in Torrents, RemoteAdd(u) \/ RemoteFinish(u) PROVE Settled(t)'
    BY <1>1, <2>1 DEF RemoteAdd, RemoteFinish, Settled, NoStaleSnapshot
  <2>2. CASE Startup
    BY <1>1, <2>2 DEF Startup, Boot, Subscribe, OpenSession, StartHooks,
                      Settled, NoStaleSnapshot
  <2>3. CASE Shutdown
    <3>1. ASSUME Halt PROVE Settled(t)'
      BY <1>1, <3>1 DEF Halt, Settled, NoStaleSnapshot, Fresh, InFlight
    <3>2. CASE Interrupt
      BY <1>1, <3>2 DEF Interrupt, Settled, NoStaleSnapshot
    <3>3. QED
      BY <2>3, <3>1, <3>2 DEF Shutdown, BotReturns, ScraperQuits, Crash
  <2>4. CASE ScrapeList
    BY <1>1, <2>0, <2>4 DEF ScrapeList, Settled, NoStaleSnapshot
  <2>5. CASE \/ ScrapeLogs \/ ScrapeDone \/ Handover
             \/ \E u \in Torrents : ScrapeSetBegin(u)
    BY <1>1, <2>5 DEF ScrapeLogs, ScrapeDone, Handover, ScrapeSetBegin, Settled,
                      NoStaleSnapshot
  <2>6. CASE ScrapeSetCommit \/ ScrapeUnheard
    <3>1. /\ scrT \in Torrents /\ scrSeen \in Status
          /\ list[scrT] \in Status \ {"none"}
          /\ SetCommit(scrT, scrSeen, list[scrT])
      BY <1>1, <2>6 DEF ScrapeSetCommit, ScrapeUnheard, TypeOK, Recorded
    <3>2. scrT = t => list[scrT] = "done"
      BY <1>1, <3>1 DEF Settled, NoStaleSnapshot, Status
    <3>3. row'[t] = "done"
      BY <1>1, <2>0, <3>1, <3>2, CommitEffect
    <3>4. NoStaleSnapshot(t)'
      BY <1>1, <2>6 DEF ScrapeSetCommit, ScrapeUnheard, Fresh, Settled,
                        NoStaleSnapshot, TypeOK
    <3>5. QED
      BY <3>3, <3>4 DEF Settled
  <2>7. CASE ScrapeConflict \/ ScrapeFails
    BY <1>1, <2>7 DEF ScrapeConflict, ScrapeFails, ScrapeAbandon, Fresh,
                      Settled, NoStaleSnapshot
  <2>8. CASE Notifier \/ NotifierTroubled
    BY <1>1, <2>8 DEF Notifier, NotifierRead, NotifyOne, NotifierNext,
                      NotifierTroubled, NotifierReadFails, NotifyFails,
                      NotifierStops, Settled, NoStaleSnapshot
  <2>9. ASSUME NEW r \in Requests,
               DialogAdd(r) \/ Dialog(r) \/ DialogFails(r)
        PROVE  Settled(t)'
    <3>1. CASE DialogAdd(r)
      BY <1>1, <3>1 DEF DialogAdd, Settled, NoStaleSnapshot, TypeOK
    <3>2. CASE DialogFetch(r)
      BY <1>1, <2>0, <3>2 DEF DialogFetch, Settled, NoStaleSnapshot, TypeOK
    <3>3. CASE DialogSetBegin(r)
      BY <1>1, <3>3 DEF DialogSetBegin, Settled, NoStaleSnapshot, TypeOK
    <3>4. CASE DialogSetCommit(r)
      <4>1. /\ Link[r] \in Torrents /\ dlgSeen[r] \in Status
            /\ dlgSnap[r] \in Status \ {"none"}
            /\ SetCommit(Link[r], dlgSeen[r], dlgSnap[r])
        BY <1>1, <2>0, <3>4 DEF DialogSetCommit, TypeOK, Recorded
      <4>2. Link[r] = t => dlgSnap[r] = "done"
        BY <1>1, <3>4, <4>1 DEF DialogSetCommit, Settled, NoStaleSnapshot, Status
      <4>3. row'[t] = "done"
        BY <1>1, <2>0, <4>1, <4>2, CommitEffect
      <4>4. NoStaleSnapshot(t)'
        BY <1>1, <3>4 DEF DialogSetCommit, ForgetSnapshot, Settled, NoStaleSnapshot, TypeOK
      <4>5. QED
        BY <4>3, <4>4 DEF Settled
    <3>5. CASE \/ DialogSubscribe(r) \/ DialogThank(r)
               \/ DialogConflict(r) \/ DialogFails(r)
      BY <1>1, <3>5 DEF DialogSubscribe, DialogThank, DialogConflict, DialogFails,
                        DialogGivesUp, ForgetSnapshot, Settled, NoStaleSnapshot, TypeOK
    <3>6. QED
      BY <2>9, <3>1, <3>2, <3>3, <3>4, <3>5 DEF Dialog
  <2>10. CASE UNCHANGED vars
    BY <1>1, <2>10 DEF vars, Settled, NoStaleSnapshot
  <2>11. QED
    BY <1>1, <2>1, <2>2, <2>3, <2>4, <2>5, <2>6, <2>7, <2>8, <2>9, <2>10
    DEF Next, Remote, Scraper
<1>2. TypeOK /\ Honest /\ Recorded /\ [Next]_vars
        => [\A t \in Torrents : Settled(t) => Settled(t)']_vars
  BY <1>1
<1>3. QED
  BY <1>2, HonestInit, HonestStep, RecordedInit, RecordedStep, TypeCorrect, PTL
  DEF Spec, SettledForGood

-----------------------------------------------------------------------------
(* No notice is dropped.                                                   *)

\* There are finitely many subscriptions at any time.
LEMMA SubsFinite == Spec => []IsFiniteSet(subs)
<1>1. Init => IsFiniteSet(subs)
  BY FS_EmptySet DEF Init
<1>2. IsFiniteSet(subs) /\ [Next]_vars => IsFiniteSet(subs)'
  <2> SUFFICES ASSUME IsFiniteSet(subs), [Next]_vars PROVE IsFiniteSet(subs')
    OBVIOUS
  <2>1. subs' = subs \/ \E r \in Requests : subs' = subs \cup {r}
    <3> USE DEF dbVars, procVars, scrVars, ntfVars, dlgVars, histVars
    <3>1. ASSUME NEW r \in Requests, DialogAdd(r) \/ Dialog(r) \/ DialogFails(r)
          PROVE  subs' = subs \/ subs' = subs \cup {r}
      BY <3>1 DEF DialogAdd, Dialog, DialogFails, DialogFetch, DialogSetBegin,
                  DialogSetCommit, DialogConflict, DialogSubscribe, DialogThank,
                  DialogGivesUp
    <3>2. CASE Remote \/ Startup \/ Shutdown
      BY <3>2 DEF Remote, RemoteAdd, RemoteFinish, Startup, Boot, Subscribe,
                  OpenSession, StartHooks, Shutdown, Interrupt, BotReturns,
                  ScraperQuits, Crash, Halt
    <3>3. CASE Scraper \/ ScrapeFails \/ ScrapeUnheard
      BY <3>3 DEF Scraper, ScrapeList, ScrapeSetBegin, ScrapeSetCommit, ScrapeConflict,
                  ScrapeLogs, ScrapeDone, ScrapeFails, ScrapeUnheard, ScrapeAbandon
    <3>4. CASE Handover \/ Notifier \/ NotifierTroubled
      BY <3>4 DEF Handover, Notifier, NotifierRead, NotifyOne, NotifierNext,
                  NotifierTroubled, NotifierReadFails, NotifyFails, NotifierStops
    <3>5. CASE UNCHANGED vars
      BY <3>5 DEF vars
    <3>6. QED
      BY <3>1, <3>2, <3>3, <3>4, <3>5 DEF Next
  <2>2. QED
    BY <2>1, FS_AddElement
<1>3. QED
  BY <1>1, <1>2, PTL DEF Spec

\* When the subscribers fit into the limit, the query returns them all.
LEMMA PageIsAll ==
  ASSUME NEW t \in Torrents, IsFiniteSet(subs),
         Cardinality(Subscribers(t)) <= NotifyLimit, NEW P \in Pages(t)
  PROVE  P = Subscribers(t)
<1>1. IsFiniteSet(Subscribers(t))
  BY FS_Subset DEF Subscribers
<1>2. P \subseteq Subscribers(t)
  BY DEF Pages
<1>3. /\ Cardinality(P) <= Cardinality(Subscribers(t))
      /\ Cardinality(Subscribers(t)) = Cardinality(P) => Subscribers(t) = P
      /\ Cardinality(P) \in Nat /\ Cardinality(Subscribers(t)) \in Nat
  BY <1>1, <1>2, FS_Subset, FS_CardinalityType
<1>4. QED
  BY <1>3, LimitAssumption DEF Pages

\* Where the completion of the torrent of r is, as long as r is due a notice.
Carried(r) ==
  \/ /\ row[Link[r]] = "loading"
     /\ scrPc = "tx" /\ scrT = Link[r] => scrSeen = "loading"
  \/ scrPc = "send" /\ scrT = Link[r]
  \/ ntfPc = "got" /\ ntfT = Link[r]
  \/ r \in pending

\* The step does not touch the row or a transaction of the torrent of r: a
\* completion stays where it is.
LEMMA CarriedQuiet ==
  ASSUME NEW r \in Requests, Carried(r), row'[Link[r]] = row[Link[r]],
         UNCHANGED <<scrPc, scrT, scrSeen, ntfPc, ntfT, pending>>
  PROVE  Carried(r)'
BY DEF Carried

\* No step loses a notice that is due, but for a failure of the notifier's own
\* calls, a commit of the scraper that stores the completion and is answered by an
\* error, and the end of the process.
THEOREM DueIsDelivered == Spec => NeverDropped
<1>1. ASSUME TypeOK, Honest, Recorded, IsFiniteSet(subs), [Next]_vars,
             NEW r \in Requests, Due(r), Running', ~(told'[r] > told[r]),
             ~NotifierReadFails, ~NotifyFails(r),
             ~(ScrapeUnheard /\ Unheard(r)')
      PROVE  Due(r)'
  <2> USE <1>1 DEF dbVars, procVars, scrVars, ntfVars, dlgVars, histVars
  <2> DEFINE t == Link[r]
  <2>0. /\ \A q \in Requests : Link[q] \in Torrents
        /\ r \in subs /\ Subscribed
        /\ Cardinality(Subscribers(t)) <= NotifyLimit
        /\ \A q \in Requests : Link[q] = t => Ended(q)
        /\ Carried(r)
    BY LinkAssumption DEF Due, Carried
  <2>1. SUFFICES /\ subs' \in {subs} \cup {subs \cup {q} : q \in {p \in Requests : Link[p] # t}}
                 /\ Subscribed'
                 /\ \A q \in Requests : Link[q] = t => dlgPc'[q] = dlgPc[q]
                 /\ Carried(r)'
    <3>1. r \in subs' /\ Subscribers(t)' = Subscribers(t)
      BY <2>0, <2>1 DEF Subscribers
    <3>2. \A q \in Requests : Link[q] = t => Ended(q)'
      BY <2>0, <2>1 DEF Ended
    <3>3. QED
      BY <2>0, <2>1, <3>1, <3>2 DEF Due, Carried
  <2>2. CASE Remote
    BY <2>0, <2>2, CarriedQuiet DEF Remote, RemoteAdd, RemoteFinish, Subscribed
  <2>3. CASE Startup
    BY <2>0, <2>3 DEF Startup, Boot, Subscribe, OpenSession, StartHooks,
                      Subscribed, Carried, Honest
  <2>4. CASE Shutdown
    <3>1. ~Halt
      BY DEF Halt, Running
    <3>2. QED
      BY <2>0, <2>4, <3>1, CarriedQuiet
      DEF Shutdown, Interrupt, BotReturns, ScraperQuits, Crash, Subscribed
  <2>5. CASE ScrapeSetCommit
    <3>1. /\ scrT \in Torrents /\ scrSeen \in Status
          /\ list[scrT] \in Status \ {"none"}
          /\ SetCommit(scrT, scrSeen, list[scrT])
      BY <2>5 DEF ScrapeSetCommit, TypeOK, Recorded
    <3>2. /\ row'[scrT] = list[scrT] \/ (scrSeen = list[scrT] /\ row'[scrT] = row[scrT])
          /\ \A u \in Torrents : u # scrT => row'[u] = row[u]
      BY <3>1, CommitEffect
    <3>3. Carried(r)'
      <4>1. CASE scrT = t /\ row[t] = "loading" /\ scrSeen = "loading"
        <5>1. CASE list[t] = "done"
          BY <2>0, <2>5, <4>1, <5>1 DEF ScrapeSetCommit, Completed, Carried
        <5>2. CASE list[t] = "loading"
          BY <2>5, <3>2, <4>1, <5>2 DEF ScrapeSetCommit, Completed, Carried
        <5>3. QED
          BY <3>1, <4>1, <5>1, <5>2 DEF Status
      <4>2. CASE scrT # t /\ row[t] = "loading"
        BY <2>0, <2>5, <3>2, <4>2 DEF ScrapeSetCommit, Carried
      <4>3. CASE (ntfPc = "got" /\ ntfT = t) \/ r \in pending
        BY <2>5, <4>3 DEF ScrapeSetCommit, Carried
      <4>4. QED
        BY <2>0, <2>5, <4>1, <4>2, <4>3 DEF ScrapeSetCommit, Carried
    <3>4. QED
      BY <2>0, <2>5, <3>3 DEF ScrapeSetCommit, Subscribed
  <2>5a. CASE ScrapeUnheard
    <3>1. /\ scrPc = "tx" /\ scrT' = scrT /\ scrPc' # "tx"
          /\ scrT = t => ~Completed(scrSeen, list[t])
          /\ scrT \in Torrents /\ scrSeen \in Status /\ list[scrT] \in Status \ {"none"}
          /\ SetCommit(scrT, scrSeen, list[scrT])
      BY <2>5a DEF ScrapeUnheard, Unheard, TypeOK, Recorded
    <3>2. row[t] = "loading" /\ (scrT = t => scrSeen = "loading") => row'[t] = "loading"
      BY <2>0, <3>1, CommitEffect DEF Completed, Status
    <3>3. Carried(r)'
      BY <2>0, <2>5a, <3>1, <3>2 DEF ScrapeUnheard, Carried
    <3>4. QED
      BY <2>0, <2>5a, <3>3 DEF ScrapeUnheard, Subscribed
  <2>6. CASE \/ ScrapeList \/ ScrapeLogs \/ ScrapeDone \/ Handover
             \/ \E u \in Torrents : ScrapeSetBegin(u)
    BY <2>0, <2>6 DEF ScrapeList, ScrapeLogs, ScrapeDone, Handover, ScrapeSetBegin,
                      Subscribed, Carried
  <2>7. CASE ScrapeConflict \/ ScrapeFails
    BY <2>0, <2>7 DEF ScrapeConflict, ScrapeFails, ScrapeAbandon, Subscribed, Carried
  <2>8. CASE Notifier
    <3>1. CASE NotifierRead
      <4>1. pending' \in Pages(ntfT)
        BY <3>1 DEF NotifierRead
      <4>2. ntfT = t => r \in pending'
        BY <2>0, <4>1, PageIsAll DEF Subscribers
      <4>3. pending = {}
        BY <3>1 DEF NotifierRead, Honest
      <4>4. QED
        BY <2>0, <3>1, <4>2, <4>3 DEF NotifierRead, Subscribed, Carried
    <3>2. ASSUME NEW q \in Requests, NotifyOne(q)
          PROVE  Carried(r)' /\ UNCHANGED <<subs, life, dlgPc>>
      <4>1. q # r
        BY <3>2 DEF NotifyOne, TypeOK
      <4>2. QED
        BY <2>0, <3>2, <4>1 DEF NotifyOne, Carried
    <3>3. CASE NotifierNext
      BY <2>0, <3>3 DEF NotifierNext, Subscribed, Carried
    <3>4. QED
      BY <2>0, <2>8, <3>1, <3>2, <3>3 DEF Notifier, Subscribed
  <2>9. CASE NotifierTroubled
    BY <2>0, <2>9 DEF NotifierTroubled, NotifyFails, NotifierStops, Subscribed, Carried
  <2>10. ASSUME NEW q \in Requests, DialogAdd(q) \/ Dialog(q) \/ DialogFails(q)
         PROVE  /\ subs' \in {subs, subs \cup {q}} /\ Link[q] # t /\ UNCHANGED life
                /\ \A p \in Requests \ {q} : dlgPc'[p] = dlgPc[p]
                /\ Carried(r)'
    <3>1. ~Ended(q)
      BY <2>10 DEF Ended, DialogAdd, Dialog, DialogFails, DialogFetch, DialogSetBegin,
                   DialogSetCommit, DialogConflict, DialogSubscribe, DialogThank, InFlight
    <3>2. Link[q] # t
      BY <2>0, <3>1
    <3>3. row'[t] = row[t]
      <4>1. CASE DialogSetCommit(q)
        <5>1. /\ dlgSeen[q] \in Status /\ dlgSnap[q] \in Status
              /\ SetCommit(Link[q], dlgSeen[q], dlgSnap[q])
          BY <4>1 DEF DialogSetCommit, TypeOK
        <5>2. QED
          BY <2>0, <3>2, <5>1, CommitEffect
      <4>2. CASE ~DialogSetCommit(q)
        BY <2>10, <4>2 DEF DialogAdd, Dialog, DialogFails, DialogFetch, DialogSetBegin,
                   DialogConflict, DialogSubscribe, DialogThank, DialogGivesUp
      <4>3. QED
        BY <4>1, <4>2
    <3>4. /\ subs' \in {subs, subs \cup {q}}
          /\ UNCHANGED <<life, scrPc, scrT, scrSeen, ntfPc, ntfT, pending>>
          /\ \A p \in Requests \ {q} : dlgPc'[p] = dlgPc[p]
      BY <2>10 DEF DialogAdd, Dialog, DialogFails, DialogFetch, DialogSetBegin,
                   DialogSetCommit, DialogConflict, DialogSubscribe, DialogThank,
                   DialogGivesUp, TypeOK
    <3>5. QED
      BY <2>0, <3>2, <3>3, <3>4, CarriedQuiet
  <2>11. CASE UNCHANGED vars
    BY <2>0, <2>11, CarriedQuiet DEF vars, Subscribed
  <2>12. CASE \E q \in Requests : DialogAdd(q) \/ Dialog(q) \/ DialogFails(q)
    BY <2>0, <2>10, <2>12 DEF Subscribed
  <2>13. QED
    BY <2>2, <2>3, <2>4, <2>5, <2>5a, <2>6, <2>7, <2>8, <2>9, <2>11, <2>12
    DEF Next, Scraper
<1>2. TypeOK /\ Honest /\ Recorded /\ IsFiniteSet(subs) /\ [Next]_vars
        => [\A r \in Requests :
              Due(r) => \/ Due(r)'
                        \/ told'[r] > told[r]
                        \/ ~Running'
                        \/ NotifierReadFails
                        \/ NotifyFails(r)
                        \/ ScrapeUnheard /\ Unheard(r)']_vars
  BY <1>1
<1>3. QED
  BY <1>2, HonestInit, HonestStep, RecordedInit, RecordedStep, TypeCorrect, SubsFinite,
     PTL DEF Spec, NeverDropped

-----------------------------------------------------------------------------
(* The books of every subscriber are kept.                                 *)

LEMMA BalancedStep ==
  ASSUME NEW r \in Requests, Books(r)!Balanced, [Books(r)!Next]_(Books(r)!vars)
  PROVE  Books(r)!Balanced'
BY DEF Books!Balanced, Books!Next, Books!vars, Books!Finish, Books!Enter,
       Books!Report, Books!Erase, Books!Tell

\* Who keeps the books has them balanced: what the ledger allows is never a notice too
\* many, nor a report of a completion that did not happen.
THEOREM BooksBalance ==
  ASSUME NEW r \in Requests
  PROVE  Books(r)!Spec => []Books(r)!Balanced
<1>1. Books(r)!Init => Books(r)!Balanced
  BY DEF Books!Init, Books!Balanced
<1>2. QED
  BY <1>1, BalancedStep, PTL DEF Books!Spec

\* A commit that reports nothing enters a date, erases one or leaves them alone.
LEMMA CommitBooks ==
  ASSUME TypeOK, NEW t \in Torrents, NEW seen \in Status, NEW new \in Status,
         UpTo(new, remote[t]), SetCommit(t, seen, new), UNCHANGED <<remote, told>>,
         NEW r \in Requests, fired'[Link[r]] = fired[Link[r]]
  PROVE  [Books(r)!Next]_(Books(r)!vars)
<1>1. Link[r] \in Torrents
  BY LinkAssumption
<1>2. /\ \A u \in Torrents : u # t => row'[u] = row[u] /\ undone'[u] = undone[u]
      /\ row'[t] = new \/ row'[t] = row[t]
      /\ undone'[t] = undone[t] + (IF row[t] = "done" /\ row'[t] # "done" THEN 1 ELSE 0)
      /\ undone[t] \in Nat
  BY CommitEffect DEF TypeOK
<1>3. CASE Link[r] # t \/ (row'[t] = "done" <=> row[t] = "done")
  BY <1>1, <1>2, <1>3 DEF Books!vars
<1>4. CASE Link[r] = t /\ row[t] # "done" /\ row'[t] = "done"
  <2>1. remote[t] = "done" /\ undone'[t] = undone[t]
    BY <1>2, <1>4 DEF UpTo
  <2>2. QED
    BY <1>4, <2>1 DEF Books!Next, Books!Enter
<1>5. CASE Link[r] = t /\ row[t] = "done" /\ row'[t] # "done"
  BY <1>2, <1>5 DEF Books!Next, Books!Erase
<1>6. QED
  BY <1>3, <1>4, <1>5

LEMMA BooksStep ==
  ASSUME TypeOK, Honest, Accounted, [Next]_vars, NEW r \in Requests
  PROVE  [Books(r)!Next]_(Books(r)!vars)
<1> USE DEF dbVars, procVars, scrVars, ntfVars, dlgVars, histVars
<1> DEFINE t == Link[r]
<1>0. \A q \in Requests : Link[q] \in Torrents
  BY LinkAssumption
<1>1. ASSUME UNCHANGED <<remote, row, fired, undone, told>>
      PROVE  [Books(r)!Next]_(Books(r)!vars)
  BY <1>1 DEF Books!vars
<1>2. ASSUME NEW u \in Torrents, RemoteAdd(u) \/ RemoteFinish(u)
      PROVE  [Books(r)!Next]_(Books(r)!vars)
  <2>1. CASE remote[t] # "done" /\ remote'[t] = "done"
    BY <1>2, <2>1 DEF RemoteAdd, RemoteFinish, Books!Next, Books!Finish
  <2>2. CASE remote[t] = "done" <=> remote'[t] = "done"
    BY <1>2, <2>2 DEF RemoteAdd, RemoteFinish, Books!vars
  <2>3. remote[t] = "done" => remote'[t] = "done"
    BY <1>0, <1>2 DEF RemoteAdd, RemoteFinish, TypeOK
  <2>4. QED
    BY <2>1, <2>2, <2>3
<1>3. CASE ScrapeSetCommit
  <2>1. /\ scrT \in Torrents /\ scrSeen \in Status /\ list[scrT] \in Status
        /\ SetCommit(scrT, scrSeen, list[scrT])
        /\ UpTo(list[scrT], remote[scrT])
        /\ UNCHANGED <<remote, told>>
    BY <1>3 DEF ScrapeSetCommit, TypeOK, Honest
  <2>2. CASE t = scrT /\ Completed(scrSeen, list[scrT])
    <3>1. remote[t] = "done" /\ fired[t] <= undone[t] /\ fired'[t] = fired[t] + 1
      BY <1>3, <2>1, <2>2 DEF ScrapeSetCommit, Completed, Accounted, UpTo, TypeOK
    <3>2. row'[t] = "done" /\ undone'[t] = undone[t]
      <4>1. row'[t] = "done"
        BY <2>1, <2>2, CommitEffect DEF Completed
      <4>2. undone[t] \in Nat
        BY <1>0 DEF TypeOK
      <4>3. QED
        BY <2>1, <2>2, <4>1, <4>2, CommitEffect
    <3>3. QED
      BY <2>1, <3>1, <3>2 DEF Books!Next, Books!Report
  <2>3. CASE ~(t = scrT /\ Completed(scrSeen, list[scrT]))
    <3>1. fired'[t] = fired[t]
      BY <1>0, <1>3, <2>1, <2>3 DEF ScrapeSetCommit, TypeOK
    <3>2. QED
      BY <2>1, <3>1, CommitBooks
  <2>4. QED
    BY <2>2, <2>3
<1>3a. CASE ScrapeUnheard
  <2>1. /\ scrT \in Torrents /\ scrSeen \in Status /\ list[scrT] \in Status
        /\ SetCommit(scrT, scrSeen, list[scrT])
        /\ UpTo(list[scrT], remote[scrT])
        /\ UNCHANGED <<remote, fired, told>>
    BY <1>3a DEF ScrapeUnheard, TypeOK, Honest
  <2>2. QED
    BY <2>1, CommitBooks
<1>4. ASSUME NEW q \in Requests, NotifyOne(q)
      PROVE  [Books(r)!Next]_(Books(r)!vars)
  <2>1. CASE q = r
    <3>1. told[r] + 1 <= fired[t] /\ told'[r] = told[r] + 1
      <4>1. Waiting(r) \in {0, 1} /\ Held(r) = 1 /\ told[r] \in Nat /\ fired[t] \in Nat
        BY <1>0, <1>4, <2>1 DEF NotifyOne, Waiting, Held, TypeOK
      <4>2. told[r] + Waiting(r) + Held(r) <= fired[t]
        BY DEF Accounted
      <4>3. told'[r] = told[r] + 1
        BY <1>4, <2>1 DEF NotifyOne, TypeOK
      <4>4. QED
        BY <4>1, <4>2, <4>3
    <3>2. told[r] \in Nat /\ fired[t] \in Nat
      BY <1>0 DEF TypeOK
    <3>3. QED
      BY <1>4, <3>1, <3>2 DEF NotifyOne, Books!Next, Books!Tell
  <2>2. CASE q # r
    BY <1>4, <2>2 DEF NotifyOne, TypeOK, Books!vars
  <2>3. QED
    BY <2>1, <2>2
<1>5. ASSUME NEW q \in Requests, DialogAdd(q) \/ Dialog(q) \/ DialogFails(q)
      PROVE  [Books(r)!Next]_(Books(r)!vars)
  <2>1. CASE DialogAdd(q)
    <3>1. remote'[t] = "done" <=> remote[t] = "done"
      BY <1>0, <2>1 DEF DialogAdd, TypeOK
    <3>2. QED
      BY <2>1, <3>1 DEF DialogAdd, Books!vars
  <2>2. CASE DialogSetCommit(q)
    <3>1. /\ Link[q] \in Torrents /\ dlgSeen[q] \in Status /\ dlgSnap[q] \in Status
          /\ SetCommit(Link[q], dlgSeen[q], dlgSnap[q])
          /\ UpTo(dlgSnap[q], remote[Link[q]])
          /\ UNCHANGED <<remote, fired, told>>
      BY <1>0, <2>2 DEF DialogSetCommit, TypeOK, Honest
    <3>2. QED
      BY <3>1, CommitBooks
  <2>3. CASE ~DialogAdd(q) /\ ~DialogSetCommit(q)
    BY <1>1, <1>5, <2>3 DEF Dialog, DialogFails, DialogFetch, DialogSetBegin,
                 DialogConflict, DialogSubscribe, DialogThank, DialogGivesUp
  <2>4. QED
    BY <2>1, <2>2, <2>3
<1>6. CASE Startup \/ Shutdown
  BY <1>1, <1>6 DEF Startup, Boot, Subscribe, OpenSession, StartHooks, Shutdown,
                    Interrupt, BotReturns, ScraperQuits, Crash, Halt
<1>7. CASE \/ ScrapeList \/ ScrapeLogs \/ ScrapeDone \/ Handover \/ ScrapeConflict
           \/ ScrapeFails \/ \E u \in Torrents : ScrapeSetBegin(u)
  BY <1>1, <1>7 DEF ScrapeList, ScrapeLogs, ScrapeDone, Handover, ScrapeConflict,
                    ScrapeFails, ScrapeAbandon, ScrapeSetBegin
<1>8. CASE NotifierRead \/ NotifierNext \/ NotifierTroubled
  BY <1>1, <1>8 DEF NotifierRead, NotifierNext, NotifierTroubled, NotifierReadFails,
                    NotifyFails, NotifierStops
<1>9. CASE UNCHANGED vars
  BY <1>1, <1>9 DEF vars
<1>10. QED
  BY <1>2, <1>3, <1>3a, <1>4, <1>5, <1>6, <1>7, <1>8, <1>9
  DEF Next, Remote, Scraper, Notifier

\* The program keeps the books of every subscriber, whoever stores, crashes or is
\* overtaken.
THEOREM TrackerKeepsLedger == Spec => KeepsLedger
<1>1. Init => \A r \in Requests : Books(r)!Init
  BY LinkAssumption DEF Init, Fresh, Books!Init
<1>2. TypeOK /\ Honest /\ Accounted /\ [Next]_vars
        => [\A r \in Requests : [Books(r)!Next]_(Books(r)!vars)]_vars
  BY BooksStep
<1>3. QED
  BY <1>1, <1>2, HonestInit, HonestStep, AccountedInit, AccountedStep, TypeCorrect, PTL
  DEF Spec, KeepsLedger

\* What the ledger promises a subscriber holds of the program: no notice without a report
\* of its own, no report of a completion that did not happen, and one more report
\* than lost dates only while the date stands in the table.
THEOREM BooksStayBalanced == Spec => [](\A r \in Requests : Books(r)!Balanced)
<1> DEFINE AllBalanced == \A r \in Requests : Books(r)!Balanced
           BooksNext == \A r \in Requests : [Books(r)!Next]_(Books(r)!vars)
<1>1. (\A r \in Requests : Books(r)!Init) => AllBalanced
  BY DEF Books!Init, Books!Balanced
<1>2. AllBalanced /\ [BooksNext]_vars => AllBalanced'
  <2>1. AllBalanced /\ BooksNext => AllBalanced'
    BY BalancedStep
  <2>2. AllBalanced /\ UNCHANGED vars => AllBalanced'
    BY DEF vars, Books!Balanced
  <2>3. QED
    BY <2>1, <2>2
<1>3. QED
  BY <1>1, <1>2, TrackerKeepsLedger, PTL DEF KeepsLedger

\* A subscription is served at most once per completion that Set reports, and
\* Set reports one completion plus at most one for every commit that erased
\* the completion date: repeated notices come from stale writers, never from
\* a crash, a retry or a second poll.
NoticesAccounted ==
  \A r \in Requests :
    /\ told[r] <= fired[Link[r]]
    /\ fired[Link[r]] <= undone[Link[r]] + 1

\* A subscription is served at most once per reported completion, and a
\* completion is reported at most once more than its date was erased: the balance
\* of the books, read off for the tracker.
THEOREM NoticesAreAccountedFor == Spec => []NoticesAccounted
<1>1. (\A r \in Requests : Books(r)!Balanced) => NoticesAccounted
  BY DEF Books!Balanced, NoticesAccounted
<1>2. QED
  BY <1>1, BooksStayBalanced, PTL

-----------------------------------------------------------------------------
(* The scraper in its send.                                                *)

\* The notifier is on its way to the next torrent, or still to be started.
Receiving == ntfPc \in {"ready", "got", "deliver"} \/ life \in {"wired", "open"}

\* Whoever is in the unbuffered send has a receiver, or the process is about to end:
\* the notifier leaves only on a cancelled context, and is there once hooks have run.
SendHasReceiver == scrPc = "send" => Receiving \/ (cancelled /\ life = "hooked")

\* A channel is sent to only once it is set, and the notifier starts with the hooks.
Connected ==
  /\ scrPc = "send" => Subscribed
  /\ life = "hooked" => ntfPc # "off"
  /\ ntfPc = "gone" => cancelled
  /\ ~Running => ntfPc = "off" /\ ~cancelled

LEMMA ConnectedStep == TypeOK /\ Connected /\ [Next]_vars => Connected'
<1> SUFFICES ASSUME TypeOK, Connected, [Next]_vars PROVE Connected'
  OBVIOUS
<1> USE DEF Connected, Subscribed, Running,
            dbVars, procVars, scrVars, ntfVars, dlgVars, histVars
<1>1. CASE Remote
  BY <1>1 DEF Remote, RemoteAdd, RemoteFinish
<1>2. CASE Startup
  BY <1>2 DEF Startup, Boot, Subscribe, OpenSession, StartHooks
<1>3. CASE Shutdown
  BY <1>3 DEF Shutdown, Interrupt, BotReturns, ScraperQuits, Crash, Halt
<1>4. CASE Scraper \/ ScrapeFails \/ ScrapeUnheard
  BY <1>4 DEF Scraper, ScrapeList, ScrapeSetBegin, ScrapeSetCommit, ScrapeConflict,
              ScrapeLogs, ScrapeDone, ScrapeFails, ScrapeUnheard, ScrapeAbandon
<1>5. CASE Handover \/ Notifier \/ NotifierTroubled
  BY <1>5 DEF Handover, Notifier, NotifierRead, NotifyOne, NotifierNext,
              NotifierTroubled, NotifierReadFails, NotifyFails, NotifierStops
<1>6. ASSUME NEW r \in Requests, DialogAdd(r) \/ Dialog(r) \/ DialogFails(r)
      PROVE  Connected'
  BY <1>6 DEF DialogAdd, Dialog, DialogFails, DialogFetch, DialogSetBegin,
              DialogSetCommit, DialogConflict, DialogSubscribe, DialogThank,
              DialogGivesUp
<1>7. CASE UNCHANGED vars
  BY <1>7 DEF vars
<1>8. QED
  BY <1>1, <1>2, <1>3, <1>4, <1>5, <1>6, <1>7 DEF Next

\* The send never waits for a notifier that is not there and will not come.
THEOREM SendsAreReceived == Spec => []SendHasReceiver
<1>1. Init => Connected
  BY DEF Init, Connected, Running
<1>2. TypeOK /\ Connected => SendHasReceiver
  BY DEF TypeOK, Connected, SendHasReceiver, Receiving, Subscribed
<1>3. QED
  BY <1>1, <1>2, ConnectedStep, TypeCorrect, PTL DEF Spec

-----------------------------------------------------------------------------
(* The rows change as SetTransaction says.                                 *)

\* Who is storing t.
LEMMA StoringIs ==
  ASSUME NEW t \in Torrents
  PROVE  /\ "scraper" \in Storing(t) <=> scrPc = "tx" /\ scrT = t
         /\ \A r \in Requests : r \in Storing(t) <=> dlgPc[r] = "tx" /\ Link[r] = t
         /\ Storing(t) \subseteq SetWriters
BY ScraperAssumption DEF Storing, SetWriters

\* Nothing happens to t when nobody begins or ends to store it.
LEMMA SetQuiet ==
  ASSUME NEW t \in Torrents, row'[t] = row[t], Storing(t)' = Storing(t),
         "scraper" \in Storing(t) => scrSeen' = scrSeen,
         \A r \in Requests : r \in Storing(t) => dlgSeen'[r] = dlgSeen[r]
  PROVE  UNCHANGED Set(t)!vars
<1>1. HasRead(t)' = HasRead(t)
  BY DEF HasRead, SetWriters
<1>2. QED
  BY <1>1 DEF Set!vars

\* Transactions of t that end without a commit.
LEMMA SetAborts ==
  ASSUME NEW t \in Torrents, NEW W \in SUBSET SetWriters, row'[t] = row[t],
         Storing(t)' = Storing(t) \ W,
         "scraper" \in Storing(t) \ W => scrSeen' = scrSeen,
         \A q \in Requests : q \in Storing(t) \ W => dlgSeen'[q] = dlgSeen[q]
  PROVE  Set(t)!Next
<1>1. HasRead(t)' = [w \in SetWriters |-> IF w \in W THEN "none" ELSE HasRead(t)[w]]
  BY DEF HasRead, SetWriters
<1>2. Set(t)!Abort(W)
  BY <1>1 DEF Set!Abort
<1>3. QED
  BY <1>2 DEF Set!Next

\* A commit of Set is a commit of SetTransaction.
LEMMA SetCommits ==
  ASSUME TypeOK, NEW t \in Torrents, NEW w \in Storing(t), NEW new \in Status \ {"none"},
         HasRead(t)[w] \in Status, SetCommit(t, HasRead(t)[w], new),
         Storing(t)' = Storing(t) \ {w},
         "scraper" \in Storing(t) \ {w} => scrSeen' = scrSeen,
         \A q \in Requests : q \in Storing(t) \ {w} => dlgSeen'[q] = dlgSeen[q]
  PROVE  Set(t)!Next
<1>1. w \in SetWriters
  BY DEF Storing
<1>2. HasRead(t)' = [HasRead(t) EXCEPT ![w] = "none"]
  BY DEF HasRead, SetWriters
<1>3. /\ HasRead(t)[w] = "none" => row[t] = "none"
      /\ row'[t] = new \/ (row'[t] = row[t] /\ HasRead(t)[w] = new)
  BY CommitEffect DEF Conflict
<1>4. Set(t)!Commit(w)
  BY <1>2, <1>3 DEF Set!Commit, Set!Status, Status
<1>5. QED
  BY <1>1, <1>4 DEF Set!Next

\* A read of Set is a read of SetTransaction.
LEMMA SetBegins ==
  ASSUME NEW t \in Torrents, NEW w \in SetWriters \ Storing(t), row'[t] = row[t],
         Storing(t)' = Storing(t) \cup {w},
         HasRead(t)' = [HasRead(t) EXCEPT ![w] = row[t]]
  PROVE  Set(t)!Next
<1>1. Set(t)!Begin(w)
  BY DEF Set!Begin
<1>2. QED
  BY <1>1 DEF Set!Next

\* What the scraper does with t.
LEMMA ScraperSets ==
  ASSUME TypeOK, Recorded, NEW t \in Torrents,
         Scraper \/ ScrapeFails \/ ScrapeUnheard \/ Handover
  PROVE  [Set(t)!Next]_(Set(t)!vars)
<1> USE DEF dbVars, dlgVars
<1>1. ASSUME NEW u \in Torrents, ScrapeSetBegin(u) PROVE [Set(t)!Next]_(Set(t)!vars)
  <2>1. scrPc = "loop" /\ scrPc' = "tx" /\ scrT' = u /\ scrSeen' = row[u]
        /\ UNCHANGED <<row, dlgPc, dlgSnap, dlgSeen>>
    BY <1>1 DEF ScrapeSetBegin
  <2>2. "scraper" \notin Storing(t)
    BY <2>1, StoringIs
  <2>3. CASE u = t
    <3>1. Storing(t)' = Storing(t) \cup {"scraper"}
      BY <2>1, <2>3, ScraperAssumption DEF Storing, SetWriters
    <3>2. HasRead(t)' = [HasRead(t) EXCEPT !["scraper"] = row[t]]
      BY <2>1, <2>2, <2>3, <3>1 DEF HasRead, SetWriters
    <3>3. "scraper" \in SetWriters
      BY DEF SetWriters
    <3>4. QED
      BY <2>1, <2>2, <3>1, <3>2, <3>3, SetBegins
  <2>4. CASE u # t
    <3>1. Storing(t)' = Storing(t)
      BY <2>1, <2>4, ScraperAssumption DEF Storing, SetWriters
    <3>2. QED
      BY <2>1, <2>2, <3>1, SetQuiet
  <2>5. QED
    BY <2>3, <2>4
<1>2. ASSUME scrPc' # "tx", UNCHANGED <<row, dlgVars>>
      PROVE  [Set(t)!Next]_(Set(t)!vars)
  <2>1. Storing(t)' = Storing(t) \ {"scraper"}
    BY <1>2, ScraperAssumption DEF Storing, SetWriters
  <2>2. {"scraper"} \in SUBSET SetWriters
    BY DEF SetWriters
  <2>3. QED
    BY <1>2, <2>1, <2>2, SetAborts
<1>3. CASE ScrapeSetCommit \/ ScrapeUnheard
  <2>1. /\ scrPc = "tx" /\ scrPc' # "tx" /\ UNCHANGED <<scrT, dlgVars>>
        /\ SetCommit(scrT, scrSeen, list[scrT])
        /\ scrT \in Torrents /\ scrSeen \in Status /\ list[scrT] \in Status \ {"none"}
    BY <1>3 DEF ScrapeSetCommit, ScrapeUnheard, TypeOK, Recorded, scrVars
  <2>2. CASE scrT = t
    <3>1. "scraper" \in Storing(t)
      BY <2>1, <2>2, StoringIs
    <3>2. Storing(t)' = Storing(t) \ {"scraper"}
      BY <2>1, ScraperAssumption DEF Storing, SetWriters
    <3>3. HasRead(t)["scraper"] = scrSeen
      BY <3>1 DEF HasRead, SetWriters
    <3>4. QED
      BY <2>1, <2>2, <3>1, <3>2, <3>3, SetCommits
  <2>3. CASE scrT # t
    <3>1. row'[t] = row[t]
      BY <2>1, <2>3, CommitEffect
    <3>2. Storing(t)' = Storing(t)
      BY <2>1, <2>3, ScraperAssumption DEF Storing, SetWriters
    <3>3. "scraper" \notin Storing(t)
      BY <2>1, <2>3, StoringIs
    <3>4. QED
      BY <2>1, <3>1, <3>2, <3>3, SetQuiet
  <2>4. QED
    BY <2>2, <2>3
<1>4. CASE \/ ScrapeList \/ ScrapeConflict \/ ScrapeLogs \/ ScrapeDone
           \/ ScrapeFails \/ Handover
  BY <1>2, <1>4 DEF ScrapeList, ScrapeConflict, ScrapeLogs, ScrapeDone, ScrapeFails,
                    ScrapeAbandon, Handover
<1>5. QED
  BY <1>1, <1>3, <1>4 DEF Scraper

\* What a dialog does with t.
LEMMA DialogSets ==
  ASSUME TypeOK, Recorded, NEW t \in Torrents, NEW r \in Requests,
         DialogAdd(r) \/ Dialog(r) \/ DialogFails(r)
  PROVE  [Set(t)!Next]_(Set(t)!vars)
<1> USE DEF dbVars, scrVars
<1>0. r \in SetWriters /\ r # "scraper" /\ Link[r] \in Torrents
  BY ScraperAssumption, LinkAssumption DEF SetWriters
<1>1. CASE DialogSetBegin(r)
  <2>1. /\ dlgPc[r] = "fetched" /\ dlgPc' = [dlgPc EXCEPT ![r] = "tx"]
        /\ dlgSeen' = [dlgSeen EXCEPT ![r] = row[Link[r]]]
        /\ UNCHANGED <<row, scrVars>>
    BY <1>1 DEF DialogSetBegin
  <2>2. r \notin Storing(t)
    BY <2>1, StoringIs
  <2>3. CASE Link[r] = t
    <3>1. Storing(t)' = Storing(t) \cup {r}
      BY <1>0, <2>1, <2>3 DEF Storing, TypeOK
    <3>2. HasRead(t)' = [HasRead(t) EXCEPT ![r] = row[t]]
      BY <1>0, <2>1, <2>2, <2>3, <3>1, StoringIs DEF HasRead, SetWriters, TypeOK
    <3>3. QED
      BY <1>0, <2>1, <2>2, <3>1, <3>2, SetBegins
  <2>4. CASE Link[r] # t
    <3>1. Storing(t)' = Storing(t)
      BY <1>0, <2>1, <2>4 DEF Storing, TypeOK
    <3>2. \A q \in Requests : q \in Storing(t) => dlgSeen'[q] = dlgSeen[q]
      BY <2>1, <2>2 DEF TypeOK
    <3>3. QED
      BY <2>1, <3>1, <3>2, SetQuiet
  <2>5. QED
    BY <2>3, <2>4
<1>2. ASSUME dlgPc' = [dlgPc EXCEPT ![r] = dlgPc'[r]], dlgPc'[r] # "tx",
             \A q \in Requests \ {r} : dlgSeen'[q] = dlgSeen[q],
             UNCHANGED <<row, scrVars>>
      PROVE  [Set(t)!Next]_(Set(t)!vars)
  <2>1. Storing(t)' = Storing(t) \ {r}
    BY <1>0, <1>2 DEF Storing, TypeOK
  <2>2. {r} \in SUBSET SetWriters
    BY <1>0
  <2>3. QED
    BY <1>2, <2>1, <2>2, SetAborts
<1>3. CASE DialogSetCommit(r)
  <2>1. /\ dlgPc[r] = "tx" /\ dlgPc' = [dlgPc EXCEPT ![r] = "stored"]
        /\ UNCHANGED scrVars
        /\ \A q \in Requests \ {r} : dlgSeen'[q] = dlgSeen[q]
        /\ SetCommit(Link[r], dlgSeen[r], dlgSnap[r])
        /\ dlgSeen[r] \in Status /\ dlgSnap[r] \in Status \ {"none"}
    BY <1>3 DEF DialogSetCommit, ForgetSnapshot, TypeOK, Recorded
  <2>2. CASE Link[r] = t
    <3>1. r \in Storing(t)
      BY <2>1, <2>2, StoringIs
    <3>2. Storing(t)' = Storing(t) \ {r}
      BY <1>0, <2>1 DEF Storing, TypeOK
    <3>3. HasRead(t)[r] = dlgSeen[r]
      BY <1>0, <3>1 DEF HasRead
    <3>4. QED
      BY <2>1, <2>2, <3>1, <3>2, <3>3, SetCommits
  <2>3. CASE Link[r] # t
    <3>1. row'[t] = row[t]
      BY <1>0, <2>1, <2>3, CommitEffect
    <3>2. Storing(t)' = Storing(t)
      BY <1>0, <2>1, <2>3 DEF Storing, TypeOK
    <3>3. r \notin Storing(t)
      BY <1>0, <2>1, <2>3, StoringIs
    <3>4. QED
      BY <2>1, <3>1, <3>2, <3>3, SetQuiet
  <2>4. QED
    BY <2>2, <2>3
<1>4. CASE \/ DialogAdd(r) \/ DialogFetch(r) \/ DialogConflict(r)
           \/ DialogSubscribe(r) \/ DialogThank(r) \/ DialogFails(r)
  <2>1. /\ dlgPc' = [dlgPc EXCEPT ![r] = dlgPc'[r]] /\ dlgPc'[r] # "tx"
        /\ \A q \in Requests \ {r} : dlgSeen'[q] = dlgSeen[q]
        /\ UNCHANGED <<row, scrVars>>
    BY <1>4 DEF ForgetSnapshot, DialogAdd, DialogFetch, DialogConflict, DialogSubscribe, DialogThank,
                DialogFails, DialogGivesUp, TypeOK
  <2>2. QED
    BY <1>2, <2>1
<1>5. QED
  BY <1>1, <1>3, <1>4 DEF Dialog

\* All that the actors do with the row of a torrent are the reads, commits and
\* aborts of SetTransaction.
THEOREM TrackerUsesSet == Spec => UsesSet
<1>1. Init => \A t \in Torrents : Set(t)!Init
  <2> SUFFICES ASSUME Init, NEW t \in Torrents PROVE Set(t)!Init
    OBVIOUS
  <2>1. Storing(t) = {}
    BY DEF Init, Storing
  <2>2. HasRead(t) = [w \in SetWriters |-> "none"]
    BY <2>1 DEF HasRead
  <2>3. QED
    BY <2>1, <2>2 DEF Init, Fresh, Set!Init
<1>2. ASSUME TypeOK, Recorded, [Next]_vars, NEW t \in Torrents
      PROVE  [Set(t)!Next]_(Set(t)!vars)
  <2>1. CASE Scraper \/ ScrapeFails \/ ScrapeUnheard \/ Handover
    BY <1>2, <2>1, ScraperSets
  <2>2. ASSUME NEW r \in Requests, DialogAdd(r) \/ Dialog(r) \/ DialogFails(r)
        PROVE  [Set(t)!Next]_(Set(t)!vars)
    BY <1>2, <2>2, DialogSets
  <2>3. CASE Halt
    <3>1. Storing(t)' = Storing(t) \ SetWriters
      BY <1>2, <2>3 DEF Halt, Storing, InFlight, SetWriters, TypeOK
    <3>2. Storing(t) \ SetWriters = {}
      BY DEF Storing
    <3>3. QED
      BY <2>3, <3>1, <3>2, SetAborts DEF Halt, dbVars
  <2>4. ASSUME UNCHANGED <<row, scrPc, scrT, scrSeen, dlgPc, dlgSeen>>
        PROVE  [Set(t)!Next]_(Set(t)!vars)
    <3>1. Storing(t)' = Storing(t)
      BY <2>4 DEF Storing, SetWriters
    <3>2. QED
      BY <2>4, <3>1, SetQuiet
  <2>5. CASE Remote \/ Startup \/ Interrupt \/ Notifier \/ NotifierTroubled
             \/ UNCHANGED vars
    BY <2>4, <2>5 DEF Remote, RemoteAdd, RemoteFinish, Startup, Boot, Subscribe,
         OpenSession, StartHooks, Interrupt, Notifier, NotifierRead, NotifyOne,
         NotifierNext, NotifierTroubled, NotifierReadFails, NotifyFails,
         NotifierStops, dbVars, scrVars, dlgVars, vars
  <2>6. QED
    BY <1>2, <2>1, <2>2, <2>3, <2>5
       DEF Next, Shutdown, BotReturns, ScraperQuits, Crash
<1>3. TypeOK /\ Recorded /\ [Next]_vars
        => [\A t \in Torrents : [Set(t)!Next]_(Set(t)!vars)]_vars
  BY <1>2
<1>4. QED
  BY <1>1, <1>3, RecordedInit, RecordedStep, TypeCorrect, PTL DEF Spec, UsesSet

\* A row never goes away again, whoever stores, aborts or crashes.
RowsStay ==
  [][\A t \in Torrents : row[t] # "none" => row'[t] # "none"]_vars

LEMMA SetKeepsRow ==
  ASSUME NEW t \in Torrents, [Set(t)!Next]_(Set(t)!vars), row[t] # "none"
  PROVE  row'[t] # "none"
BY DEF Set!Next, Set!vars, Set!Begin, Set!Commit, Set!Abort

\* No interleaving of scraper, dialogs and restarts removes a row, since nothing but a
\* Set writes one: a consequence of the contract of Set alone.
THEOREM RowsAreKept == Spec => RowsStay
<1>1. [\A t \in Torrents : [Set(t)!Next]_(Set(t)!vars)]_vars
        => [\A t \in Torrents : row[t] # "none" => row'[t] # "none"]_vars
  BY SetKeepsRow
<1>2. QED
  BY <1>1, TrackerUsesSet, PTL DEF UsesSet, RowsStay

=============================================================================
