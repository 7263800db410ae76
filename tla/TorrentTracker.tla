--------------------------- MODULE TorrentTracker ---------------------------
(***************************************************************************)
(* How a finished download becomes a notice to the users who asked for it. *)
(*                                                                         *)
(* Four actors share the database:                                         *)
(*   - the scraper goroutine (server/polly.go) polls Transmission, stores  *)
(*     each torrent with Torrent.Set and sends the torrents Set reports    *)
(*     completed over an unbuffered channel;                               *)
(*   - the notifier goroutine (commands/torrent_notifier.go) receives them *)
(*     and messages every subscriber stored for the torrent;               *)
(*   - each add-torrent dialog (commands/add_torrent.go, HandleModal) adds *)
(*     a magnet link, stores the torrent with the same Torrent.Set and     *)
(*     then stores a subscription;                                         *)
(*   - main.go and Bot.Run start and stop the others.                      *)
(* The database outlives the process; everything else is lost with it.     *)
(*                                                                         *)
(* Torrent.Set runs in a READ COMMITTED transaction (PostgreSQL default;   *)
(* the options passed are nil), so its read and its commit are two steps   *)
(* and other writers may commit in between.  A commit that takes effect    *)
(* may still be answered by an error.                                      *)
(***************************************************************************)
EXTENDS Naturals, FiniteSets

CONSTANTS
  Torrents,     \* torrents Transmission can hold
  Requests,     \* submissions of the add-torrent dialog, one per interaction
  Link,         \* Link[r]: the torrent that the magnet of r denotes
  NotifyLimit,  \* the LIMIT of GetTorrentNotifications (100 in the code)
  Faults        \* the kinds of failure that may happen in a behaviour

ASSUME LinkAssumption == Link \in [Requests -> Torrents]
ASSUME ScraperAssumption == "scraper" \notin Requests
ASSUME LimitAssumption == NotifyLimit \in Nat \ {0}
ASSUME FaultsAssumption ==
  Faults \subseteq {"crash", "interrupt", "set", "dialog", "notify"}

\* What a torrent record says of the torrent: there is none, it has no
\* completion date, it has one.  Every other column is abstracted.
Status == {"none", "loading", "done"}

\* The order in which a torrent goes through the statuses.
UpTo(s, u) == s = "none" \/ u = "done" \/ s = u

VARIABLES
  remote,    \* Transmission: [Torrents -> Status]
  row,       \* table torrents: [Torrents -> Status]
  subs,      \* table torrent_notifications: the requests that have a row
  life,      \* how far main.go and Bot.Run are
  cancelled, \* the root context is cancelled
  scrPc,     \* scraper goroutine
  list,      \* its snapshot of Transmission, "none" once handled
  scrT,      \* the torrent it is storing or sending
  scrSeen,   \* what its transaction read of that torrent's row
  ntfPc,     \* notifier goroutine
  ntfT,      \* the torrent it received
  pending,   \* the subscriptions it still has to serve
  dlgPc,     \* dialogs: [Requests -> ...]
  dlgSnap,   \* what the dialog scraped of its torrent
  dlgSeen,   \* what the dialog's transaction read of its row
  fired,     \* history: completions Set reported to the scraper, per torrent
  undone,    \* history: commits that erased a completion date, per torrent
  told       \* history: notices delivered, per subscription

dbVars   == <<row, subs>>
procVars == <<life, cancelled>>
scrVars  == <<scrPc, list, scrT, scrSeen>>
ntfVars  == <<ntfPc, ntfT, pending>>
dlgVars  == <<dlgPc, dlgSnap, dlgSeen>>
histVars == <<fired, undone, told>>
vars == <<remote, row, subs, life, cancelled, scrPc, list, scrT, scrSeen,
          ntfPc, ntfT, pending, dlgPc, dlgSnap, dlgSeen, fired, undone, told>>

-----------------------------------------------------------------------------
(* Torrent.Set, shared by the scraper and the dialogs.                     *)

\* Mutant: an insert without metadata, which the table refuses.
ConflictAlways(t, seen) == seen = "none"

\* Mutant: an insert that replaces the row it finds.
ConflictNever(t, seen) == FALSE

\* Set inserts when it counted no row; a row committed meanwhile breaks the
\* primary key and the transaction fails.
Conflict(t, seen) == seen = "none" /\ row[t] # "none"

\* Mutant: a commit that writes an undefined status.
OutcomesGarbled(t, seen, new) == {"garbled"}

\* The values the row of t can hold after the commit.  When the record read
\* equals the new one in every column the update is skipped and whatever is
\* stored by now stays; a column abstracted here may differ, so for an equal
\* status both outcomes are possible.
Outcomes(t, seen, new) == {new} \cup IF seen = new THEN {row[t]} ELSE {}

\* Mutants: a completion that forgets to look at the new record, and one that
\* forgets to look at the stored one.
CompletedWithoutNew(seen, new) == seen = "loading"
CompletedWithoutOld(seen, new) == new = "done"

\* What Set returns: the row existed without a completion date and the new
\* record has one.  It compares with what was read, not with what is stored.
Completed(seen, new) == seen = "loading" /\ new = "done"

SetCommit(t, seen, new) ==
  /\ ~Conflict(t, seen)
  /\ \E v \in Outcomes(t, seen, new) :
       /\ row' = [row EXCEPT ![t] = v]
       /\ undone' = IF row[t] = "done" /\ v # "done"
                      THEN [undone EXCEPT ![t] = @ + 1] ELSE undone

-----------------------------------------------------------------------------
(* Transmission, external to the program.                                  *)

Fresh == [t \in Torrents |-> "none"]

\* A torrent added by another client of Transmission.
RemoteAdd(t) ==
  /\ remote[t] = "none"
  /\ remote' = [remote EXCEPT ![t] = "loading"]
  /\ UNCHANGED <<dbVars, procVars, scrVars, ntfVars, dlgVars, histVars>>

\* A download finishes: Transmission gives it a done date.
RemoteFinish(t) ==
  /\ remote[t] = "loading"
  /\ remote' = [remote EXCEPT ![t] = "done"]
  /\ UNCHANGED <<dbVars, procVars, scrVars, ntfVars, dlgVars, histVars>>

-----------------------------------------------------------------------------
(* main.go and Bot.Run.                                                    *)

Running == life # "down"
Subscribed == life \in {"wired", "open", "hooked"}
SessionOpen == life \in {"open", "hooked"}
InFlight == {"added", "fetched", "tx", "stored", "subscribed"}

\* Connects, migrates and starts the server goroutine; the scraper runs from
\* here on, before anything receives what it sends.
Boot ==
  /\ life = "down"
  /\ life' = "boot"
  /\ UNCHANGED <<remote, dbVars, cancelled, scrVars, ntfVars, dlgVars, histVars>>

\* SubscribeCompletedTorrents: the server's channel stops being nil.
Subscribe ==
  /\ life = "boot"
  /\ life' = "wired"
  /\ UNCHANGED <<remote, dbVars, cancelled, scrVars, ntfVars, dlgVars, histVars>>

\* session.Open: interaction handlers can run from here on.
OpenSession ==
  /\ life = "wired"
  /\ life' = "open"
  /\ UNCHANGED <<remote, dbVars, cancelled, scrVars, ntfVars, dlgVars, histVars>>

\* The OnStart hooks run after every command is registered: the notifier
\* goroutine starts.
StartHooks ==
  /\ life = "open"
  /\ life' = "hooked"
  /\ ntfPc' = "ready"
  /\ UNCHANGED <<remote, dbVars, cancelled, scrVars, ntfT, pending, dlgVars, histVars>>

\* SIGINT or SIGTERM cancels the root context.
Interrupt ==
  /\ "interrupt" \in Faults
  /\ Subscribed
  /\ ~cancelled
  /\ cancelled' = TRUE
  /\ UNCHANGED <<remote, dbVars, life, scrVars, ntfVars, dlgVars, histVars>>

\* The process ends: goroutines and open transactions are gone.
Halt ==
  /\ life' = "down"
  /\ cancelled' = FALSE
  /\ scrPc' = "idle"
  /\ list' = Fresh
  /\ ntfPc' = "off"
  /\ pending' = {}
  /\ dlgPc' = [r \in Requests |-> IF dlgPc[r] \in InFlight THEN "lost" ELSE dlgPc[r]]
  /\ scrSeen' = "none"
  /\ dlgSnap' = [r \in Requests |-> "none"]
  /\ dlgSeen' = [r \in Requests |-> "none"]
  /\ UNCHANGED <<remote, dbVars, scrT, ntfT, histVars>>

\* Bot.Run leaves its loop on the cancelled context and main returns.
BotReturns == cancelled /\ life = "hooked" /\ Halt

\* RunScraper sees the cancelled context at the top of its loop and returns an
\* error, which main turns into a fatal exit.
ScraperQuits == cancelled /\ scrPc = "idle" /\ Halt

\* The process dies, or Bot.Run fails before its loop and main returns.
Crash == "crash" \in Faults /\ Running /\ Halt

-----------------------------------------------------------------------------
(* The scraper goroutine.  A failed poll of Transmission changes nothing.  *)

\* One successful poll: the statuses of every torrent, at one moment.
ScrapeList ==
  /\ Running /\ ~cancelled
  /\ scrPc = "idle"
  /\ scrPc' = "loop"
  /\ list' = remote
  /\ UNCHANGED <<remote, dbVars, procVars, scrT, scrSeen, ntfVars, dlgVars, histVars>>

\* The next torrent of the poll: Set opens its transaction and reads the row.
ScrapeSetBegin(t) ==
  /\ scrPc = "loop" /\ list[t] # "none"
  /\ ~cancelled
  /\ scrPc' = "tx"
  /\ scrT' = t
  /\ scrSeen' = row[t]
  /\ UNCHANGED <<remote, dbVars, procVars, list, ntfVars, dlgVars, histVars>>

\* Set commits.  A completion is sent on when there is a channel to send to.
ScrapeSetCommit ==
  /\ scrPc = "tx"
  /\ SetCommit(scrT, scrSeen, list[scrT])
  /\ list' = [list EXCEPT ![scrT] = "none"]
  /\ IF Completed(scrSeen, list[scrT])
       THEN /\ fired' = [fired EXCEPT ![scrT] = @ + 1]
            /\ scrPc' = IF Subscribed THEN "send" ELSE "loop"
       ELSE /\ scrPc' = "loop"
            /\ UNCHANGED fired
  /\ scrSeen' = "none"
  /\ UNCHANGED <<remote, subs, procVars, scrT, ntfVars, dlgVars, told>>

\* The whole poll is given up when Set fails: on a conflicting insert ...
ScrapeAbandon ==
  /\ list' = Fresh
  /\ scrPc' = "idle"
  /\ scrSeen' = "none"
  /\ UNCHANGED <<remote, dbVars, procVars, scrT, ntfVars, dlgVars, histVars>>

ScrapeConflict == scrPc = "tx" /\ Conflict(scrT, scrSeen) /\ ScrapeAbandon

\* ... on a database error before the commit takes effect, and at once when the
\* context is cancelled ...
ScrapeFails ==
  /\ \/ scrPc = "tx" /\ "set" \in Faults
     \/ scrPc \in {"loop", "tx"} /\ cancelled
  /\ ScrapeAbandon

\* ... and when the commit takes effect but is answered by an error: the row has
\* changed, and a completion is lost with Set's answer, since the polls to come
\* read the date.
ScrapeUnheard ==
  /\ scrPc = "tx"
  /\ "set" \in Faults \/ cancelled
  /\ SetCommit(scrT, scrSeen, list[scrT])
  /\ scrPc' = IF Completed(scrSeen, list[scrT]) THEN "unheard" ELSE "idle"
  /\ list' = Fresh
  /\ scrSeen' = "none"
  /\ UNCHANGED <<remote, subs, procVars, scrT, ntfVars, dlgVars, fired, told>>

\* RunScraper logs the error of such a poll and sleeps like after any other.
ScrapeLogs ==
  /\ scrPc = "unheard"
  /\ scrPc' = "idle"
  /\ UNCHANGED <<remote, dbVars, procVars, list, scrT, scrSeen, ntfVars, dlgVars, histVars>>

\* Every torrent of the poll is stored; the loop sleeps and starts over.
ScrapeDone ==
  /\ scrPc = "loop"
  /\ \A t \in Torrents : list[t] = "none"
  /\ scrPc' = "idle"
  /\ UNCHANGED <<remote, dbVars, procVars, list, scrT, scrSeen, ntfVars, dlgVars, histVars>>

\* The unbuffered send: both goroutines take this step together.
Handover ==
  /\ scrPc = "send" /\ ntfPc = "ready"
  /\ scrPc' = "loop"
  /\ ntfPc' = "got"
  /\ ntfT' = scrT
  /\ UNCHANGED <<remote, dbVars, procVars, list, scrT, scrSeen, pending, dlgVars, histVars>>

-----------------------------------------------------------------------------
(* The notifier goroutine.                                                 *)

Subscribers(t) == {r \in subs : Link[r] = t}

\* Mutant: the limit is off by one.
PagesShort(t) ==
  {S \in SUBSET Subscribers(t) : Cardinality(S) = NotifyLimit - 1}

\* The query is unordered and limited: any NotifyLimit of the rows.
Pages(t) ==
  {S \in SUBSET Subscribers(t) :
     \/ Cardinality(S) = NotifyLimit
     \/ S = Subscribers(t) /\ Cardinality(S) < NotifyLimit}

NotifierRead ==
  /\ ntfPc = "got"
  /\ ntfPc' = "deliver"
  /\ pending' \in Pages(ntfT)
  /\ UNCHANGED <<remote, dbVars, procVars, scrVars, ntfT, dlgVars, histVars>>

\* The failed query is logged and the torrent dropped with no one messaged.
NotifierReadFails ==
  /\ "notify" \in Faults
  /\ ntfPc = "got"
  /\ ntfPc' = "ready"
  /\ UNCHANGED <<remote, dbVars, procVars, scrVars, ntfT, pending, dlgVars, histVars>>

\* One subscription is served, by a private message, a message in the channel
\* or both; its row stays in the table.
NotifyOne(r) ==
  /\ ntfPc = "deliver" /\ r \in pending
  /\ pending' = pending \ {r}
  /\ told' = [told EXCEPT ![r] = @ + 1]
  /\ UNCHANGED <<remote, dbVars, procVars, scrVars, ntfPc, ntfT, dlgVars, fired, undone>>

\* Neither message can be sent: logged, not retried.
NotifyFails(r) ==
  /\ "notify" \in Faults
  /\ ntfPc = "deliver" /\ r \in pending
  /\ pending' = pending \ {r}
  /\ UNCHANGED <<remote, dbVars, procVars, scrVars, ntfPc, ntfT, dlgVars, histVars>>

\* Mutant: the goroutine serves one torrent and returns.
NotifierNextNever ==
  /\ ntfPc = "deliver" /\ pending = {}
  /\ ntfPc' = "gone"
  /\ UNCHANGED <<remote, dbVars, procVars, scrVars, ntfT, pending, dlgVars, histVars>>

\* Back to the select, waiting for the next torrent or for the context.
NotifierNext ==
  /\ ntfPc = "deliver" /\ pending = {}
  /\ ntfPc' = "ready"
  /\ UNCHANGED <<remote, dbVars, procVars, scrVars, ntfT, pending, dlgVars, histVars>>

NotifierStops ==
  /\ cancelled /\ ntfPc = "ready"
  /\ ntfPc' = "gone"
  /\ UNCHANGED <<remote, dbVars, procVars, scrVars, ntfT, pending, dlgVars, histVars>>

-----------------------------------------------------------------------------
(* HandleModal, one per submitted dialog.  A submission that is refused    *)
(* before AddMagnetLink changes nothing and is not modelled here.          *)

\* AddMagnetLink: Transmission adds the torrent, or already has it.
DialogAdd(r) ==
  /\ SessionOpen /\ ~cancelled
  /\ dlgPc[r] = "new"
  /\ dlgPc' = [dlgPc EXCEPT ![r] = "added"]
  /\ remote' = IF remote[Link[r]] = "none"
                 THEN [remote EXCEPT ![Link[r]] = "loading"] ELSE remote
  /\ UNCHANGED <<dbVars, procVars, scrVars, ntfVars, dlgSnap, dlgSeen, histVars>>

\* Mutant: what is stored is the record of a new torrent, not a scrape.
DialogFetchNothing(r) ==
  /\ dlgPc[r] = "added"
  /\ dlgPc' = [dlgPc EXCEPT ![r] = "fetched"]
  /\ dlgSnap' = [dlgSnap EXCEPT ![r] = "loading"]
  /\ UNCHANGED <<remote, dbVars, procVars, scrVars, ntfVars, dlgSeen, histVars>>

\* GetTorrents(torrentID): what will be stored is fixed here.
DialogFetch(r) ==
  /\ dlgPc[r] = "added"
  /\ dlgPc' = [dlgPc EXCEPT ![r] = "fetched"]
  /\ dlgSnap' = [dlgSnap EXCEPT ![r] = remote[Link[r]]]
  /\ UNCHANGED <<remote, dbVars, procVars, scrVars, ntfVars, dlgSeen, histVars>>

DialogSetBegin(r) ==
  /\ dlgPc[r] = "fetched"
  /\ ~cancelled
  /\ dlgPc' = [dlgPc EXCEPT ![r] = "tx"]
  /\ dlgSeen' = [dlgSeen EXCEPT ![r] = row[Link[r]]]
  /\ UNCHANGED <<remote, dbVars, procVars, scrVars, ntfVars, dlgSnap, histVars>>

\* The record and what was read of the row are not used after Set.
ForgetSnapshot(r) ==
  /\ dlgSnap' = [dlgSnap EXCEPT ![r] = "none"]
  /\ dlgSeen' = [dlgSeen EXCEPT ![r] = "none"]

\* Set commits; whether it completed the torrent is thrown away.
DialogSetCommit(r) ==
  /\ dlgPc[r] = "tx"
  /\ SetCommit(Link[r], dlgSeen[r], dlgSnap[r])
  /\ dlgPc' = [dlgPc EXCEPT ![r] = "stored"]
  /\ ForgetSnapshot(r)
  /\ UNCHANGED <<remote, subs, procVars, scrVars, ntfVars, fired, told>>

DialogSubscribe(r) ==
  /\ dlgPc[r] = "stored"
  /\ dlgPc' = [dlgPc EXCEPT ![r] = "subscribed"]
  /\ subs' = subs \cup {r}
  /\ UNCHANGED <<remote, row, procVars, scrVars, ntfVars, dlgSnap, dlgSeen, histVars>>

\* Mutant: the user is thanked before the subscription is stored.
DialogThankEarly(r) ==
  /\ dlgPc[r] \in {"stored", "subscribed"}
  /\ dlgPc' = [dlgPc EXCEPT ![r] = "thanked"]
  /\ UNCHANGED <<remote, dbVars, procVars, scrVars, ntfVars, dlgSnap, dlgSeen, histVars>>

\* "Thank you sharing".
DialogThank(r) ==
  /\ dlgPc[r] = "subscribed"
  /\ dlgPc' = [dlgPc EXCEPT ![r] = "thanked"]
  /\ UNCHANGED <<remote, dbVars, procVars, scrVars, ntfVars, dlgSnap, dlgSeen, histVars>>

DialogGivesUp(r) ==
  /\ dlgPc' = [dlgPc EXCEPT ![r] = "failed"]
  /\ ForgetSnapshot(r)
  /\ UNCHANGED <<remote, dbVars, procVars, scrVars, ntfVars, histVars>>

DialogConflict(r) ==
  dlgPc[r] = "tx" /\ Conflict(Link[r], dlgSeen[r]) /\ DialogGivesUp(r)

\* A call of the handler fails, its ten seconds are over or the context is
\* cancelled: what was done before stays done.
DialogFails(r) ==
  /\ "dialog" \in Faults \/ cancelled
  /\ dlgPc[r] \in InFlight
  /\ DialogGivesUp(r)

-----------------------------------------------------------------------------

Init ==
  /\ remote = Fresh
  /\ row = Fresh
  /\ subs = {}
  /\ life = "down"
  /\ cancelled = FALSE
  /\ scrPc = "idle"
  /\ list = Fresh
  /\ scrT \in Torrents
  /\ scrSeen = "none"
  /\ ntfPc = "off"
  /\ ntfT \in Torrents
  /\ pending = {}
  /\ dlgPc = [r \in Requests |-> "new"]
  /\ dlgSnap = [r \in Requests |-> "none"]
  /\ dlgSeen = [r \in Requests |-> "none"]
  /\ fired = [t \in Torrents |-> 0]
  /\ undone = [t \in Torrents |-> 0]
  /\ told = [r \in Requests |-> 0]

Remote == \E t \in Torrents : RemoteAdd(t) \/ RemoteFinish(t)

Startup == Boot \/ Subscribe \/ OpenSession \/ StartHooks

Shutdown == Interrupt \/ BotReturns \/ ScraperQuits \/ Crash

Scraper ==
  \/ ScrapeList
  \/ \E t \in Torrents : ScrapeSetBegin(t)
  \/ ScrapeSetCommit
  \/ ScrapeConflict
  \/ ScrapeLogs
  \/ ScrapeDone

Notifier ==
  \/ NotifierRead
  \/ \E r \in Requests : NotifyOne(r)
  \/ NotifierNext

NotifierTroubled ==
  \/ NotifierReadFails
  \/ \E r \in Requests : NotifyFails(r)
  \/ NotifierStops

Dialog(r) ==
  \/ DialogFetch(r)
  \/ DialogSetBegin(r)
  \/ DialogSetCommit(r)
  \/ DialogConflict(r)
  \/ DialogSubscribe(r)
  \/ DialogThank(r)

Next ==
  \/ Remote
  \/ Startup
  \/ Shutdown
  \/ Scraper
  \/ ScrapeFails
  \/ ScrapeUnheard
  \/ Handover
  \/ Notifier
  \/ NotifierTroubled
  \/ \E r \in Requests : DialogAdd(r) \/ Dialog(r) \/ DialogFails(r)

\* Goroutines that can run do run, the deployment restarts the process, and
\* the bot leaves its loop once the context is cancelled.  Nobody has to add
\* a torrent or submit a dialog, and no download has to finish.
Fairness ==
  /\ WF_vars(Startup)
  /\ WF_vars(BotReturns)
  /\ WF_vars(Scraper)
  /\ WF_vars(Handover)
  /\ WF_vars(Notifier)
  /\ \A r \in Requests : WF_vars(Dialog(r))

Spec == Init /\ [][Next]_vars /\ Fairness

-----------------------------------------------------------------------------

TypeOK ==
  /\ remote \in [Torrents -> Status]
  /\ row \in [Torrents -> Status]
  /\ subs \subseteq Requests
  /\ life \in {"down", "boot", "wired", "open", "hooked"}
  /\ cancelled \in BOOLEAN
  /\ scrPc \in {"idle", "loop", "tx", "send", "unheard"}
  /\ list \in [Torrents -> Status]
  /\ scrT \in Torrents
  /\ scrSeen \in Status
  /\ ntfPc \in {"off", "ready", "got", "deliver", "gone"}
  /\ ntfT \in Torrents
  /\ pending \subseteq Requests
  /\ dlgPc \in [Requests -> InFlight \cup {"new", "thanked", "failed", "lost"}]
  /\ dlgSnap \in [Requests -> Status]
  /\ dlgSeen \in [Requests -> Status]
  /\ fired \in [Torrents -> Nat]
  /\ undone \in [Torrents -> Nat]
  /\ told \in [Requests -> Nat]

\* No user is told that a download completed, and no row says so, unless
\* Transmission has finished it: a snapshot may be stale but never runs ahead.
NoFalseCompletion ==
  /\ \A t \in Torrents : UpTo(row[t], remote[t])
  /\ \A r \in Requests : told[r] > 0 => remote[Link[r]] = "done"

\* A user who was thanked has a subscription, and its torrent a row to refer
\* to, for ever after, whatever crashes.
ThankedIsSubscribed ==
  \A r \in Requests :
    dlgPc[r] = "thanked" => r \in subs /\ row[Link[r]] # "none"

\* Nobody holds a snapshot of t taken before it finished.
NoStaleSnapshot(t) ==
  /\ list[t] # "loading"
  /\ \A r \in Requests :
       Link[r] = t /\ dlgPc[r] \in {"fetched", "tx"} => dlgSnap[r] # "loading"

Settled(t) == row[t] = "done" /\ NoStaleSnapshot(t)

\* Once a completion is stored and no older snapshot is left, it is stored for
\* good: restarts, new dialogs for the same magnet and failed transactions
\* leave the completion date alone.
SettledForGood == [][\A t \in Torrents : Settled(t) => Settled(t)']_vars

\* Who has a transaction of Set open for t, and what it has read.
SetWriters == Requests \cup {"scraper"}

Storing(t) ==
  {w \in SetWriters :
     \/ w = "scraper" /\ scrPc = "tx" /\ scrT = t
     \/ w \in Requests /\ dlgPc[w] = "tx" /\ Link[w] = t}

HasRead(t) ==
  [w \in SetWriters |->
     IF w \notin Storing(t) THEN "none"
     ELSE IF w = "scraper" THEN scrSeen ELSE dlgSeen[w]]

Set(t) ==
  INSTANCE SetTransaction WITH
    Writers <- SetWriters, row <- row[t], busy <- Storing(t), seen <- HasRead(t)

\* All that the actors do with the row of a torrent are the reads and commits of
\* SetTransaction, which TorrentSet shows the statements of Set to implement.
UsesSet ==
  /\ \A t \in Torrents : Set(t)!Init
  /\ [][\A t \in Torrents : [Set(t)!Next]_(Set(t)!vars)]_vars

\* The books of one subscriber and the torrent that it waits for.
Books(r) ==
  INSTANCE CompletionLedger WITH
    finished <- remote[Link[r]] = "done", dated <- row[Link[r]] = "done",
    reported <- fired[Link[r]], erased <- undone[Link[r]], told <- told[r]

\* Scraper, dialogs, notifier and restarts, in any interleaving, keep the books of
\* every subscriber as CompletionLedger says: a completion is reported only while no
\* report of it stands, and each notice answers a report of its own.
KeepsLedger ==
  /\ \A r \in Requests : Books(r)!Init
  /\ [][\A r \in Requests : [Books(r)!Next]_(Books(r)!vars)]_vars

\* The scraper is never stuck for ever in the unbuffered send: the notifier
\* takes the torrent or the process ends.
SendReturns == scrPc = "send" ~> scrPc # "send"

\* From some time on no process ends and no transaction of the scraper is answered
\* by an error, other than by the conflicts that the program causes itself.
Calm ==
  <>[][~(Crash \/ Interrupt \/ ScrapeUnheard \/ (ScrapeFails /\ ~ScrapeConflict))]_vars

\* In calm the database ends up saying of every torrent what Transmission says,
\* whatever the dialogs do.
Converges == Calm => <>[](\A t \in Torrents : row[t] = remote[t])

Ended(r) == dlgPc[r] \in {"thanked", "failed", "lost"}

\* r subscribed, its torrent is still loading as far as the database and an
\* open transaction of the scraper know, the server has its channel and no
\* dialog can touch the row any more.
Timely(r) ==
  /\ r \in subs /\ row[Link[r]] = "loading"
  /\ scrPc = "tx" /\ scrT = Link[r] => scrSeen = "loading"
  /\ Subscribed
  /\ Cardinality(Subscribers(Link[r])) <= NotifyLimit
  /\ \A q \in Requests : Link[q] = Link[r] => Ended(q)

\* A notice for r is due: its torrent is as Timely says, or its completion is in the
\* scraper's send, in the notifier's hands or among the notices still to be sent.
Due(r) ==
  /\ r \in subs /\ Subscribed
  /\ Cardinality(Subscribers(Link[r])) <= NotifyLimit
  /\ \A q \in Requests : Link[q] = Link[r] => Ended(q)
  /\ \/ /\ row[Link[r]] = "loading"
        /\ scrPc = "tx" /\ scrT = Link[r] => scrSeen = "loading"
     \/ scrPc = "send" /\ scrT = Link[r]
     \/ ntfPc = "got" /\ ntfT = Link[r]
     \/ r \in pending

\* The completion of r's torrent was lost with the answer of the commit that
\* stored it.
Unheard(r) == scrPc = "unheard" /\ scrT = Link[r]

\* No step loses a notice that is due: it is delivered, or the process ends, or a
\* call of the notifier for it fails, or the scraper's commit of the completion is
\* answered by an error.  Whatever else the four actors do, in any order, failed
\* polls and transactions included, it stays due.
NeverDropped ==
  [][\A r \in Requests :
       Due(r) => \/ Due(r)'
                 \/ told'[r] > told[r]
                 \/ ~Running'
                 \/ NotifierReadFails
                 \/ NotifyFails(r)
                 \/ ScrapeUnheard /\ Unheard(r)']_vars

\* Such a subscriber is told of the completion, unless the process ends first or the
\* scraper's commit of it is answered by an error.
TimelySubscriberTold ==
  Calm => \A r \in Requests :
    Timely(r) /\ remote[Link[r]] = "done" ~> told[r] > 0 \/ ~Running \/ Unheard(r)

\* README, "Notify on finished downloads": who subscribed before the download
\* finished is told.
EarlySubscriberTold ==
  \A r \in Requests :
    [](r \in subs /\ remote[Link[r]] = "loading" /\ told[r] = 0
         => (<>(remote[Link[r]] = "done") => <>(told[r] > 0)))

=============================================================================
