# A verification development for Polly

Polly is a Discord bot for a Transmission server: users add magnet links, ask
for the state of downloads and are notified when a download is finished. This
directory holds TLA+ models of it, the TLC configurations that check them on
small instances, and proofs, checked by TLAPS, of the properties that matter
most. Paths below are relative to the repository.

## 1. The system

One Go process, a PostgreSQL database that outlives it, and two remote services,
Transmission and Discord. The deployment restarts the process when it ends.

| component | state it keeps | operations | talks to |
|---|---|---|---|
| Scraper (`internal/server/polly.go`) | backoff period, the poll in hand, the channel `completedTorrents` | poll, store each torrent, send the completed ones | Transmission, `Torrent.Set`, notifier (unbuffered channel) |
| Torrent storage (`internal/models/torrents.go`) | tables `torrents`, `torrent_labels`, `torrent_categories` | `Set` (one READ COMMITTED transaction), `Get`, `GetTorrents` | PostgreSQL |
| Notifier (`internal/commands/torrent_notifier.go`, `internal/models/notifications.go`) | table `torrent_notifications`; the torrent in hand | receive, read the subscriptions, message each subscriber | scraper, Discord, private messenger |
| Add-torrent dialog (`internal/commands/add_torrent.go`) | `customIDs` in memory | `Handle` (opens a modal), `HasCustomID`, `HandleModal` (validate, add, fetch, `Set`, subscribe, thank) | Transmission, `Torrent.Set`, Discord |
| Echo (`internal/commands/echo.go`) | map of delayed announcements, its mutex | `Handle`, `Run` (sweep every second) | Discord |
| Private messenger (`pkg/discord/private_message.go`, `internal/models/private_channels.go`) | table `private_channels`; the channels Discord has open | `SendMessage`, `garbageCollect` (every 10 s) | PostgreSQL, Discord |
| Dispatcher (`pkg/discord/discord.go`, `context.go`, `internal/commands/errors.go`) | the tables of handlers | route an interaction, 10 s timeout, recover panics, answer errors | all commands |
| Registration and life cycle (`discord.go`, `main.go`) | command identifiers, root context, signals | start, register, hooks, loop, clean up | everything |
| Get-all, ping, whoami (`internal/commands/`) | a counter under a mutex (ping) | answer | database, messenger |
| Configuration (`internal/mapper`, `internal/config`) | none after start | decode the environment, validate, form URLs | main |

Not part of the program's own logic: the generated gRPC stubs (the handlers
answer "unimplemented"), migrations, build and deployment files.

### What is hard in it

* Every Discord interaction runs in a goroutine of its own, beside the scraper,
  the notifier, the bot's loop and the echo sweeper.
* `Torrent.Set` is called from the scraper and from dialogs, for the same rows.
  It passes no transaction options, so PostgreSQL runs it READ COMMITTED: what it
  read may be out of date when it commits. "The torrent completed" is decided
  from what was *read*, and only the call that sees the change reports it.
* What is stored is a snapshot of Transmission taken earlier, once per dialog and
  once per whole poll; an older snapshot can be committed after a newer one.
* A completion is committed before it is sent, the send ignores the context, the
  subscription is stored after the torrent, a failed notice is not retried.
* The echo mutex is not released on every exit; the map it guards is created
  late and without it.
* Discord keeps the registered commands when the process ends, and delivers them from
  the moment the session opens, which is before they are registered again.
* Discord stops waiting for an answer after three seconds, the handler after ten, and a
  response can take effect although its acknowledgement is lost.
* The decoder works on types by reflection, and decides from what it *found* whether
  an optional part of a structure is there.
* A private channel lives in two systems that are changed by separate calls.

The hazards, each at its line and with the properties that cover it, are listed
in `PROJECT.json`. Correctness of the parts, in one line each:

* Tracking: nobody is told of a completion that did not happen; repeated notices
  come only from an erased completion date; the table ends up agreeing with
  Transmission; a thanked user stays subscribed; the scraper never stands for ever
  in its send; subscribers are told.
* Echo: the mutex excludes; an accepted announcement is made once, after its
  delay, and not lost; handlers return.
* Messenger: table and Discord agree; channels in use are not closed; idle ones
  are collected.
* Storage: a `Set` leaves the categories of one writer and keeps the friendly
  name; every call ends; callers may rely on it as one read and one commit.
* Scraper loop: the period stays within its bounds and recovers; what is listed
  before a torrent that cannot be stored is stored.
* Dialog: a modal that is shown is recognised when it is submitted, accepted
  submissions of one modal overlap, the identifier is freed.
* Dispatcher: what the user is answered is what happened, and a command of this
  build always finds its handler.
* Life cycle: the loop is reached only with every command registered, pings draw
  distinct numbers, an interrupt ends the process.
* Configuration: what is written in the environment is what is decoded; only a
  complete environment starts the bot; the exit status is truthful.

## 2. Modules

| module | of | models |
|---|---|---|
| `TorrentTracker` | scraper, `Torrent.Set`, notifier, `HandleModal`, `main`, `Bot.Run` | how a finished download becomes a notice; **the core** |
| `SetTransaction` | `Torrent.Set` | what it promises its callers: a read and a commit; **abstract** |
| `TorrentSet` | `Torrent.Set` | its statements under PostgreSQL's locks |
| `ScraperLoop` | `RunScraper`, `scrape` | pauses and order of the polls |
| `AddDialog` | `add_torrent.go`, the part of `discord.go` that dispatches it | modals, `customIDs`, answers |
| `EchoCommand` | `echo.go` | handlers, sweeper, mutex |
| `PrivateMessenger` | `private_message.go`, `private_channels.go` | senders and the collector against table and Discord |
| `Bot` | `discord.go`, `main.go`, `ping.go`, `whoami.go`, `get_all.go` | registration, dispatch, loop and clean-up |
| `Tickets` | `ping.go` | what its counter promises: a number is drawn in one step; **abstract** |
| `CompletionLedger` | `Torrent.Set`, `torrent_notifier.go` | what a subscriber may rely on: the books of completions reported, dates lost and notices sent; **abstract** |
| `MapLookup` | `mapper.go` | which texts count as missing, and what they leave in a field |
| `Mapper` | `mapper.go` | the decoder, and a reference for it (operators only) |
| `Startup` | `config.go`, `main.go`, `GetGuilds` | the way from the environment to the bot, for any decoder |
| `Configuration` | `config.go`, `main.go` | `Startup` with the decoder of `Mapper` and the type `Config` |
| `MC*` | | the constants of the instances that TLC checks |
| `*Proofs` | | the theorems about each, and the lemmas they rest on |

Operators whose comment begins with "Mutant" are plausible slips of the code
(a dropped guard, an off-by-one). No specification uses them. They are there so
that each property can be shown to fail when the code is changed in that way.

### TorrentTracker

The module composes four actors because the properties are about all of them.

| in the module | in the code |
|---|---|
| `remote` | what Transmission says; `RemoteAdd`, `RemoteFinish` are other clients and the network |
| `row`, `subs` | tables `torrents` and `torrent_notifications`; they survive `Halt` |
| `life`: down, boot, wired, open, hooked | `main.go` and `Bot.Run`: scraper started; `SubscribeCompletedTorrents`; `session.Open`; the OnStart hooks |
| `scrPc`, `list`, `scrT`, `scrSeen` | `RunScraper`/`scrape`: the poll in hand, the torrent in its transaction, what that transaction read |
| `ntfPc`, `ntfT`, `pending` | the goroutine of `OnStart`: waiting, holding a torrent, going through its subscriptions |
| `dlgPc`, `dlgSnap`, `dlgSeen` | one `HandleModal` per submission: fetched record, what its transaction read |
| `fired`, `undone`, `told` | histories only: completions reported to the scraper, commits that erased a completion date, notices delivered |

`Torrent.Set` is split at the only places where another writer can come in: a
read (`ScrapeSetBegin`, `DialogSetBegin`) and a commit (`SetCommit` with
`Conflict`, `Outcomes` and `Completed`). A transaction of the scraper that is answered by an
error has either left the row alone (`ScrapeFails`) or taken effect (`ScrapeUnheard`, when the
answer to the COMMIT is lost). Both give up the poll. After the second, a completion
is stored and reported to nobody, which `scrPc = "unheard"` holds on to until the loop has logged
the error (`ScrapeLogs`). A dialog has the same outcome as `DialogFails` after its commit.
Abstractions, and why they are sound for these properties:

* A torrent record is its completion status: no row, no completion date, date.
  Its other columns may differ between two records of equal status, in which case
  `Set` writes, or agree, in which case it skips the update; `Outcomes` allows both.
* The order in which a poll goes through the torrents is any order.
* A failed poll of Transmission changes nothing and is no step. The backoff
  period is not in this module.
* The scraper's unsynchronised read of `completedTorrents` sees the channel from
  `SubscribeCompletedTorrents` on. In the code either value may be seen at that
  moment; `Boot` and `Subscribe` interleave freely with the scraper, so both are here.
* `HandleModal` starts at `AddMagnetLink`; a submission refused before it changes
  neither Transmission nor the database. What it fetched is forgotten after its `Set`
  (`ForgetSnapshot`), since the code does not use it again.
* Whether a commit without an answer takes effect is settled by the time the error is seen.
* `NotifyOne` is a private message, a message in the channel, or both.
* Transmission does not forget a torrent; a row of a removed torrent is left alone
  by the code.
* One process at a time (the deployment has one replica). A rolling update with
  two processes is not modelled.

`Books(r)` maps the state of the four actors to the books of one subscriber, and
`KeepsLedger` says that each of their steps is one entry of `CompletionLedger` or none; `CompletionLedger` has no
process, no poll and no transaction. `Due(r)` is a notice on its way: the completion is still to be
read by the scraper, or is in the send, in the notifier's hands, or among the subscriptions it
is going through. `NeverDropped` says what may end that: the delivery, the end of the process, a failed
call of the notifier, and a commit that stores the completion and is answered by an error (`Unheard`).

How the modules fit together: `TorrentTracker` is the composition, and takes two
things as atomic that have steps of their own. `Torrent.Set` is one: `UsesSet`
says that all its actors do to a row are reads and commits of `SetTransaction`, and
`ImplementsTransaction` that the statements in `TorrentSet` amount to that. Both are
checked and proved, so the abstract module is the contract between them. The
other is `HandleModal` before its first call, which is in `AddDialog`.
`ScraperLoop` adds to the scraper of `TorrentTracker` what that leaves open: in
which order, after which pause, and what one failure does to the rest of the poll.
`Startup` ends where `Bot` and `TorrentTracker` begin. `Bot` is `Bot.Run` with the handlers that
have no module of their own; the two handlers that have one (`AddDialog`, `EchoCommand`) are
dispatched by the same code, and `AddDialog` has that part for modals, which `Bot` has not. The
work of whoami is the `SendMessage` of `PrivateMessenger`. `Bot` has the life of the process in
more detail than `TorrentTracker` has (`boot` to `hooked`), which needs of it only when
the notifier starts.

### TorrentSet

| in the module | in the code |
|---|---|
| `row`, `cats` | the committed row of one torrent (status and friendly name) and its rows of `torrent_categories` |
| `lock` | the open transaction that has inserted or updated the row; others wait for it |
| `pc` | the statement at hand: `insert`, `clear`, `clearing`, `readd`, `commit`, or `skip` when the record equals the one read |
| `rec`, `seen`, `own` | the record to be stored, the status read, the categories the call brings (none, or the one of a dialog) |
| `found`, `del` | what `DELETE FROM torrent_categories` found, and has deleted but not committed |
| `over` | history: another call committed since this one read |

PostgreSQL is external and modelled by what READ COMMITTED does: a statement sees
what was committed when it began, waits for a row another transaction has written
(`WaitsFor`), goes on with what that one left, and if several wait for one
another, one of them is ended (`BreakDeadlock`). `InsertConflict` and
`ReaddConflict` are the unique keys. The program does not retry (`Rollback`, then the
error). Abstractions:

* Count and `One` are one `Read`: rows are never deleted, so a row counted is there. The theorem
  `SetWritesFit` says as much of the write that follows.
* Two dialogs may give the same friendly name: the modal proposes the one in the link to
  each. Records that agree in status and name may still differ elsewhere, so `Read`
  allows both, the update and the skip. `Equal` compares no categories.
* Labels are treated by the same statements and set by nobody, so their table is empty.
* One torrent: calls for different torrents share no row.

### ScraperLoop

`pc` is where the loop is, `todo` what the poll in hand has still to store, `bad` the
torrents the database refuses (a name longer than its column; any set, chosen at the
start), `changed` the torrents whose last change is not stored, `late` those that
changed after the list was fetched. Periods are whole numbers of 1/64 s: from 2 s
and 300 s the code's durations only reach multiples of that, so `\div 2` is exact.
`Ladder` and `Rungs` are the bound of the period after so many good polls in a row;
they are constants with an assumption, since a power of two for any number is a
recursion that the prover cannot follow. A `Set` that is answered by an error has failed
(`StoreFails`) or taken effect (`StoreUnheard`); either ends the poll. Sending completed torrents and the end of
the loop on a cancelled context are in `TorrentTracker`.

### AddDialog

An interaction is a dialog (`Handle`) or a submission (`HandleModal`), each in a
goroutine of its own with a `pc`. `answer` is what the user sees, `err` what the
handler returns, `customIDs` the map. The map has no lock, so a write takes two
steps (`StoreBegin`/`StoreEnd`, `DeleteBegin`/`DeleteEnd`), and what overlaps it is
open: the runtime ends the process (`ConcurrentMapAccess`, which `recover` cannot stop), a
reader misses a key (`Misses`), or the write that ends first is lost (`Written`). `gone`
and `kept` are histories of what was lost that way, or with the process.
Discord gives up after three seconds (`GiveUp`) while the handler has ten; the user may
then submit the modal again, and only then. `Work` is everything between the checks and
the thanks. A response (`Show`, `Thank`) may fail with or without effect, and of the answers
of one interaction Discord takes the first (`Answered`). What `Work` knows is the category as the code compares it (`Normal`), and the calls that
`TorrentTracker` models, here only by how they can end.

### EchoCommand

`made` is the map being non-nil, `jobs` its keys, `due` the jobs whose delay is
over, `lock` the mutex with its holder, `sweep` the keys the range loop has not
visited. `HandlePanic` is the write to the nil map, `RunFails` the early return;
both leave `lock` held, and the announcement that `RunFails` is about may have been made all
the same, when only its acknowledgement was lost. The test `made` in the two Handle actions is the
outcome of the unsynchronised creation of the map. The identifiers are random 63-bit
numbers in the code and are taken to be distinct.

### PrivateMessenger

`rows` is the table with each row's age class ("idle" once the TTL has passed,
`Age`), `open` what Discord has, `pc` the steps of each sender, `gcPc`, `page`
and `cur` those of the collector. Discord has one private channel per user, so
a channel is named by its recipient. The database transaction around lookup,
`UserChannelCreate` and insert protects nothing in between, and is the three steps
`Lookup`, `OpenChannel` and `Record`; the unique recipient is `RecordConflict`. Closing
a closed channel may succeed (`GcClose`) or fail (`GcCloseFails`). `calm` is a history: no
call has failed and no process ended so far.
`torn` and `leaked` are histories that name the recipients for whom two calls came
apart: a channel was closed and its row stayed, or a channel was opened and no row names it (`LeavesOpen`).

### Bot

| in the module | in the code |
|---|---|
| `guild` | the commands that Discord has for the guild; they survive the process |
| `life` | how far `Bot.Run` is: `registering` (from `session.Open`), `loop`, `collecting` (a tick of the loop), `cleaning` (the deferred function), `returned` |
| `todo` | what a `range baseHandles` has not reached, in the registration and in the clean-up |
| `cancelled` | the root context of `main` |
| `running`, `errChan` | the goroutines of commands with a `Run`, and the buffered channel of their errors |
| `count`, `lock`, `number` | the counter of ping, its mutex, and the value each ping has read |
| `asked`, `pc`, `answer` | the command, the handler's goroutine and what the user sees of each interaction |
| `worked`, `acked` | histories: the work is done; the program was told that its response arrived |

`RegisterFails` returns before the clean-up is deferred. `Identified` is the set of commands
whose identifier the clean-up knows; it is empty, since discord.go:318 writes the identifier to
the loop's copy of the map's value. So `Delete` removes nothing, and the guild's commands only
grow. `MainReturns`, `ScraperFatal` and `Crash` are the ways in which the process ends.
`Work` is the private message of whoami or the query of get-all; `Respond` and `AnswerError`
have the outcomes of a response: shown and acknowledged, shown with the acknowledgement lost, not
shown. `GiveUp` is Discord's limit of three seconds; the handler's ten are over only for an
interaction that is `late`. A panic is an error here, since the dispatcher recovers it and
answers it like one.

### Mapper and Startup

`Mapper` has no state. A type is a record (`Prim`, `Struct`, `Ptr`, `Slice`, `Bytes`), a key
the sequence of names that the code joins by its separator, and an environment a function from
keys to texts, of which a primitive knows only which parse. `decode` follows the code's cases;
`FoundOf` is the line that matters: a `found` declared inside the case of a pointer shadows that
of the function. `Written`, `Expected` and `WellFormed` say what a user of the decoder expects. They
are compared where `OptionalsClosed` holds: a structure below a pointer or in a slice is
dropped when its last field is absent, whatever the others are. The code panics on a pointer below
a pointer or in a slice, and no type here has one.

`Startup` takes an input (an environment and the texts that its decoder meets) through `Decode`, `Validate`,
`ListGuilds` (one page at a time), `OpenSession`, `Migrate`, `ConnectTransmission`, until it serves;
`exit` is how the process ended, "none" while it runs. `touched` is a history of the services it has
called. `NewConfig` is the record that `config.New` returns, with its defaults. The decoder is
the constant `Decoding`, of which `Startup` assumes only its contract (`DecodingAssumption`): for the program's own type it fails
exactly on a number that does not parse, and else stores each text, or leaves the default where there
is none. So `Startup` uses no recursion and can be
proved about. `Configuration` gives the constant its value, `Decoder`: `decode` of `Mapper` for
`ConfigType`, the structure `Config` with the keys that `main`'s tag function forms; TLC
evaluates the assumption for it in the run `startup`.

## 3. Runs

Passing runs:

| run | instance | shows |
|---|---|---|
| `tracker_safety` | 1 torrent, 3 dialogs for it, `NotifyLimit` 1, every fault (crash, interrupt, failing transactions, dialogs and notices), symmetric dialogs | `NoFalseCompletion`: a row and a notice never run ahead of Transmission. `ThankedIsSubscribed`: subscription and row of a thanked user survive everything. `SettledForGood`: a completion of which no older snapshot is left is never undone. `KeepsLedger`: for each subscriber, the four actors implement `CompletionLedger`, so a completion is reported again only after its date was lost, and each notice answers a report of its own. `NeverDropped`: a notice that is due stays so in every interleaving until it is delivered, the process ends, a call of the notifier fails, or the scraper's commit of the completion is answered by an error |
| `tracker_liveness` | 2 torrents in one poll, 1 dialog, `NotifyLimit` 1, interrupts, crashes and failing `Set`s | `Converges`: once processes stop ending and transactions stop failing, the table comes to agree with Transmission for good. `TimelySubscriberTold`: who is stored early enough (`Timely`) is told, or the process ends, or the commit of the completion is answered by an error. `SendReturns`: the scraper's unbuffered send always ends, also before the notifier starts and after it has left |
| `set` | 2 dialogs with one name and the same, different or no categories, the scraper, failing calls | `ExactUnlessOvertaken`: a call that nobody overtook leaves its own categories and no others, and the scraper's leaves the friendly name; one that writes nothing finds its record stored. `DeadlockNeedsThird`: two calls alone never wait for one another. `SetReturns`: every call ends, whatever it waits for. `ImplementsTransaction` |
| `scraper` | 3 torrents, any of them refused by the database, failing calls, the code's periods | `Recovers`: after n good polls the period is at most the n-th rung, after 8 the minimum. `AheadStored`: a refused torrent does not keep those listed before it from being stored |
| `dialog` | a modal submitted twice and another one that is opened, a category that is known and one that the modal shows and the code refuses, restarts | `AcceptedTogether`: two submissions are accepted only while both are under way, or after a lost deletion. `FirstIsFound`: a first submission is recognised unless the process ended, a store was lost or the map is being written. `IdentifierFreed`: the identifier leaves the map on every way out |
| `echo` | 3 echoes, refused announcements | `Exclusive`: whoever is inside, or left without unlocking, is the one holder. `Conserved`: each accepted job waits, was announced once and after its delay, or is the single one whose refusal ended `Run`. `HandlersReturn`, `AcceptedIsAnnounced`: unless the mutex was abandoned (or, for the second, the bot stops) |
| `messenger` | 2 senders to one user, 1 to another, the collector, failing calls, crashes | `Consistent`: table and Discord disagree only inside a pair of calls, or for a recipient in `torn` or `leaked`. `CleanWhenAlone`: until something fails, a user only one goroutine writes to is never among those. `IdleCollected`: until something fails or is torn, an idle channel is used again or collected |
| `bot` | 2 interactions at any time, for ping, another command or one an earlier build left; refused registrations, failing hooks, handlers and commands, interrupts, crashes | `AnswersTruthful`: a reply only after the work, an error only after a failure and never after an acknowledged response, and silence only when nothing arrived. `CommandsServed`: in the loop every command is registered, only commands of earlier builds have no handler, and one whose `Run` returns has room to report it. `DrawsTickets`: the steps of ping implement `Tickets`. `InterruptEnds`: an interrupt ends the process, whatever the clean-up meets |
| `startup` | every environment of missing, empty, zero, malformed and good texts for nine keys of the configuration, and every small environment of a type with all constructs of the decoder; up to 3 guilds in pages of 2 | `DecodedAsWritten`: with the optional structures closed, decoding fails exactly on a text that does not parse, and else stores what is written and no more. `ServesOnlyComplete`: the bot starts only with all it needs, on a database it can migrate. `ExitTruthful`: a normal exit means every guild was listed and nothing else done; no service is called with an unusable environment; a usable one is not refused |

`tracker_safety` also checks `UsesSet`, the other half of `ImplementsTransaction` (section 2).

Runs in which TLC finds the stated property violated by what the code does:

| run | the repository says | the code does |
|---|---|---|
| `early_subscriber_told` | README: "Notify on finished downloads" | a second dialog for the same magnet can be the one whose `Set` sees the completion; it throws the result away, so the first subscriber is never told |
| `echo_returns` | "Echo returns immediately, then makes an announcement after a specified delay" | one refused announcement, or one echo before `Run` has made the map, leaves the mutex locked and blocks all later ones |
| `categories_readded` | "Readd labels and categories" | the scraper brings no categories and those read from the table are never loaded, so its first update deletes what the user chose |

Some weaker points have no run of their own, because the code makes no claim that a property
could state; the properties above name them as exceptions, or the models contain them.

* A torrent that is already finished when first stored, or a subscription that comes after
  the completion was recorded, is never notified (`Timely`).
* A completion whose COMMIT takes effect but is answered by an error is never announced: `Set`
  returns false (torrents.go:340), the poll is given up (polly.go:102), and the next one reads
  the date (`ScrapeUnheard`). The process runs on, and no call of the notifier has failed.
* A channel written to after the collector's pass has read its row is still closed in that
  pass (`GcClose`).
* A `Set` that is overtaken between its DELETE and its UPDATE leaves the other's categories
  beside its own (`over`). One that writes nothing drops them: a second dialog with the
  proposed name and another category, before anything is downloaded, is thanked and its
  category is not stored (`Read`).
* The torrents listed after a refused one are never stored (`Ahead`).
* The modal shows "Book" among the categories (add_torrent.go:108), which `validCategories`
  has not (:56), so the submission is refused (`Valid`).
* The clean-up of the session removes no command, so a guild keeps those of every build
  that ever ran (`Identified`).
* "cockroachdb" is a valid database type (config.go:63), but no driver for its migration is
  linked (`Drivers`): the process ends after opening the database.
* The scraper's periods are decoded and then neither validated nor used, and a negative
  lifetime of private channels is valid (`DiscordValid`).
* The decoder drops an optional structure whose last field is absent (`OptionalsClosed`); the
  program's own configuration has none.

### Bounds, and why they are enough

* One torrent is enough for `tracker_safety`: rows of different torrents meet only in the
  scraper's loop and the notifier, and `tracker_liveness` has two for that, and one
  dialog, since what a second one can do to the first is the exception in `Timely`. Three dialogs and the
  scraper make four writers of one row, so a commit can be overtaken by newer and by older
  snapshots; the proofs of section 5 cover every number.
* `NotifyLimit` stands for 100. With 1 and two subscriptions the page is too small,
  which `tracker_safety` has; the page holds the one of `tracker_liveness`.
* `set`: two dialogs and the scraper are three callers, which is what a deadlock or
  an overtaking between two statements takes; two categories, so that two dialogs can
  bring the same or different ones. One title: the dialogs agree in it, and the scraper's first
  row has none. The proofs cover any number of each.
* `scraper`: three torrents have one before, one between and one after refused ones;
  eight rungs lead from 300 s to 2 s.
* `dialog`: two submissions for "at most one accepted", and a second dialog whose write
  of the map overlaps them. `Typed` has one category per branch.
* `bot`: two interactions, for two pings that overlap; two commands, of which one has a `Run`
  of its own; a leftover name that this build knows and one that it does not. The channel of
  errors holds one per command, as in the code.
* `startup`: three guilds with a page of two have a last page that is empty, partly filled or the
  first. Two to four texts for each key, one for each way the code tells them apart. The `Tested`
  type has a structure below a pointer and in a slice, with a pointer as its last field.
* Three echoes: one under way, one waiting for the mutex, one in the map. The
  conserved quantity has "at most one lost", which needs two candidates.
* `PageLimit` stands for 100. It holds both users; with a smaller one `IdleCollected` is
  false, since the page is unordered. The proof of `Consistent` covers every page.
* No counter is bounded by a guard. `fired`, `undone` and `told` are bounded because a
  dialog runs once and a poll holds each torrent once; the crashes
  that repeat polls cannot erase a date twice from one snapshot.
* Deadlock is checked where the system never stops (`tracker_*`, `messenger`, `scraper`, `bot`).
  In the others the process ends (`startup`), dialogs end, the bot stops (`RunStops`), and an abandoned mutex stops
  the echo command: those final states are legitimate or are what a property is about.

## 4. Fairness

Weak fairness says that a goroutine that can run does. It is assumed of the scraper,
the hand-over, the notifier, a dialog under way, the start of the process
(the deployment restarts it) and `BotReturns` (the loop selects on the context).
It is not assumed of users, of Transmission finishing a download, of interrupts or of any
failure. `Converges` and `TimelySubscriberTold` are conditioned on `Calm`: from some
time on no crash, no interrupt, no transaction of the scraper that is answered by an error, with or
without effect. A conflicting
insert (`ScrapeConflict`) is *not* excluded by it, since the code causes it by itself.

Echo: strong fairness of `HandleLock` and `RunLock`, because Go's mutex hands
over to a waiter that has waited for a millisecond (starvation mode) and so
cannot starve it. Weak fairness of the rest, and of the end of a delay.

Set: strong fairness of a call's statements. PostgreSQL queues those who wait for a row
and checks for deadlocks, so nobody is passed over for ever. Nothing is assumed of `Read`:
no one has to call. Scraper loop: weak fairness of polling and waking; `AheadStored` excuses
a torrent that changes, and calls that fail, again and again. Dialog: weak fairness of a
handler that was started, since each of its calls has a time limit; none of users, of
`GiveUp` or of the end of the process.

Bot: weak fairness of what `Run` and `main` do by themselves (`Proceed`: calls to Discord return),
of the end of a pass of the collector, and of each handler, whose calls have a time limit.
Strong fairness of `LeaveLoop`: the select takes any of its ready cases, so the cancelled
context is not passed over for ever in favour of ticks. None of users, interrupts, failures or of
commands whose `Run` returns. `Startup` has no liveness.

Messenger: weak fairness of the collector's steps (the ticker) and of a message
under way; nobody has to write again. With a fault, or with a page smaller than the table,
`IdleCollected` is not claimed: the code promises nothing there.

## 5. Proofs

TLAPS proves, for every value of the constants that meets the named assumptions (`Link` is a
function from requests to torrents, limits are positive, recipients are a function of the
senders, each submission is of one dialog, the periods are ordered and positive, a rung of the
ladder is at least half of the one above, the commands are finitely many, ping is one and so
are those with a `Run`, the decoder keeps its contract, guilds are counted by a natural number,
the default endpoint is a good URL, and no actor has the name of another or of a marker such as
"free"):

| theorem | property | argument |
|---|---|---|
| `TypeCorrect` | `TypeOK` of TorrentTracker | inductive by itself; `CommitEffect` says what a commit does to `row` and `undone` |
| `NoticesAreTrue` | `NoFalseCompletion` | `Honest`: every status anyone holds (row, poll, dialog snapshot, the notifier's torrent, a pending send) is `UpTo` Transmission's. `NoFalseCompletion` alone is not inductive, since a snapshot is committed long after it was taken |
| `ThanksAreKept` | `ThankedIsSubscribed` | `Recorded`: a dialog past its commit has a row, past its subscription an entry; a commit never removes a row (`CommitKeepsRows`) |
| `TrackerKeepsLedger` | `KeepsLedger` | step by step: `CommitBooks` says which entry a commit is (an erasure, a date, a report or nothing). `Accounted` gives the guards of `Report` and `Tell`, which no action of the code tests: it counts what is on its way, since a completion in the send, in the notifier's hands or among `pending` is not told yet, and a row with no date has one completion less. It needs `Honest` |
| `BooksBalance`, `BooksStayBalanced`, `NoticesAreAccountedFor` | `Balanced` of CompletionLedger; the same of `Books(r)`; `NoticesAccounted`, its bound on notices in the tracker's own variables | inductive in the abstract module, where it takes a line (`BalancedStep`). The refinement carries it over to the program, where the bound alone would not be inductive |
| `DueIsDelivered` | `NeverDropped` | what is due moves from the row to the send, the notifier and its page. A commit of the scraper with the row still loading reports (`Due` has what it read); no dialog can take the report, since none is left; the page is all subscribers, since they are no more than the limit (`PageIsAll`, which counts a finite set); and the send needs a notifier that is there or a process that ends. A commit whose answer is an error moves it to `Unheard` instead, which is the exception the property names |
| `SendsAreReceived` | `SendHasReceiver`, the safety half of `SendReturns` | `Connected`: the send starts only with a channel, the notifier is there once the hooks have run and leaves only on a cancelled context |
| `SettledStays` | `SettledForGood` | the action property, from `Honest`: with no older snapshot left every commit writes "done", and a new snapshot of a finished torrent is "done" |
| `TrackerUsesSet` | `UsesSet` | each step reads, commits or aborts for the torrent it touches and stutters for the others; the end of the process aborts all. An insert commits only while there is no row, which is the guard of `SetTransaction` |
| `RowsAreKept` | `RowsStay` | an action property: no step takes a row away. It follows from the contract of `Set` (`SetKeepsRow`) without a look at the actors |
| `SetIsExact` | `ExactUnlessOvertaken` | `Ordered`: the row is locked exactly by those past their write. `Exact`: while nobody commits, what a call has found or deleted is all there is, and a record that was equal still is |
| `SetDeadlocksNeedThird` | `DeadlockNeedsThird` | `Pending`: what a call has still to delete is there and not yet deleted by it. `NoCircle`: with nobody overtaken, who holds the row waits for none, so in a circle everybody waits for a category that another has deleted while that one has a second one left to delete. That takes no induction along the circle: one link of it is enough |
| `SetIsTransaction` | `ImplementsTransaction` | from the same invariant: statements are stutters, `Commit` and `CommitUnchanged` commit, each kind of rollback aborts |
| `SetWritesFit` | `WritesFit`: an insert is committed only where there is no row, an update only over one | `RowKept`, inductive in `SetTransaction` and carried over: a row that was read is there. The key keeps an insert from a row that came meanwhile |
| `SetsGetOn` | `NobodyStuck`, the safety half of `SetReturns` | `WaitsForSomeone`: by `Ordered` and `Pending` whoever holds the row or has deleted a category is under way, so a call whose statement cannot go on waits for another such call. If none can go on, the set of all of them is `Deadlocked` by its definition, without induction or finiteness |
| `SubmissionsTogether` | `AcceptedTogether` | `Deleted`: an accepted submission is under way, or its identifier is out of the map, or its deletion was lost; `Shown`: a modal is submitted only after its handler has shown it, which is after its store and leaves at most an error to answer, so it does not store again |
| `SubmissionsFound` | `FirstIsFound` | `Stored`: once it was stored, an identifier is in the map until the process ends, its store is lost or a submission is accepted; with `Shown`, as a submission needs a modal that is shown |
| `IdentifiersAreFreed` | `FreedWhenOver`, the safety half of `IdentifierFreed` | a part of `Deleted` |
| `PeriodRecovers` | `TypeOK`, `Recovers` of ScraperLoop | inductive together: one halving is one rung (`HalveEffect`) |
| `PollsStoreAhead` | `PollsAhead`, the safety half of `AheadStored` | `Positioned`: a poll has the list from some k on before it, and behind it only torrents that are not bad and that are stored unless they changed since (`StoreAdvances`). It stops at the end or at a bad torrent, and either way what is `Ahead` is behind it |
| `EchoMutex` | `Exclusive` | inductive with `TypeOK` |
| `EchoConserves` | `Conserved` | from `IInv`, with the sweep inside the map while it runs (`SweepFits`) and an announced job accepted (`AnnouncedAccepted`) |
| `ChannelsConsistent` | `Consistent` | inductive with `TypeOK` |
| `PassesComplete` | `PassIsComplete`, the safety half of `IdleCollected` | `Pass`: what is chosen has a row and is chosen once. With `Consistent` a close is refused, in calm, only for a row of a closed channel, which is then in `torn`. A table no larger than the page is read as a whole, since it is finite (`RecordedStep`) |
| `BotServesCommands` | `CommandsServed` | `Registering`: while commands are registered, those not left to do are in the guild, which never loses one. `Found`: the handlers are there from `New` on, so the registration does not matter. `Reported`: what is in the channel of errors and the commands that have not returned are together no more than the commands with a `Run`, hence than its places, which counts a finite set |
| `BotAnswersTruthfully` | `AnswersTruthful` | `Answered`: who responds has worked, and an acknowledged interaction is over |
| `ShutdownAdvances` | `OnlyForward`, the safety half of `InterruptEnds` | once cancelled, no step goes back to an earlier `Phase` or adds to `todo`; `DownIsCalm` excludes a restart that would be interrupted already. With `Commands` finite, this is the measure by which an interrupt ends the process |
| `PingsDrawTickets` | `DrawsTickets` | the number is drawn at `PingCount`: `Locked` says that one ping at most is between counting and reading, `Unread` that a ping has no number before; the end of the process is `Restart` |
| `PongsDiffer` | `PongsDistinct`: numbers are distinct and none is skipped | `OneEach`, inductive in `Tickets`, where a draw is one step; the refinement carries it over to the two steps of the code |
| `EchoTypes`, `MessengerTypes`, `SetTypes`, `DialogTypes`, `ScraperTypes`, `BotTypes` | `TypeOK` of each | part of the inductive invariants |
| `StartupTypes`, `CompleteIsServed`, `ExitIsTruthful` | `TypeOK`, `ServesOnlyComplete`, `ExitTruthful` of Startup | `Decoded`: past `Decode`, the configuration is what the decoder returned. `Validated`, `Refused`: past `Validate` it is valid, and what was refused was not. `Listed`: what is listed are the first guilds without a gap, all of them after a page that is not full. `Untouched`: no service is called before its step. `ValidIsUsable` turns the code's checks into what a service needs |
| `AloneIsClean` | `CleanWhenAlone` | `Tidy`: for a user with one sender, the collector holds the row only while it is there, and a sender that found no row is the only one that could add it |
| `MessagesLostTo` | `LossesExplained` | an action property, from `Consistent` and `Tidy`: without a failure a message is given up only where its row was made by another writer, or its channel was closed between lookup and post; a lone writer has no one but the collector to lose it to |

Only model-checked: all liveness (`Converges`, `TimelySubscriberTold`, `SendReturns`,
`SetReturns`, `AheadStored`, `IdentifierFreed`, `HandlersReturn`, `AcceptedIsAnnounced`,
`IdleCollected`, `InterruptEnds`), since ENABLED and fairness are beyond the prover, though
most of them have the part that is safety proved above: what is due is not dropped, who sends
has a receiver, a call waits only for one that is under way, a poll reaches what is ahead, a
pass of the collector is complete, an identifier is freed on the way out, an interrupted
process does not turn back; and for `HandlersReturn`, `AcceptedIsAnnounced` and `Converges`,
`Exclusive` (who holds the mutex is inside or has abandoned it), `Conserved` and
`SettledForGood`. What remains to TLC is that fairness then carries each of them to its end;
`DecodedAsWritten` and that the decoder keeps its contract, because it is recursive over types,
and what a recursive definition yields for every type is an induction that the provers here
cannot do; and the violated properties, which have counterexamples.

## 6. Not modelled, and why

* Generated gRPC code (its handlers answer "unimplemented"), migrations and deployment files carry
  no logic of the program; the keys of the schema are in the guards.
* `Torrent.String`: a pure function of two counters. Its percentage is the truncation of a float32
  product, for which TLA+ has no numbers; with exact fractions in its place the model would
  not be of this code.
* `Torrent.Get` and the two `Diff` functions have no caller. `GetTorrents` is a query without effect,
  with a limit of ten.
* Magnet parsing and the formatting of the connection string are calls of `net/url`; whether a
  text parses is a choice in `AddDialog` and `Startup`. The truncation of the proposed name is left out.
* The accessors of `Context` keep no state.
* Transmission numbering its torrents anew: the models identify a torrent by its number.

## 7. Plan

What is left would add detail, not another component:

1. The composition of the tracker with the messenger. `MessagesLostTo` says what the messenger
   loses a message to; in the tracker that is a failed notice, which `NeverDropped` names.
2. `Torrent.String` at its boundaries, if a model of binary floats is written for it.
