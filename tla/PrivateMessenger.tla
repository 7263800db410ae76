-------------------------- MODULE PrivateMessenger --------------------------
(***************************************************************************)
(* Private channels with users (pkg/discord/private_message.go, table      *)
(* private_channels): SendMessage finds or makes the recipient's channel,  *)
(* posts and bumps the row; garbageCollect, run by the bot's loop, closes  *)
(* the channels that were idle for longer than the TTL and deletes their   *)
(* rows.  Senders are the command handlers and the notifier, each in a     *)
(* goroutine of its own; nothing orders them with the collector.           *)
(*                                                                         *)
(* Discord has one private channel per user, so the channel is identified  *)
(* with its recipient.  Closing it and writing its row are two calls to    *)
(* two systems: the histories torn and leaked name the recipients for whom *)
(* they came apart.                                                        *)
(***************************************************************************)
EXTENDS Naturals, FiniteSets

CONSTANTS
  Senders,     \* goroutines that send private messages, one after the other
  Recipients,  \* users
  To,          \* To[s]: whom s writes to
  PageLimit,   \* the LIMIT of GetPrivateChannels (100 in the code)
  Faults       \* "call": a call may fail; "crash": the process may end

ASSUME ToAssumption == To \in [Senders -> Recipients]
ASSUME PageAssumption == PageLimit \in Nat \ {0}
ASSUME FaultsAssumption == Faults \subseteq {"call", "crash"}

VARIABLES
  rows,    \* table: [Recipients -> {"none", "fresh", "idle"}], by the TTL
  open,    \* Discord: the channel with the recipient is open
  pc,      \* senders
  gcPc,    \* the collector
  page,    \* the channels it found idle and has not visited
  cur,     \* the channel it has closed and not yet forgotten
  torn,    \* history: rows left behind for a closed channel
  leaked,  \* history: open channels left behind without a row
  calm     \* history: nothing has failed but what the program caused itself

gcVars == <<gcPc, page, cur>>
vars == <<rows, open, pc, gcPc, page, cur, torn, leaked, calm>>

-----------------------------------------------------------------------------
(* SendMessage.                                                            *)

Goto(s, l) == pc' = [pc EXCEPT ![s] = l]

\* Mutant: the table is not consulted.
LookupNever(s) ==
  /\ pc[s] = "ready"
  /\ Goto(s, "missing")
  /\ UNCHANGED <<rows, open, gcVars, torn, leaked, calm>>

\* The transaction looks for the recipient's row.
Lookup(s) ==
  /\ pc[s] = "ready"
  /\ Goto(s, IF rows[To[s]] = "none" THEN "missing" ELSE "found")
  /\ UNCHANGED <<rows, open, gcVars, torn, leaked, calm>>

\* UserChannelCreate opens the channel or returns the open one.
OpenChannel(s) ==
  /\ pc[s] = "missing"
  /\ Goto(s, "opened")
  /\ open' = [open EXCEPT ![To[s]] = TRUE]
  /\ torn' = torn \ {To[s]}
  /\ UNCHANGED <<rows, gcVars, leaked, calm>>

\* The row is inserted and the transaction commits.  The collector may have
\* closed the channel meanwhile, on behalf of another sender's older row.
Record(s) ==
  /\ pc[s] = "opened" /\ rows[To[s]] = "none"
  /\ Goto(s, "found")
  /\ rows' = [rows EXCEPT ![To[s]] = "fresh"]
  /\ torn' = IF open[To[s]] THEN torn ELSE torn \cup {To[s]}
  /\ leaked' = leaked \ {To[s]}
  /\ UNCHANGED <<open, gcVars, calm>>

\* Another sender inserted the recipient first: the message is given up.
RecordConflict(s) ==
  /\ pc[s] = "opened" /\ rows[To[s]] # "none"
  /\ Goto(s, "failed")
  /\ UNCHANGED <<rows, open, gcVars, torn, leaked, calm>>

Post(s) ==
  /\ pc[s] = "found" /\ open[To[s]]
  /\ Goto(s, "posted")
  /\ UNCHANGED <<rows, open, gcVars, torn, leaked, calm>>

\* The channel has been closed: the message is given up, the row stays.
PostFails(s) ==
  /\ pc[s] = "found" /\ ~open[To[s]]
  /\ Goto(s, "failed")
  /\ UNCHANGED <<rows, open, gcVars, torn, leaked, calm>>

\* Mutant: the time of the last message is nulled.
BumpNull(s) ==
  /\ pc[s] = "posted"
  /\ Goto(s, "done")
  /\ rows' = [rows EXCEPT ![To[s]] = "null"]
  /\ UNCHANGED <<open, gcVars, torn, leaked, calm>>

\* The update finds no row when the collector has deleted it.
Bump(s) ==
  /\ pc[s] = "posted"
  /\ Goto(s, "done")
  /\ rows' = [rows EXCEPT ![To[s]] = IF @ = "none" THEN "none" ELSE "fresh"]
  /\ UNCHANGED <<open, gcVars, torn, leaked, calm>>

\* The goroutine has another message to send.
Again(s) ==
  /\ pc[s] \in {"done", "failed"}
  /\ Goto(s, "ready")
  /\ UNCHANGED <<rows, open, gcVars, torn, leaked, calm>>

\* s has opened a channel that no row names.
LeavesOpen(s) == pc[s] = "opened" /\ open[To[s]] /\ rows[To[s]] = "none"

\* A call to the database or to Discord fails: the message is given up.
SendFails(s) ==
  /\ "call" \in Faults
  /\ pc[s] \in {"ready", "missing", "opened", "found", "posted"}
  /\ Goto(s, "failed")
  /\ leaked' = IF LeavesOpen(s) THEN leaked \cup {To[s]} ELSE leaked
  /\ calm' = FALSE
  /\ UNCHANGED <<rows, open, gcVars, torn>>

-----------------------------------------------------------------------------
(* garbageCollect, called every ten seconds by the bot's loop.             *)

\* A channel is not written to for longer than the TTL.
Age(r) ==
  /\ rows[r] = "fresh"
  /\ rows' = [rows EXCEPT ![r] = "idle"]
  /\ UNCHANGED <<open, pc, gcVars, torn, leaked, calm>>

Recorded == {r \in Recipients : rows[r] # "none"}
\* Mutant: the comparison of times is the wrong way round.
IdleInverted == {r \in Recipients : rows[r] = "fresh"}
Idle == {r \in Recipients : rows[r] = "idle"}

\* The rows are read, unordered and limited; which of them are idle is judged
\* by the times read here.
GcRead ==
  /\ gcPc = "sleep"
  /\ gcPc' = "visit"
  /\ \E S \in SUBSET Recorded :
       /\ Cardinality(S) = PageLimit \/ (S = Recorded /\ Cardinality(S) < PageLimit)
       /\ page' = S \cap Idle
  /\ UNCHANGED <<rows, open, pc, cur, torn, leaked, calm>>

\* Discord closes the channel; it may do so for one that is closed already.
GcClose(r) ==
  /\ gcPc = "visit" /\ r \in page
  /\ gcPc' = "forget"
  /\ cur' = r
  /\ page' = page \ {r}
  /\ open' = [open EXCEPT ![r] = FALSE]
  /\ UNCHANGED <<rows, pc, torn, leaked, calm>>

\* Mutant: the row of a closed channel is kept.
GcForgetNothing ==
  /\ gcPc = "forget"
  /\ gcPc' = "visit"
  /\ UNCHANGED <<rows, open, pc, page, cur, torn, leaked, calm>>

GcForget ==
  /\ gcPc = "forget"
  /\ gcPc' = "visit"
  /\ rows' = [rows EXCEPT ![cur] = "none"]
  /\ torn' = torn \ {cur}
  /\ leaked' = IF open[cur] THEN leaked \cup {cur} ELSE leaked
  /\ UNCHANGED <<open, pc, page, cur, calm>>

GcDone ==
  /\ gcPc = "visit" /\ page = {}
  /\ gcPc' = "sleep"
  /\ UNCHANGED <<rows, open, pc, page, cur, torn, leaked, calm>>

\* A failed call ends the pass, also for the channels not visited yet.
GcEnds ==
  /\ gcPc' = "sleep"
  /\ page' = {}
  /\ UNCHANGED <<rows, open, pc, cur>>

\* Discord refuses to close a channel, possibly because it is closed.
GcCloseFails(r) ==
  /\ gcPc = "visit" /\ r \in page
  /\ "call" \in Faults \/ ~open[r]
  /\ GcEnds
  /\ calm' = IF open[r] THEN FALSE ELSE calm
  /\ UNCHANGED <<torn, leaked>>

\* The row cannot be deleted.
GcForgetFails ==
  /\ "call" \in Faults
  /\ gcPc = "forget"
  /\ GcEnds
  /\ torn' = torn \cup {cur}
  /\ calm' = FALSE
  /\ UNCHANGED leaked

\* The process ends and starts again; the table and Discord stay.
Crash ==
  /\ "crash" \in Faults
  /\ pc' = [s \in Senders |-> "ready"]
  /\ gcPc' = "sleep"
  /\ page' = {}
  /\ torn' = IF gcPc = "forget" THEN torn \cup {cur} ELSE torn
  /\ leaked' = leaked \cup {To[s] : s \in {q \in Senders : LeavesOpen(q)}}
  /\ calm' = FALSE
  /\ UNCHANGED <<rows, open, cur>>

-----------------------------------------------------------------------------

Init ==
  /\ rows = [r \in Recipients |-> "none"]
  /\ open = [r \in Recipients |-> FALSE]
  /\ pc = [s \in Senders |-> "ready"]
  /\ gcPc = "sleep"
  /\ page = {}
  /\ cur \in Recipients
  /\ torn = {}
  /\ leaked = {}
  /\ calm = TRUE

Send(s) ==
  \/ Lookup(s) \/ OpenChannel(s) \/ Record(s) \/ RecordConflict(s)
  \/ Post(s) \/ PostFails(s) \/ Bump(s)

Collect ==
  \/ GcRead \/ GcForget \/ GcDone
  \/ \E r \in Recipients : GcClose(r)

Next ==
  \/ \E s \in Senders : Send(s) \/ Again(s) \/ SendFails(s)
  \/ \E r \in Recipients : Age(r) \/ GcCloseFails(r)
  \/ Collect \/ GcForgetFails
  \/ Crash

\* The bot's loop keeps ticking, and a message under way gets on.
Fairness == WF_vars(Collect) /\ \A s \in Senders : WF_vars(Send(s))

Spec == Init /\ [][Next]_vars /\ Fairness

-----------------------------------------------------------------------------

TypeOK ==
  /\ rows \in [Recipients -> {"none", "fresh", "idle"}]
  /\ open \in [Recipients -> BOOLEAN]
  /\ pc \in [Senders -> {"ready", "missing", "opened", "found", "posted", "done", "failed"}]
  /\ gcPc \in {"sleep", "visit", "forget"}
  /\ page \subseteq Recipients
  /\ cur \in Recipients
  /\ torn \subseteq Recipients
  /\ leaked \subseteq Recipients
  /\ calm \in BOOLEAN

\* The table and Discord agree on every recipient, except while the collector
\* is between its two deletes or a sender between its two inserts, and for the
\* recipients that such a pair, cut short or interleaved with another, left.
Consistent ==
  \A r \in Recipients :
    /\ rows[r] # "none" /\ ~open[r] => r \in torn \/ (gcPc = "forget" /\ cur = r)
    /\ open[r] /\ rows[r] = "none" =>
         r \in leaked \/ \E s \in Senders : pc[s] = "opened" /\ To[s] = r

\* Nobody else writes to the recipient of s.
Alone(s) == \A q \in Senders : To[q] = To[s] => q = s

\* Until the first failing call or crash nothing is left behind for a recipient
\* that only one goroutine writes to, however sending and collecting interleave.
CleanWhenAlone ==
  calm => \A s \in Senders : Alone(s) => To[s] \notin torn \cup leaked

\* An idle channel is used again or collected, unless something fails or a row
\* names a closed channel, whose collection Discord may refuse.
IdleCollected ==
  \A r \in Recipients :
    rows[r] = "idle" ~> rows[r] # "idle" \/ ~calm \/ torn # {}

=============================================================================
