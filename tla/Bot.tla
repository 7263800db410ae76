-------------------------------- MODULE Bot --------------------------------
(***************************************************************************)
(* Bot.Run (pkg/discord/discord.go) inside main.go: it registers the       *)
(* commands with the guild, starts the commands that run by themselves,    *)
(* answers interactions, and cleans up when it is interrupted.             *)
(*                                                                         *)
(* Discord keeps the registered commands when the process ends, and gives  *)
(* an interaction up after three seconds; the dispatcher gives its handler *)
(* ten.  Each interaction runs in a goroutine of its own.  The handlers    *)
(* here are those of ping, whoami and get-all; add-torrent and echo have   *)
(* modules of their own.                                                   *)
(***************************************************************************)
EXTENDS Integers, FiniteSets

CONSTANTS
  Commands,      \* names of the commands of this build, keys of baseHandles
  InitCommands,  \* those that have a Run of their own
  Leftover,      \* names registered by earlier builds
  Interactions,  \* one per command that a user gives
  Faults         \* the kinds of failure that may happen in a behaviour

ASSUME CommandsAssumption ==
  IsFiniteSet(Commands) /\ InitCommands \subseteq Commands /\ "ping" \in Commands
ASSUME FreeAssumption == "free" \notin Interactions
ASSUME FaultsAssumption ==
  Faults \subseteq {"crash", "interrupt", "register", "hook", "init", "handler"}

VARIABLES
  guild,      \* the commands Discord has for the guild
  life,       \* how far Bot.Run is
  todo,       \* the commands that its loop over baseHandles has not reached
  cancelled,  \* the root context is cancelled
  running,    \* commands whose Run has not returned
  errChan,    \* errors in the channel of that name
  count,      \* the counter of ping
  lock,       \* who holds its mutex
  asked,      \* the name of the command of each interaction, "" for none yet
  pc,         \* where each interaction is
  number,     \* the number a ping has read, 0 for none; gone with the process
  answer,     \* what the user sees; "late" when Discord has given up
  worked,     \* history: the message is sent, the list or the number is read
  acked       \* history: the program was told that its response arrived

lifeVars == <<guild, life, todo, cancelled, running, errChan>>
pingVars == <<count, lock, number>>
userVars == <<asked, answer, worked, acked>>
vars == <<guild, life, todo, cancelled, running, errChan, count, lock,
          asked, pc, number, answer, worked, acked>>

-----------------------------------------------------------------------------
(* The life of the process.                                                *)

Running == life # "down"

\* Handlers are called from session.Open to session.Close.
Listening == life \in {"registering", "loop", "collecting", "cleaning"}

Idle == {"new", "done", "failed", "unheard", "unrouted", "lost"}

\* main has read the configuration, and Bot.Run opens the session.
Open ==
  /\ life = "down"
  /\ life' = "registering"
  /\ todo' = Commands
  /\ UNCHANGED <<guild, cancelled, running, errChan, pingVars, pc, userVars>>

\* One command is registered, and its Run is started.
Register(c) ==
  /\ life = "registering" /\ c \in todo
  /\ guild' = guild \cup {c}
  /\ todo' = todo \ {c}
  /\ running' = running \cup ({c} \cap InitCommands)
  /\ UNCHANGED <<life, cancelled, errChan, pingVars, pc, userVars>>

\* Mutant: a command that is refused is skipped.
RegisterSkips ==
  /\ "register" \in Faults
  /\ life = "registering"
  /\ \E c \in todo : todo' = todo \ {c}
  /\ UNCHANGED <<guild, life, cancelled, running, errChan, pingVars, pc, userVars>>

\* Discord refuses a command: Run returns before it has deferred the clean-up.
RegisterFails ==
  /\ "register" \in Faults
  /\ life = "registering" /\ todo # {}
  /\ life' = "returned"
  /\ UNCHANGED <<guild, todo, cancelled, running, errChan, pingVars, pc, userVars>>

\* The OnStart hooks run; an error of one leaves, with the clean-up.
RunHooks ==
  /\ life = "registering" /\ todo = {}
  /\ \/ life' = "loop" /\ UNCHANGED todo
     \/ "hook" \in Faults /\ life' = "cleaning" /\ todo' = Commands
  /\ UNCHANGED <<guild, cancelled, running, errChan, pingVars, pc, userVars>>

\* A pass of the private messenger's collector, within the loop.
Collect ==
  /\ \/ life = "loop" /\ life' = "collecting"
     \/ life = "collecting" /\ life' = "loop"
  /\ UNCHANGED <<guild, todo, cancelled, running, errChan, pingVars, pc, userVars>>

\* The Run of a command returns, and its goroutine sends the error; the channel
\* holds one for each command.
InitReturns(c) ==
  /\ c \in running
  /\ "init" \in Faults \/ cancelled
  /\ errChan < Cardinality(Commands)
  /\ running' = running \ {c}
  /\ errChan' = errChan + 1
  /\ UNCHANGED <<guild, life, todo, cancelled, pingVars, pc, userVars>>

\* Mutant: the loop does not wait for an error.
HearErrorAlways ==
  /\ life = "loop"
  /\ errChan' = errChan - 1
  /\ UNCHANGED <<guild, life, todo, cancelled, running, pingVars, pc, userVars>>

\* The loop logs the error of a command and goes on.
HearError ==
  /\ life = "loop" /\ errChan > 0
  /\ errChan' = errChan - 1
  /\ UNCHANGED <<guild, life, todo, cancelled, running, pingVars, pc, userVars>>

Interrupt ==
  /\ "interrupt" \in Faults
  /\ Running /\ ~cancelled
  /\ cancelled' = TRUE
  /\ UNCHANGED <<guild, life, todo, running, errChan, pingVars, pc, userVars>>

LeaveLoop ==
  /\ life = "loop" /\ cancelled
  /\ life' = "cleaning"
  /\ todo' = Commands
  /\ UNCHANGED <<guild, cancelled, running, errChan, pingVars, pc, userVars>>

\* The commands whose entry in baseHandles has the identifier that Discord gave:
\* none, since it is written to the loop's copy of the entry.
Identified == {}

\* Mutant: a deletion that fails is tried again.
DeleteRetries(c) ==
  /\ life = "cleaning" /\ c \in todo
  /\ guild' = guild \ ({c} \cap Identified)
  /\ todo' = todo \ ({c} \cap Identified)
  /\ UNCHANGED <<life, cancelled, running, errChan, pingVars, pc, userVars>>

\* The clean-up deletes a command by its identifier; without one Discord
\* refuses, which is logged.
Delete(c) ==
  /\ life = "cleaning" /\ c \in todo
  /\ guild' = guild \ ({c} \cap Identified)
  /\ todo' = todo \ {c}
  /\ UNCHANGED <<life, cancelled, running, errChan, pingVars, pc, userVars>>

\* Run closes the session and returns.
CloseSession ==
  /\ life = "cleaning" /\ todo = {}
  /\ life' = "returned"
  /\ UNCHANGED <<guild, todo, cancelled, running, errChan, pingVars, pc, userVars>>

\* The process ends, and everything in it.
Halt ==
  /\ life' = "down"
  /\ todo' = {}
  /\ cancelled' = FALSE
  /\ running' = {}
  /\ errChan' = 0
  /\ count' = 0
  /\ lock' = "free"
  /\ number' = [i \in Interactions |-> 0]
  /\ pc' = [i \in Interactions |-> IF pc[i] \in Idle THEN pc[i] ELSE "lost"]
  /\ UNCHANGED <<guild, userVars>>

\* main receives what Run returned, sees the channel closed and returns.
MainReturns == life = "returned" /\ Halt

\* The scraper's error on the cancelled context is fatal to the process.
ScraperFatal == cancelled /\ Halt

Crash == "crash" \in Faults /\ Running /\ Halt

-----------------------------------------------------------------------------
(* Dispatch.                                                               *)

Go(i, from, to) == pc[i] = from /\ pc' = [pc EXCEPT ![i] = to]

\* Mutant: a command is dispatched only once it is registered.
HandledRegistered == Commands \ todo

\* The names that baseHandles knows, from New on.
Handled == Commands

\* A user gives a command that the guild has.  One without a handler is logged
\* and not answered; for an interaction without a member that is an error.
Ask(i) ==
  /\ Listening
  /\ \E c \in guild :
       /\ asked' = [asked EXCEPT ![i] = c]
       /\ \/ c \notin Handled /\ Go(i, "new", "unrouted")
          \/ c \in Handled /\ Go(i, "new", IF c = "ping" THEN "counting" ELSE "working")
          \/ c \in Handled /\ "handler" \in Faults /\ Go(i, "new", "erring")
  /\ UNCHANGED <<lifeVars, pingVars, answer, worked, acked>>

\* Mutant: the counter is read after the mutex is released.
PingCountUnlocks(i) ==
  /\ lock = "free"
  /\ Go(i, "counting", "counted")
  /\ count' = count + 1
  /\ UNCHANGED <<lifeVars, lock, number, userVars>>

PingCount(i) ==
  /\ lock = "free" /\ lock' = i
  /\ Go(i, "counting", "counted")
  /\ count' = count + 1
  /\ UNCHANGED <<lifeVars, number, userVars>>

PingRead(i) ==
  /\ Go(i, "counted", "responding")
  /\ number' = [number EXCEPT ![i] = count]
  /\ lock' = "free"
  /\ worked' = worked \cup {i}
  /\ UNCHANGED <<lifeVars, count, asked, answer, acked>>

\* whoami sends its private message, get-all queries the table.  Either may
\* fail or panic, and fails when the context is over: after ten seconds, of which
\* Discord waits for three, or when the process is interrupted.
Work(i) ==
  /\ \/ Go(i, "working", "responding") /\ worked' = worked \cup {i}
     \/ /\ "handler" \in Faults \/ cancelled \/ answer[i] = "late"
        /\ Go(i, "working", "erring")
        /\ UNCHANGED worked
  /\ UNCHANGED <<lifeVars, pingVars, asked, answer, acked>>

\* A response takes effect if it is the first and Discord still waits.
Shown(i, a) == answer[i] = "none" /\ answer' = [answer EXCEPT ![i] = a]

\* Mutant: the handler responds before its work.
RespondFirst(i) ==
  /\ Go(i, "working", "responding")
  /\ Shown(i, "reply")
  /\ acked' = acked \cup {i}
  /\ UNCHANGED <<lifeVars, pingVars, asked, worked>>

\* The handler's response, its last step: shown and acknowledged; shown, with the
\* acknowledgement lost; or not shown, which is an error as well.
Respond(i) ==
  /\ \/ /\ Go(i, "responding", "done")
        /\ Shown(i, "reply")
        /\ acked' = acked \cup {i}
     \/ /\ Go(i, "responding", "erring")
        /\ Shown(i, "reply") \/ UNCHANGED answer
        /\ UNCHANGED acked
  /\ UNCHANGED <<lifeVars, pingVars, asked, worked>>

\* The dispatcher responds with the error, and ignores what becomes of it.
AnswerError(i) ==
  /\ \/ Go(i, "erring", "failed") /\ Shown(i, "error")
     \/ /\ Go(i, "erring", IF answer[i] = "none" THEN "unheard" ELSE "failed")
        /\ UNCHANGED answer
  /\ UNCHANGED <<lifeVars, pingVars, asked, worked, acked>>

\* Three seconds are over, and the handler is still at it.
GiveUp(i) ==
  /\ pc[i] \notin Idle /\ answer[i] = "none"
  /\ answer' = [answer EXCEPT ![i] = "late"]
  /\ UNCHANGED <<lifeVars, pingVars, asked, pc, worked, acked>>

-----------------------------------------------------------------------------

Init ==
  /\ guild = Leftover
  /\ life = "down"
  /\ todo = {}
  /\ cancelled = FALSE
  /\ running = {}
  /\ errChan = 0
  /\ count = 0
  /\ lock = "free"
  /\ asked = [i \in Interactions |-> ""]
  /\ pc = [i \in Interactions |-> "new"]
  /\ number = [i \in Interactions |-> 0]
  /\ answer = [i \in Interactions |-> "none"]
  /\ worked = {}
  /\ acked = {}

\* What Run and main do by themselves.
Proceed ==
  \/ \E c \in Commands : Register(c) \/ Delete(c)
  \/ RunHooks \/ LeaveLoop \/ CloseSession \/ MainReturns

Handle(i) ==
  \/ PingCount(i) \/ PingRead(i) \/ Work(i) \/ Respond(i) \/ AnswerError(i)

Next ==
  \/ Open
  \/ Proceed
  \/ RegisterFails
  \/ Collect
  \/ HearError
  \/ Interrupt \/ ScraperFatal \/ Crash
  \/ \E c \in InitCommands : InitReturns(c)
  \/ \E i \in Interactions : Ask(i) \/ Handle(i) \/ GiveUp(i)

\* Calls to Discord and a pass of the collector end.  The loop's select takes
\* any of its ready cases, so leaving it needs strong fairness.
Fairness ==
  /\ WF_vars(Proceed)
  /\ SF_vars(LeaveLoop)
  /\ WF_vars(life = "collecting" /\ Collect)
  /\ \A i \in Interactions : WF_vars(Handle(i))

Spec == Init /\ [][Next]_vars /\ Fairness

-----------------------------------------------------------------------------

TypeOK ==
  /\ guild \subseteq Commands \cup Leftover
  /\ life \in {"down", "registering", "loop", "collecting", "cleaning", "returned"}
  /\ todo \subseteq Commands
  /\ cancelled \in BOOLEAN
  /\ running \subseteq InitCommands
  /\ errChan \in Nat
  /\ count \in Nat
  /\ lock \in Interactions \cup {"free"}
  /\ asked \in [Interactions -> Commands \cup Leftover \cup {""}]
  /\ pc \in [Interactions ->
               Idle \cup {"counting", "counted", "working", "responding", "erring"}]
  /\ number \in [Interactions -> Nat]
  /\ answer \in [Interactions -> {"none", "reply", "error", "late"}]
  /\ worked \subseteq Interactions
  /\ acked \subseteq Interactions

\* What the user of i sees is what happened: a reply only when its work was done,
\* an error only when the handler failed; nothing is sent again once a response
\* was acknowledged; and an interaction that was handled is silent only when a
\* response did not arrive and the error that followed did not either.
AnswersTruthful ==
  \A i \in Interactions :
    /\ answer[i] = "reply" => i \in worked
    /\ answer[i] = "error" \/ pc[i] = "erring" => i \notin acked
    /\ pc[i] = "done" => answer[i] = "reply"

\* The commands of this build are served: the bot waits in its loop only when every
\* one is registered; and each finds its handler from the moment the session opens,
\* although Discord, which has kept them, may deliver one before it is registered
\* again.  Only those of earlier builds go without.  A command whose Run returns has
\* room to report it, however long nobody listens.
CommandsServed ==
  /\ life \in {"loop", "collecting"} => Commands \subseteq guild
  /\ \A i \in Interactions : pc[i] = "unrouted" => asked[i] \notin Commands
  /\ running # {} => errChan < Cardinality(Commands)

\* The number a ping will read, once it has counted.
Ticket == [i \in Interactions |-> IF pc[i] = "counted" THEN count ELSE number[i]]

Counter == INSTANCE Tickets WITH Clients <- Interactions, ticket <- Ticket

\* The steps of ping, among other pings and until the process ends, amount to
\* drawing the next number in one step: no two pongs have the same.
DrawsTickets == Counter!Spec

\* An interrupt ends the process, wherever Run is and whatever of the clean-up
\* fails.
InterruptEnds == cancelled ~> life = "down"

=============================================================================
