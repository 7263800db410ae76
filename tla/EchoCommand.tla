----------------------------- MODULE EchoCommand -----------------------------
(***************************************************************************)
(* The echo command (commands/echo.go): handlers put jobs into a map, the  *)
(* Run goroutine sweeps the map every second and announces the jobs whose  *)
(* delay is over.  One mutex protects the map, but Run creates the map     *)
(* without it, Run returns from a failed announcement without unlocking,   *)
(* and a handler that writes to the map before it exists panics while it   *)
(* holds the mutex (pkg/discord recovers the panic, not the mutex).        *)
(*                                                                         *)
(* Jobs are the echo interactions; their random identifiers are taken to   *)
(* be distinct.                                                            *)
(***************************************************************************)
EXTENDS Naturals

CONSTANTS
  Jobs,    \* echo interactions with a delay that parses
  Faults   \* {"send"} when Discord may refuse an announcement

ASSUME FaultsAssumption == Faults \subseteq {"send"}
\* A job is not one of the names used for the other states of the mutex.
ASSUME JobsAssumption == Jobs \cap {"free", "run"} = {}

VARIABLES
  made,       \* Run has created the map
  jobs,       \* the keys of the map
  due,        \* the jobs whose delay is over
  lock,       \* holder of the mutex, "free" if none
  runPc,      \* the Run goroutine
  sweep,      \* keys its range loop has not visited yet
  stopped,    \* the bot's context is cancelled
  hPc,        \* the handlers: [Jobs -> ...]
  announced   \* history: announcements made, per job

vars == <<made, jobs, due, lock, runPc, sweep, stopped, hPc, announced>>

-----------------------------------------------------------------------------
(* Handle, one goroutine per interaction.                                  *)

\* The interaction arrives; commands registered by an earlier process are
\* live as soon as the session is open, so it may come before Run starts.
HandleStart(j) ==
  /\ hPc[j] = "new"
  /\ hPc' = [hPc EXCEPT ![j] = "locking"]
  /\ UNCHANGED <<made, jobs, due, lock, runPc, sweep, stopped, announced>>

\* Mutant: the mutex taken for reading.
HandleLockShared(j) ==
  /\ hPc[j] = "locking"
  /\ lock' = j
  /\ hPc' = [hPc EXCEPT ![j] = "inside"]
  /\ UNCHANGED <<made, jobs, due, runPc, sweep, stopped, announced>>

HandleLock(j) ==
  /\ hPc[j] = "locking" /\ lock = "free"
  /\ lock' = j
  /\ hPc' = [hPc EXCEPT ![j] = "inside"]
  /\ UNCHANGED <<made, jobs, due, runPc, sweep, stopped, announced>>

\* The job is stored and the mutex released.
HandleStore(j) ==
  /\ hPc[j] = "inside" /\ made
  /\ jobs' = jobs \cup {j}
  /\ lock' = "free"
  /\ hPc' = [hPc EXCEPT ![j] = "stored"]
  /\ UNCHANGED <<made, due, runPc, sweep, stopped, announced>>

\* Writing to the nil map panics; the mutex stays locked.
HandlePanic(j) ==
  /\ hPc[j] = "inside" /\ ~made
  /\ hPc' = [hPc EXCEPT ![j] = "panicked"]
  /\ UNCHANGED <<made, jobs, due, lock, runPc, sweep, stopped, announced>>

HandleRespond(j) ==
  /\ hPc[j] = "stored"
  /\ hPc' = [hPc EXCEPT ![j] = "returned"]
  /\ UNCHANGED <<made, jobs, due, lock, runPc, sweep, stopped, announced>>

\* The delay of a stored job is over.
Due(j) ==
  /\ hPc[j] \in {"stored", "returned"} /\ j \notin due
  /\ due' = due \cup {j}
  /\ UNCHANGED <<made, jobs, lock, runPc, sweep, stopped, hPc, announced>>

-----------------------------------------------------------------------------
(* Run.                                                                    *)

RunStart ==
  /\ runPc = "off"
  /\ made' = TRUE
  /\ runPc' = "select"
  /\ UNCHANGED <<jobs, due, lock, sweep, stopped, hPc, announced>>

RunStops ==
  /\ runPc = "select" /\ stopped
  /\ runPc' = "gone"
  /\ UNCHANGED <<made, jobs, due, lock, sweep, stopped, hPc, announced>>

RunTick ==
  /\ runPc = "select"
  /\ runPc' = "locking"
  /\ UNCHANGED <<made, jobs, due, lock, sweep, stopped, hPc, announced>>

RunLock ==
  /\ runPc = "locking" /\ lock = "free"
  /\ lock' = "run"
  /\ runPc' = "sweep"
  /\ sweep' = jobs
  /\ UNCHANGED <<made, jobs, due, stopped, hPc, announced>>

\* Mutant: the job is deleted before its delay is looked at.
RunSkipDeletes(j) ==
  /\ runPc = "sweep" /\ j \in sweep \ due
  /\ sweep' = sweep \ {j}
  /\ jobs' = jobs \ {j}
  /\ UNCHANGED <<made, due, lock, runPc, stopped, hPc, announced>>

\* A key whose delay is not over stays for a later tick.
RunSkip(j) ==
  /\ runPc = "sweep" /\ j \in sweep \ due
  /\ sweep' = sweep \ {j}
  /\ UNCHANGED <<made, jobs, due, lock, runPc, stopped, hPc, announced>>

\* Mutant: the job is announced and left in the map.
RunAnnounceKeep(j) ==
  /\ runPc = "sweep" /\ j \in sweep \cap due
  /\ sweep' = sweep \ {j}
  /\ announced' = [announced EXCEPT ![j] = @ + 1]
  /\ UNCHANGED <<made, jobs, due, lock, runPc, stopped, hPc>>

\* A job that is due is deleted, then announced.
RunAnnounce(j) ==
  /\ runPc = "sweep" /\ j \in sweep \cap due
  /\ sweep' = sweep \ {j}
  /\ jobs' = jobs \ {j}
  /\ announced' = [announced EXCEPT ![j] = @ + 1]
  /\ UNCHANGED <<made, due, lock, runPc, stopped, hPc>>

\* The announcement fails, or is made and answered by an error: Run returns, the
\* job is gone and the mutex stays locked.
RunFails(j) ==
  /\ "send" \in Faults
  /\ runPc = "sweep" /\ j \in sweep \cap due
  /\ jobs' = jobs \ {j}
  /\ runPc' = "failed"
  /\ announced' \in {announced, [announced EXCEPT ![j] = @ + 1]}
  /\ UNCHANGED <<made, due, lock, sweep, stopped, hPc>>

\* Mutants: a sweep that ends without unlocking, and one that ends the loop.
RunUnlockForgotten ==
  /\ runPc = "sweep" /\ sweep = {}
  /\ runPc' = "select"
  /\ UNCHANGED <<made, jobs, due, lock, sweep, stopped, hPc, announced>>

RunUnlockLast ==
  /\ runPc = "sweep" /\ sweep = {}
  /\ lock' = "free"
  /\ runPc' = "finished"
  /\ UNCHANGED <<made, jobs, due, sweep, stopped, hPc, announced>>

RunUnlock ==
  /\ runPc = "sweep" /\ sweep = {}
  /\ lock' = "free"
  /\ runPc' = "select"
  /\ UNCHANGED <<made, jobs, due, sweep, stopped, hPc, announced>>

\* The bot is shutting down.
Stop ==
  /\ ~stopped
  /\ stopped' = TRUE
  /\ UNCHANGED <<made, jobs, due, lock, runPc, sweep, hPc, announced>>

-----------------------------------------------------------------------------

Init ==
  /\ made = FALSE
  /\ jobs = {}
  /\ due = {}
  /\ lock = "free"
  /\ runPc = "off"
  /\ sweep = {}
  /\ stopped = FALSE
  /\ hPc = [j \in Jobs |-> "new"]
  /\ announced = [j \in Jobs |-> 0]

Handle(j) == HandleStore(j) \/ HandlePanic(j) \/ HandleRespond(j)

Sweep(j) == RunSkip(j) \/ RunAnnounce(j)

Run ==
  \/ RunStart \/ RunStops \/ RunTick \/ RunUnlock
  \/ \E j \in Jobs : Sweep(j)

Next ==
  \/ \E j \in Jobs :
       HandleStart(j) \/ HandleLock(j) \/ Handle(j) \/ Due(j) \/ RunFails(j)
  \/ Run \/ RunLock
  \/ Stop

\* Goroutines run, delays end, and Go's mutex does not starve a goroutine that
\* waits for it while others keep taking it: strong fairness of the two locks.
Fairness ==
  /\ WF_vars(Run)
  /\ SF_vars(RunLock)
  /\ \A j \in Jobs : WF_vars(Handle(j)) /\ WF_vars(Due(j)) /\ SF_vars(HandleLock(j))

Spec == Init /\ [][Next]_vars /\ Fairness

-----------------------------------------------------------------------------

TypeOK ==
  /\ made \in BOOLEAN
  /\ jobs \subseteq Jobs
  /\ due \subseteq Jobs
  /\ lock \in Jobs \cup {"free", "run"}
  /\ runPc \in {"off", "select", "locking", "sweep", "failed", "gone"}
  /\ sweep \subseteq Jobs
  /\ stopped \in BOOLEAN
  /\ hPc \in [Jobs -> {"new", "locking", "inside", "stored", "returned", "panicked"}]
  /\ announced \in [Jobs -> Nat]

\* The goroutines that are in a critical section, or left one without unlocking.
Insiders ==
  {j \in Jobs : hPc[j] \in {"inside", "panicked"}}
    \cup IF runPc \in {"sweep", "failed"} THEN {"run"} ELSE {}

\* The mutex does exclude: whoever is inside holds it, so the map is never
\* written while it is ranged over, also when the mutex has been left behind.
Exclusive == Insiders = IF lock = "free" THEN {} ELSE {lock}

Accepted(j) == hPc[j] \in {"stored", "returned"}

\* Neither waiting nor announced any more.
Lost(j) == Accepted(j) /\ j \notin jobs /\ announced[j] = 0

\* An accepted job is in the map until it has been announced, exactly once
\* and after its delay, or until the announcement that made Run give up.
Conserved ==
  /\ \A j \in Jobs :
       /\ announced[j] <= 1
       /\ announced[j] = 1 => j \in due /\ j \notin jobs
       /\ j \in jobs => Accepted(j)
  /\ \A j \in Jobs : Lost(j) => runPc = "failed"
  /\ \A j, k \in Jobs : Lost(j) /\ Lost(k) => j = k

\* The mutex was left locked for good.
Abandoned == runPc = "failed" \/ \E j \in Jobs : hPc[j] = "panicked"

Returned(j) == hPc[j] \in {"returned", "panicked"}

\* A handler is blocked for ever only by an abandoned mutex.
HandlersReturn == \A j \in Jobs : hPc[j] = "locking" ~> Returned(j) \/ Abandoned

\* An accepted job is announced, unless the mutex is abandoned or the bot stops.
AcceptedIsAnnounced ==
  \A j \in Jobs : hPc[j] = "stored" ~> announced[j] = 1 \/ Abandoned \/ stopped

\* "Echo returns immediately, then makes an announcement after a specified
\* delay": every handler returns while the bot runs.
EchoReturns == \A j \in Jobs : hPc[j] = "locking" ~> Returned(j) \/ stopped

=============================================================================
