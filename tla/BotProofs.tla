----------------------------- MODULE BotProofs -----------------------------
(***************************************************************************)
(* For any number of commands and interactions: no two pings of a process  *)
(* draw the same number, the answers tell what happened, the bot is never  *)
(* in its loop with a command unregistered, and no command waits to report *)
(* that its Run has returned.                                              *)
(***************************************************************************)
EXTENDS Bot, FiniteSetTheorems, TLAPS

\* A command that the registration has passed is registered, and all of them are
\* in the loop.
Registering ==
  /\ life = "registering" => Commands \subseteq guild \cup todo
  /\ life \in {"loop", "collecting"} => Commands \subseteq guild

\* Only the commands of earlier builds have no handler.
Found == \A i \in Interactions : pc[i] = "unrouted" => asked[i] \notin Commands

\* The commands whose Run has not returned in this process, those included that the
\* registration will start.
Unreturned ==
  running \cup (IF life = "registering" THEN todo \cap InitCommands ELSE {})

\* Each of them has its place in the channel.
Reported ==
  /\ life = "registering" => running \cap todo = {}
  /\ life = "down" => running = {} /\ errChan = 0
  /\ errChan + Cardinality(Unreturned) <= Cardinality(InitCommands)

\* The mutex is with the ping that has counted and not read yet.
Locked == \A i \in Interactions : pc[i] = "counted" <=> lock = i

\* A ping that has not read has no number.
Unread ==
  \A i \in Interactions : pc[i] \in {"new", "counting", "counted"} => number[i] = 0

\* Where an interaction is tells what was done for it.
Answered ==
  \A i \in Interactions :
    /\ answer[i] = "reply" \/ pc[i] = "responding" => i \in worked
    /\ i \in acked => pc[i] = "done"
    /\ pc[i] = "done" => answer[i] = "reply"
    /\ answer[i] = "error" => pc[i] = "failed"

-----------------------------------------------------------------------------

\* The step of an interaction, and that of the process.
Serve(i) == Ask(i) \/ Handle(i) \/ GiveUp(i)

ProcessStep ==
  \/ Open \/ RegisterFails \/ RunHooks \/ Collect \/ HearError \/ Interrupt
  \/ LeaveLoop \/ CloseSession
  \/ \E c \in Commands : Register(c) \/ Delete(c)
  \/ \E c \in InitCommands : InitReturns(c)

LEMMA NextCases ==
  ASSUME [Next]_vars
  PROVE  \/ ProcessStep
         \/ Halt
         \/ \E i \in Interactions : Serve(i)
         \/ UNCHANGED vars
BY DEF Next, Proceed, ProcessStep, MainReturns, ScraperFatal, Crash, Serve

\* The process and its interactions write to state of their own.
LEMMA ProcessApart == ASSUME ProcessStep PROVE UNCHANGED <<pingVars, pc, userVars>>
BY DEF ProcessStep, Open, RegisterFails, RunHooks, Collect, HearError, Interrupt,
       LeaveLoop, CloseSession, Register, Delete, InitReturns

LEMMA ServeApart ==
  ASSUME NEW i \in Interactions, Serve(i)
  PROVE  UNCHANGED lifeVars
BY DEF Serve, Handle, Ask, PingCount, PingRead, Work, Respond, AnswerError, GiveUp,
       lifeVars

-----------------------------------------------------------------------------

LEMMA TypeInit == Init => TypeOK
<1> SUFFICES ASSUME Init PROVE TypeOK
  OBVIOUS
<1>1. guild \subseteq Commands \cup Leftover /\ cancelled \in BOOLEAN
  BY Zenon DEF Init
<1>2. /\ todo \subseteq Commands /\ running \subseteq InitCommands
      /\ worked \subseteq Interactions /\ acked \subseteq Interactions
      /\ errChan \in Nat /\ count \in Nat
      /\ lock \in Interactions \cup {"free"}
      /\ life = "down"
  BY DEF Init
<1>3. /\ asked \in [Interactions -> Commands \cup Leftover \cup {""}]
      /\ pc \in [Interactions -> Idle]
      /\ number \in [Interactions -> Nat]
      /\ answer \in [Interactions -> {"none", "reply", "error", "late"}]
  BY DEF Init, Idle
<1>4. QED
  BY <1>1, <1>2, <1>3 DEF TypeOK, Idle

LEMMA TypeStep == TypeOK /\ [Next]_vars => TypeOK'
<1> SUFFICES ASSUME TypeOK, [Next]_vars PROVE TypeOK'
  OBVIOUS
<1>1. CASE ProcessStep
  <2>1. UNCHANGED <<pingVars, pc, userVars>>
    BY <1>1, ProcessApart
  <2>2. /\ guild' \subseteq Commands \cup Leftover
        /\ life' \in {"down", "registering", "loop", "collecting", "cleaning", "returned"}
        /\ todo' \subseteq Commands
        /\ cancelled' \in BOOLEAN
        /\ running' \subseteq InitCommands
    <3>1. CASE Open \/ RegisterFails \/ RunHooks \/ Collect \/ LeaveLoop \/ CloseSession
      BY <3>1 DEF TypeOK, Open, RegisterFails, RunHooks, Collect, LeaveLoop, CloseSession
    <3>2. CASE HearError \/ Interrupt
      <4>1. /\ cancelled' \in {TRUE, cancelled}
            /\ UNCHANGED <<guild, life, todo, running>>
        BY <3>2, Zenon DEF HearError, Interrupt
      <4>2. QED
        BY <4>1 DEF TypeOK
    <3>3. ASSUME NEW c \in Commands, Register(c) \/ Delete(c)
          PROVE  /\ guild' \subseteq Commands \cup Leftover
                 /\ life' = life /\ cancelled' = cancelled
                 /\ todo' \subseteq Commands
                 /\ running' \subseteq InitCommands
      BY <3>3 DEF TypeOK, Register, Delete, Identified
    <3>4. ASSUME NEW c \in InitCommands, InitReturns(c)
          PROVE  /\ UNCHANGED <<guild, life, todo, cancelled>>
                 /\ running' \subseteq InitCommands
      <4>1. UNCHANGED <<guild, life, todo, cancelled>> /\ running' = running \ {c}
        BY <3>4, Zenon DEF InitReturns
      <4>2. QED
        BY <4>1 DEF TypeOK
    <3>5. QED
      BY <1>1, <3>1, <3>2, <3>3, <3>4 DEF ProcessStep, TypeOK
  <2>4. errChan' \in Nat
    <3>1. errChan \in Nat
      BY DEF TypeOK
    <3>2. CASE HearError
      BY <3>1, <3>2 DEF HearError
    <3>3. ASSUME NEW c \in InitCommands, InitReturns(c) PROVE errChan' \in Nat
      <4>1. errChan' = errChan + 1
        BY <3>3, Zenon DEF InitReturns
      <4>2. QED
        BY <3>1, <4>1
    <3>4. ASSUME NEW c \in Commands, Register(c) \/ Delete(c) PROVE errChan' = errChan
      BY <3>4 DEF Register, Delete
    <3>5. CASE Open \/ RegisterFails \/ RunHooks \/ Collect \/ Interrupt
                 \/ LeaveLoop \/ CloseSession
      BY <3>1, <3>5 DEF Open, RegisterFails, RunHooks, Collect, Interrupt, LeaveLoop,
                        CloseSession
    <3>6. QED
      BY <1>1, <3>1, <3>2, <3>3, <3>4, <3>5 DEF ProcessStep
  <2>3. QED
    BY <2>1, <2>2, <2>4 DEF TypeOK, pingVars, userVars
<1>2. CASE Halt
  BY <1>2 DEF Halt, TypeOK, Idle, userVars
<1>3. ASSUME NEW i \in Interactions, Serve(i) PROVE TypeOK'
  <2>1. UNCHANGED lifeVars
    BY <1>3, ServeApart
  <2> USE DEF TypeOK, lifeVars, pingVars, userVars, Go, Shown, Idle
  <2>2. CASE Ask(i)
    <3>1. PICK c \in guild :
            /\ asked' = [asked EXCEPT ![i] = c]
            /\ \E s \in {"unrouted", "counting", "working", "erring"} :
                 pc' = [pc EXCEPT ![i] = s]
      BY <2>2 DEF Ask
    <3>2. UNCHANGED <<pingVars, answer, worked, acked>>
      BY <2>2 DEF Ask
    <3>3. QED
      BY <2>1, <3>1, <3>2
  <2>3. CASE PingCount(i) \/ PingRead(i)
    <3>1. /\ UNCHANGED <<asked, answer, acked>>
          /\ \E s \in {"counted", "responding"} : pc' = [pc EXCEPT ![i] = s]
          /\ lock' \in {i, "free"}
          /\ worked' \in {worked, worked \cup {i}}
      BY <2>3, Zenon DEF PingCount, PingRead
    <3>2. count \in Nat /\ number \in [Interactions -> Nat]
      OBVIOUS
    <3>3. count' \in Nat /\ number' \in [Interactions -> Nat]
      <4> HIDE DEF TypeOK
      <4>1. QED
        BY <2>3, <3>2 DEF PingCount, PingRead
    <3>4. QED
      BY <2>1, <3>1, <3>3
  <2>4. CASE Work(i)
    BY <2>1, <2>4 DEF Work
  <2>5. CASE Respond(i)
    BY <2>1, <2>5 DEF Respond
  <2>6. CASE AnswerError(i)
    BY <2>1, <2>6 DEF AnswerError
  <2>7. CASE GiveUp(i)
    BY <2>1, <2>7 DEF GiveUp
  <2>8. QED
    BY <1>3, <2>2, <2>3, <2>4, <2>5, <2>6, <2>7 DEF Serve, Handle
<1>4. CASE UNCHANGED vars
  BY <1>4 DEF vars, TypeOK
<1>5. QED
  BY <1>1, <1>2, <1>3, <1>4, NextCases

\* The state of Bot keeps its types, whatever fails.
THEOREM BotTypes == Spec => []TypeOK
<1>1. QED
  BY TypeInit, TypeStep, PTL DEF Spec

-----------------------------------------------------------------------------

LEMMA RegisteredStep == TypeOK /\ Registering /\ [Next]_vars => Registering'
<1> SUFFICES ASSUME TypeOK, Registering, [Next]_vars PROVE Registering'
  OBVIOUS
<1> USE DEF TypeOK, Registering
<1>1. CASE ProcessStep
  <2>1. CASE Open \/ RegisterFails \/ Collect \/ HearError \/ Interrupt
               \/ LeaveLoop \/ CloseSession
    BY <2>1 DEF Open, RegisterFails, Collect, HearError, Interrupt, LeaveLoop, CloseSession
  <2>2. CASE RunHooks
    BY <2>2 DEF RunHooks
  <2>3. ASSUME NEW c \in Commands, Register(c) \/ Delete(c)
        PROVE  Registering'
    BY <2>3 DEF Register, Delete
  <2>4. ASSUME NEW c \in InitCommands, InitReturns(c)
        PROVE  Registering'
    BY <2>4 DEF InitReturns
  <2>5. QED
    BY <1>1, <2>1, <2>2, <2>3, <2>4 DEF ProcessStep
<1>2. CASE Halt
  BY <1>2 DEF Halt
<1>3. ASSUME NEW i \in Interactions, Serve(i) PROVE Registering'
  BY <1>3, ServeApart DEF lifeVars
<1>4. CASE UNCHANGED vars
  BY <1>4 DEF vars
<1>5. QED
  BY <1>1, <1>2, <1>3, <1>4, NextCases

LEMMA FoundStep == TypeOK /\ Found /\ [Next]_vars => Found'
<1> SUFFICES ASSUME TypeOK, Found, [Next]_vars PROVE Found'
  OBVIOUS
<1> USE DEF TypeOK, Found, pingVars, userVars
<1>1. CASE ProcessStep
  BY <1>1, ProcessApart
<1>2. CASE Halt
  BY <1>2 DEF Halt
<1>3. ASSUME NEW i \in Interactions, Serve(i) PROVE Found'
  <2> USE DEF Go
  <2>1. CASE Ask(i)
    BY <2>1 DEF Ask, Handled
  <2>2. CASE Handle(i)
    BY <2>2 DEF Handle, PingCount, PingRead, Work, Respond, AnswerError
  <2>3. CASE GiveUp(i)
    BY <2>3 DEF GiveUp
  <2>4. QED
    BY <1>3, <2>1, <2>2, <2>3 DEF Serve
<1>4. CASE UNCHANGED vars
  BY <1>4 DEF vars
<1>5. QED
  BY <1>1, <1>2, <1>3, <1>4, NextCases

LEMMA UnreturnedFinite ==
  ASSUME TypeOK
  PROVE  /\ Unreturned \subseteq InitCommands
         /\ IsFiniteSet(InitCommands) /\ IsFiniteSet(Unreturned)
         /\ Cardinality(InitCommands) \in Nat /\ Cardinality(Unreturned) \in Nat
         /\ Cardinality(Commands) \in Nat
         /\ Cardinality(InitCommands) <= Cardinality(Commands)
<1>1. Unreturned \subseteq InitCommands
  BY DEF TypeOK, Unreturned
<1>2. IsFiniteSet(Commands) /\ InitCommands \subseteq Commands
  BY CommandsAssumption
<1>3. IsFiniteSet(InitCommands) /\ IsFiniteSet(Unreturned)
  BY <1>1, <1>2, FS_Subset
<1>4. QED
  BY <1>1, <1>2, <1>3, FS_Subset, FS_CardinalityType

LEMMA ReportedStep == TypeOK /\ Reported /\ [Next]_vars => Reported'
<1> SUFFICES ASSUME TypeOK, Reported, [Next]_vars PROVE Reported'
  OBVIOUS
<1>0. /\ IsFiniteSet(Unreturned) /\ Cardinality(Unreturned) \in Nat
      /\ IsFiniteSet(InitCommands) /\ Cardinality(InitCommands) \in Nat
      /\ errChan \in Nat
  BY UnreturnedFinite DEF TypeOK
\* A step that adds nothing to either side.
<1>1. ASSUME errChan' \in Nat, errChan' <= errChan, Unreturned' \subseteq Unreturned,
             life' = "registering" => running' \cap todo' = {},
             life' # "down"
      PROVE  Reported'
  <2>1. Cardinality(Unreturned') \in Nat /\ Cardinality(Unreturned') <= Cardinality(Unreturned)
    BY <1>0, <1>1, FS_Subset, FS_CardinalityType
  <2>2. errChan' + Cardinality(Unreturned') <= Cardinality(InitCommands)
    BY <1>0, <1>1, <2>1 DEF Reported
  <2>3. QED
    BY <1>1, <2>2 DEF Reported
<1>2. CASE ProcessStep
  <2>1. CASE Open
    <3>1. /\ life' = "registering" /\ running' = {} /\ errChan' = 0
          /\ Unreturned' = InitCommands
      BY <2>1, CommandsAssumption DEF Open, Reported, Unreturned
    <3>2. QED
      BY <1>0, <3>1 DEF Reported
  <2>2. CASE RegisterFails \/ RunHooks \/ Collect \/ LeaveLoop \/ CloseSession
    <3>1. /\ UNCHANGED <<running, errChan>>
          /\ life' \notin {"registering", "down"}
      BY <2>2, Zenon DEF RegisterFails, RunHooks, Collect, LeaveLoop, CloseSession
    <3>2. Unreturned' \subseteq Unreturned
      BY <3>1 DEF Unreturned
    <3>3. QED
      BY <1>0, <1>1, <3>1, <3>2
  <2>3. CASE HearError \/ Interrupt
    <3>1. /\ UNCHANGED <<life, todo, running>>
          /\ life # "down"
          /\ errChan' \in Nat /\ errChan' <= errChan
      <4>1. CASE HearError
        <5>1. UNCHANGED <<life, todo, running>> /\ life = "loop"
          BY <4>1 DEF HearError
        <5>2. errChan > 0 /\ errChan' = errChan - 1
          BY <4>1 DEF HearError
        <5>3. QED
          BY <1>0, <5>1, <5>2
      <4>2. CASE Interrupt
        <5>1. UNCHANGED <<life, todo, running, errChan>> /\ life # "down"
          BY <4>2, Zenon DEF Interrupt, Running
        <5>2. QED
          BY <1>0, <5>1
      <4>3. QED
        BY <2>3, <4>1, <4>2
    <3>2. Unreturned' = Unreturned
      BY <3>1 DEF Unreturned
    <3>3. QED
      BY <1>1, <3>1, <3>2 DEF Reported
  <2>4. ASSUME NEW c \in Commands, Register(c) \/ Delete(c) PROVE Reported'
    <3>1. CASE Register(c)
      <4>1. /\ life = "registering" /\ life' = life /\ c \in todo
            /\ errChan' = errChan /\ todo' = todo \ {c}
            /\ running' = running \cup ({c} \cap InitCommands)
        BY <3>1, Zenon DEF Register
      <4>2. Unreturned' = Unreturned /\ running' \cap todo' = {}
        BY <4>1 DEF Unreturned, Reported
      <4>3. QED
        BY <1>0, <1>1, <4>1, <4>2
    <3>2. CASE Delete(c)
      <4>1. /\ life = "cleaning" /\ life' = life
            /\ errChan' = errChan /\ running' = running
        BY <3>2, Zenon DEF Delete
      <4>2. Unreturned' = Unreturned
        BY <4>1 DEF Unreturned
      <4>3. QED
        BY <1>0, <1>1, <4>1, <4>2
    <3>3. QED
      BY <2>4, <3>1, <3>2
  <2>5. ASSUME NEW c \in InitCommands, InitReturns(c) PROVE Reported'
    <3>1. /\ c \in running /\ running' = running \ {c} /\ errChan' = errChan + 1
          /\ life' = life /\ todo' = todo
      BY <2>5, Zenon DEF InitReturns
    <3>2. Unreturned' = Unreturned \ {c} /\ c \in Unreturned
      BY <3>1 DEF Unreturned, Reported
    <3>3. Cardinality(Unreturned') = Cardinality(Unreturned) - 1
      BY <1>0, <3>2, FS_RemoveElement
    <3>4. errChan' + Cardinality(Unreturned') <= Cardinality(InitCommands)
      BY <1>0, <3>1, <3>3 DEF Reported
    <3>5. QED
      BY <3>1, <3>4 DEF Reported
  <2>6. QED
    BY <1>2, <2>1, <2>2, <2>3, <2>4, <2>5 DEF ProcessStep
<1>3. CASE Halt
  <2>1. life' = "down" /\ running' = {} /\ errChan' = 0
    BY <1>3 DEF Halt
  <2>2. Unreturned' = {}
    BY <2>1 DEF Unreturned
  <2>3. QED
    BY <1>0, <2>1, <2>2, FS_EmptySet DEF Reported
<1>4. ASSUME UNCHANGED lifeVars PROVE Reported'
  BY <1>4 DEF lifeVars, Reported, Unreturned
<1>5. QED
  BY <1>2, <1>3, <1>4, ServeApart, NextCases DEF vars, lifeVars

\* The bot is in its loop, a pass of the collector included, only with every
\* command registered, since one that Discord refuses keeps it out; a command
\* of this build always has its handler, also while Discord still delivers those
\* that an earlier process registered; and the channel of errors has a place for
\* each command that has not returned, so no goroutine waits to be listened to.
THEOREM BotServesCommands == Spec => []CommandsServed
<1>1. Init => Registering /\ Found /\ Reported
  <2>1. ASSUME Init PROVE Registering /\ Found
    BY <2>1 DEF Init, Registering, Found
  <2>2. ASSUME Init PROVE Reported
    <3>1. life = "down" /\ running = {} /\ errChan = 0
      BY <2>2 DEF Init
    <3>2. Unreturned = {}
      BY <3>1 DEF Unreturned
    <3>3. Cardinality(InitCommands) \in Nat
      BY <2>2, TypeInit, UnreturnedFinite
    <3>4. QED
      BY <3>1, <3>2, <3>3, FS_EmptySet DEF Reported
  <2>3. QED
    BY <2>1, <2>2
<1>2. TypeOK /\ Registering /\ Found /\ Reported => CommandsServed
  <2> SUFFICES ASSUME TypeOK, Reported, running # {}
               PROVE  errChan < Cardinality(Commands)
    BY DEF Registering, Found, CommandsServed
  <2>1. Unreturned # {} /\ errChan \in Nat
    BY DEF Unreturned, TypeOK
  <2>2. Cardinality(Unreturned) # 0
    BY <2>1, UnreturnedFinite, FS_EmptySet
  <2>3. QED
    BY <2>1, <2>2, UnreturnedFinite DEF Reported
<1>3. QED
  BY <1>1, <1>2, BotTypes, RegisteredStep, FoundStep, ReportedStep, PTL DEF Spec

-----------------------------------------------------------------------------
(* The way out.                                                            *)

\* How far the process is on its way from the session to the end.
Phase ==
  CASE life = "registering" -> 1
    [] life \in {"loop", "collecting"} -> 2
    [] life = "cleaning" -> 3
    [] life = "returned" -> 4
    [] life = "down" -> 5

\* Once interrupted the process only goes forward: no step takes it back to an
\* earlier phase, and within a phase nothing is put back on what is to be done.
\* With fairness, and as Commands is finite, that is why an interrupt ends it.
OnlyForward ==
  [][cancelled => \/ Phase' > Phase
                  \/ Phase' = Phase /\ todo' \subseteq todo]_vars

\* A process that is down is not interrupted.
DownIsCalm == life = "down" => ~cancelled

\* An interrupted process goes forward, whatever is refused, fails or crashes.
THEOREM ShutdownAdvances == Spec => OnlyForward
<1>1. Init => DownIsCalm
  BY DEF Init, DownIsCalm
<1>2. TypeOK /\ DownIsCalm /\ [Next]_vars => DownIsCalm'
  <2> SUFFICES ASSUME DownIsCalm, [Next]_vars PROVE DownIsCalm'
    OBVIOUS
  <2> USE DEF DownIsCalm
  <2>1. CASE ProcessStep
    BY <2>1 DEF ProcessStep, Open, RegisterFails, RunHooks, Collect, HearError, Interrupt,
                Running, LeaveLoop, CloseSession, Register, Delete, InitReturns
  <2>2. CASE Halt
    BY <2>2 DEF Halt
  <2>3. ASSUME NEW i \in Interactions, Serve(i) PROVE DownIsCalm'
    BY <2>3, ServeApart DEF lifeVars
  <2>4. CASE UNCHANGED vars
    BY <2>4 DEF vars
  <2>5. QED
    BY <2>1, <2>2, <2>3, <2>4, NextCases
<1>3. ASSUME TypeOK, DownIsCalm, [Next]_vars, cancelled
      PROVE  Phase' > Phase \/ (Phase' = Phase /\ todo' \subseteq todo)
  <2> USE <1>3
  <2>1. life \in {"registering", "loop", "collecting", "cleaning", "returned"}
    BY DEF TypeOK, DownIsCalm
  <2>2. CASE ProcessStep
    <3>1. CASE RegisterFails \/ RunHooks \/ Collect \/ LeaveLoop \/ CloseSession
      <4>1. CASE RegisterFails
        BY <4>1 DEF RegisterFails, Phase
      <4>2. CASE RunHooks
        BY <4>2 DEF RunHooks, Phase
      <4>3. CASE Collect
        <5>1. life \in {"loop", "collecting"} /\ life' \in {"loop", "collecting"}
          BY <4>3, Zenon DEF Collect
        <5>2. todo' = todo
          BY <4>3, Zenon DEF Collect
        <5>3. Phase = 2 /\ Phase' = 2
          BY <5>1 DEF Phase
        <5>4. QED
          BY <5>2, <5>3
      <4>4. CASE LeaveLoop
        BY <4>4 DEF LeaveLoop, Phase
      <4>5. CASE CloseSession
        BY <4>5 DEF CloseSession, Phase
      <4>6. QED
        BY <3>1, <4>1, <4>2, <4>3, <4>4, <4>5
    <3>2. CASE HearError \/ Interrupt
      <4>1. UNCHANGED <<life, todo>>
        BY <3>2, Zenon DEF HearError, Interrupt
      <4>2. QED
        BY <4>1 DEF Phase
    <3>3. ASSUME NEW c \in Commands, Register(c) \/ Delete(c)
          PROVE  life' = life /\ todo' \subseteq todo
      BY <3>3 DEF Register, Delete, Identified
    <3>4. ASSUME NEW c \in InitCommands, InitReturns(c)
          PROVE  life' = life /\ todo' \subseteq todo
      BY <3>4, Zenon DEF InitReturns
    <3>5. ~Open
      BY <2>1 DEF Open
    <3>6. QED
      BY <2>2, <3>1, <3>2, <3>3, <3>4, <3>5 DEF ProcessStep, Phase
  <2>3. CASE Halt
    BY <2>1, <2>3 DEF Halt, Phase
  <2>4. ASSUME NEW i \in Interactions, Serve(i) PROVE UNCHANGED <<life, todo>>
    BY <2>4, ServeApart DEF lifeVars
  <2>5. CASE UNCHANGED <<life, todo>>
    BY <2>5 DEF Phase
  <2>6. QED
    BY <2>2, <2>3, <2>4, <2>5, NextCases DEF vars
<1>4. TypeOK /\ DownIsCalm /\ [Next]_vars
        => [cancelled => \/ Phase' > Phase
                         \/ Phase' = Phase /\ todo' \subseteq todo]_vars
  BY <1>3
<1>5. QED
  BY <1>1, <1>2, <1>4, BotTypes, PTL DEF Spec, OnlyForward

-----------------------------------------------------------------------------
(* The answers.                                                            *)

LEMMA AnsweredStep == TypeOK /\ Answered /\ [Next]_vars => Answered'
<1> SUFFICES ASSUME TypeOK, Answered, [Next]_vars PROVE Answered'
  OBVIOUS
<1> USE DEF TypeOK, Answered, pingVars, userVars
<1>1. CASE ProcessStep
  BY <1>1, ProcessApart
<1>2. CASE Halt
  BY <1>2 DEF Halt, Idle
<1>3. ASSUME NEW i \in Interactions, Serve(i) PROVE Answered'
  <2> USE DEF Go, Shown
  <2>1. CASE Ask(i)
    BY <2>1 DEF Ask
  <2>2. CASE PingCount(i) \/ PingRead(i)
    BY <2>2 DEF PingCount, PingRead
  <2>3. CASE Work(i)
    BY <2>3 DEF Work
  <2>4. CASE Respond(i)
    BY <2>4 DEF Respond
  <2>5. CASE AnswerError(i)
    BY <2>5 DEF AnswerError
  <2>6. CASE GiveUp(i)
    BY <2>6 DEF GiveUp
  <2>7. QED
    BY <1>3, <2>1, <2>2, <2>3, <2>4, <2>5, <2>6 DEF Serve, Handle
<1>4. CASE UNCHANGED vars
  BY <1>4 DEF vars
<1>5. QED
  BY <1>1, <1>2, <1>3, <1>4, NextCases

\* A user sees a reply only to work that was done, and an error only when no
\* response was acknowledged.
THEOREM BotAnswersTruthfully == Spec => []AnswersTruthful
<1>1. Init => Answered
  BY DEF Init, Answered
<1>2. Answered => AnswersTruthful
  BY DEF Answered, AnswersTruthful
<1>3. QED
  BY <1>1, <1>2, BotTypes, AnsweredStep, PTL DEF Spec

-----------------------------------------------------------------------------
(* The counter of ping.                                                    *)

LEMMA LockedStep == TypeOK /\ Locked /\ [Next]_vars => Locked'
<1> SUFFICES ASSUME TypeOK, Locked, [Next]_vars PROVE Locked'
  OBVIOUS
<1>0. "free" \notin Interactions
  BY FreeAssumption
<1>1. pc = [i \in Interactions |-> pc[i]]
  BY DEF TypeOK
<1> USE DEF Locked, pingVars, userVars
<1>2. CASE ProcessStep
  BY <1>2, ProcessApart
<1>3. CASE Halt
  <2>1. \A i \in Interactions : pc'[i] # "counted" /\ lock' = "free"
    BY <1>3 DEF Halt, Idle
  <2>2. QED
    BY <1>0, <2>1
<1>4. ASSUME NEW i \in Interactions, Serve(i) PROVE Locked'
  <2>1. PICK s : pc' = [pc EXCEPT ![i] = s]
    BY <1>1, <1>4 DEF Serve, Ask, Handle, PingCount, PingRead, Work, Respond,
                      AnswerError, GiveUp, Go
  <2>2. \A j \in Interactions : pc'[j] = IF j = i THEN s ELSE pc[j]
    BY <1>1, <2>1
  <2>3. CASE PingCount(i)
    <3>1. lock = "free" /\ lock' = i /\ pc'[i] = "counted"
      BY <1>1, <2>3 DEF PingCount, Go
    <3>2. QED
      BY <1>0, <2>2, <3>1
  <2>4. CASE PingRead(i)
    <3>1. pc[i] = "counted" /\ lock' = "free" /\ pc'[i] = "responding"
      BY <1>1, <2>4 DEF PingRead, Go
    <3>2. QED
      BY <1>0, <2>2, <3>1
  <2>5. CASE Ask(i) \/ Work(i) \/ Respond(i) \/ AnswerError(i) \/ GiveUp(i)
    <3>1. lock' = lock
      BY <2>5 DEF Ask, Work, Respond, AnswerError, GiveUp
    <3>2. pc'[i] = "counted" <=> pc[i] = "counted"
      BY <1>1, <2>5 DEF Ask, Work, Respond, AnswerError, GiveUp, Go
    <3>3. QED
      BY <2>2, <3>1, <3>2
  <2>6. QED
    BY <1>4, <2>3, <2>4, <2>5 DEF Serve, Handle
<1>5. CASE UNCHANGED vars
  BY <1>5 DEF vars
<1>6. QED
  BY <1>2, <1>3, <1>4, <1>5, NextCases

LEMMA UnreadStep == TypeOK /\ Unread /\ [Next]_vars => Unread'
<1> SUFFICES ASSUME TypeOK, Unread, [Next]_vars PROVE Unread'
  OBVIOUS
<1>0. /\ pc = [i \in Interactions |-> pc[i]]
      /\ number = [i \in Interactions |-> number[i]]
  BY DEF TypeOK
<1> USE DEF Unread, pingVars, userVars
<1>1. CASE ProcessStep
  BY <1>1, ProcessApart
<1>2. CASE Halt
  BY <1>2 DEF Halt
<1>3. ASSUME NEW i \in Interactions, Serve(i) PROVE Unread'
  <2> USE DEF Go
  <2>1. CASE PingRead(i)
    BY <1>0, <2>1 DEF PingRead
  <2>2. CASE Ask(i) \/ PingCount(i) \/ Work(i) \/ Respond(i) \/ AnswerError(i) \/ GiveUp(i)
    <3>1. number' = number
      BY <2>2 DEF Ask, PingCount, Work, Respond, AnswerError, GiveUp
    <3>2. \A j \in Interactions : pc'[j] \in {"new", "counting", "counted"} =>
                                    pc[j] \in {"new", "counting", "counted"}
      BY <1>0, <2>2 DEF Ask, PingCount, Work, Respond, AnswerError, GiveUp
    <3>3. QED
      BY <3>1, <3>2
  <2>3. QED
    BY <1>3, <2>1, <2>2 DEF Serve, Handle
<1>4. CASE UNCHANGED vars
  BY <1>4 DEF vars
<1>5. QED
  BY <1>1, <1>2, <1>3, <1>4, NextCases

\* The step that counts draws the ticket: the one that reads it keeps the mutex
\* until then, so the counter is still what was drawn.
LEMMA TicketStep ==
  TypeOK /\ Locked /\ Unread /\ [Next]_vars => [Counter!Next]_(Counter!vars)
<1> SUFFICES ASSUME TypeOK, Locked, Unread, [Next]_vars
             PROVE  Counter!Next \/ UNCHANGED <<count, Ticket>>
  BY DEF Counter!vars
<1> USE DEF TypeOK, pingVars
<1>1. CASE ProcessStep
  BY <1>1, ProcessApart DEF Ticket
<1>2. CASE Halt
  <2>1. \A i \in Interactions : pc'[i] # "counted" /\ number'[i] = 0
    BY <1>2 DEF Halt, Idle
  <2>2. count' = 0 /\ Ticket' = [c \in Interactions |-> 0]
    BY <1>2, <2>1 DEF Halt, Ticket
  <2>3. QED
    BY <2>2 DEF Counter!Next, Counter!Restart, Counter!Fresh
<1>3. ASSUME NEW i \in Interactions, Serve(i)
      PROVE  Counter!Next \/ UNCHANGED <<count, Ticket>>
  <2> USE DEF Go
  <2>1. CASE PingCount(i)
    <3>1. \A j \in Interactions : pc[j] # "counted"
      BY <2>1, FreeAssumption DEF PingCount, Locked
    <3>2. pc[i] = "counting" /\ Ticket[i] = 0
      BY <2>1, <3>1 DEF PingCount, Unread, Ticket
    <3>3. Ticket' = [Ticket EXCEPT ![i] = count + 1]
      BY <2>1, <3>1 DEF PingCount, Ticket
    <3>4. QED
      BY <2>1, <3>2, <3>3 DEF PingCount, Counter!Next, Counter!Draw
  <2>2. CASE PingRead(i)
    <3>1. count' = count
      BY <2>2 DEF PingRead
    <3>2. \A j \in Interactions \ {i} : pc'[j] = pc[j] /\ number'[j] = number[j]
      BY <2>2 DEF PingRead
    <3>3. pc[i] = "counted" /\ pc'[i] # "counted" /\ number'[i] = count
      BY <2>2 DEF PingRead
    <3>4. Ticket' = Ticket
      BY <3>1, <3>2, <3>3 DEF Ticket
    <3>5. QED
      BY <3>1, <3>4
  <2>3. CASE Ask(i) \/ Work(i) \/ Respond(i) \/ AnswerError(i) \/ GiveUp(i)
    <3>1. UNCHANGED <<count, number>>
      BY <2>3 DEF Ask, Work, Respond, AnswerError, GiveUp
    <3>2. \A j \in Interactions : pc'[j] = "counted" <=> pc[j] = "counted"
      BY <2>3 DEF Ask, Work, Respond, AnswerError, GiveUp
    <3>3. QED
      BY <3>1, <3>2 DEF Ticket
  <2>4. QED
    BY <1>3, <2>1, <2>2, <2>3 DEF Serve, Handle
<1>4. CASE UNCHANGED vars
  BY <1>4 DEF vars, Ticket
<1>5. QED
  BY <1>1, <1>2, <1>3, <1>4, NextCases

LEMMA UnreadAlways == Spec => [](Locked /\ Unread)
<1>1. Init => Locked /\ Unread
  <2>1. "free" \notin Interactions
    BY FreeAssumption
  <2>2. ASSUME Init, NEW i \in Interactions
        PROVE  pc[i] = "new" /\ lock = "free" /\ number[i] = 0
    BY <2>2 DEF Init
  <2>3. QED
    BY <2>1, <2>2 DEF Locked, Unread
<1>2. QED
  BY <1>1, BotTypes, LockedStep, UnreadStep, PTL DEF Spec

\* Pings implement the atomic ticket counter, in any interleaving and across
\* restarts.
THEOREM PingsDrawTickets == Spec => DrawsTickets
<1>1. Init => Counter!Init
  BY DEF Init, Ticket, Counter!Init, Counter!Fresh
<1>2. QED
  BY <1>1, BotTypes, UnreadAlways, TicketStep, PTL DEF Spec, DrawsTickets, Counter!Spec

-----------------------------------------------------------------------------
(* What the pings may rely on, carried over from the abstract counter.     *)

LEMMA OneEachStep ==
  ASSUME Ticket \in [Interactions -> Nat], Counter!OneEach, [Counter!Next]_(Counter!vars)
  PROVE  Counter!OneEach'
<1> USE DEF Counter!OneEach
<1>1. CASE Counter!Restart
  BY <1>1 DEF Counter!Restart, Counter!Fresh
<1>2. ASSUME NEW c \in Interactions, Counter!Draw(c) PROVE Counter!OneEach'
  <2>1. /\ Ticket[c] = 0
        /\ count' = count + 1
        /\ Ticket'[c] = count + 1
        /\ \A d \in Interactions \ {c} : Ticket'[d] = Ticket[d]
    BY <1>2 DEF Counter!Draw
  <2>2. \A n \in 1..count' : \E d \in Interactions : Ticket'[d] = n
    <3> SUFFICES ASSUME NEW n \in 1..count' PROVE \E d \in Interactions : Ticket'[d] = n
      OBVIOUS
    <3>1. CASE n = count + 1
      BY <2>1, <3>1
    <3>2. CASE n # count + 1
      <4>1. n \in 1..count /\ n # 0
        BY <2>1, <3>2
      <4>2. PICK d \in Interactions : Ticket[d] = n
        BY <4>1
      <4>3. QED
        BY <2>1, <4>1, <4>2
    <3>3. QED
      BY <3>1, <3>2
  <2>3. \A d \in Interactions : Ticket'[d] \in 0..count'
    BY <2>1
  <2>4. \A d, e \in Interactions : d # e /\ Ticket'[d] # 0 => Ticket'[d] # Ticket'[e]
    BY <2>1
  <2>5. QED
    BY <2>1, <2>2, <2>3, <2>4
<1>3. CASE UNCHANGED Counter!vars
  BY <1>3 DEF Counter!vars
<1>4. QED
  BY <1>1, <1>2, <1>3 DEF Counter!Next

\* No two pongs of a process have the same number, and none is skipped: each up to
\* the count has been answered with or is with a ping that has counted.
PongsDistinct ==
  /\ \A i, j \in Interactions : i # j /\ number[i] # 0 => number[i] # number[j]
  /\ \A n \in 1..count :
       \E i \in Interactions : number[i] = n \/ (pc[i] = "counted" /\ count = n)

\* Pings draw distinct numbers without a gap, in any interleaving and across
\* restarts: the promise of the abstract counter, read off for the pongs.
THEOREM PongsDiffer == Spec => []PongsDistinct
<1>1. Counter!Init => Counter!OneEach
  BY DEF Counter!Init, Counter!Fresh, Counter!OneEach
<1>2. TypeOK => Ticket \in [Interactions -> Nat]
  BY DEF TypeOK, Ticket
<1>3. TypeOK /\ Unread /\ Counter!OneEach => PongsDistinct
  <2> SUFFICES ASSUME TypeOK, Unread, Counter!OneEach PROVE PongsDistinct
    OBVIOUS
  <2>1. \A i \in Interactions : number[i] # 0 => Ticket[i] = number[i]
    BY DEF Unread, Ticket
  <2>2. \A i, j \in Interactions : i # j /\ number[i] # 0 => number[i] # number[j]
    BY <2>1 DEF Counter!OneEach
  <2>3. \A n \in 1..count : \E i \in Interactions :
          number[i] = n \/ (pc[i] = "counted" /\ count = n)
    BY DEF Counter!OneEach, Ticket
  <2>4. QED
    BY <2>2, <2>3 DEF PongsDistinct
<1>4. QED
  BY <1>1, <1>2, <1>3, OneEachStep, PingsDrawTickets, BotTypes, UnreadAlways, PTL
  DEF DrawsTickets, Counter!Spec

=============================================================================
