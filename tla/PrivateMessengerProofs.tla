----------------------- MODULE PrivateMessengerProofs -----------------------
(***************************************************************************)
(* What the table of private channels and Discord say of each other, for   *)
(* any senders, users and failures.                                        *)
(***************************************************************************)
EXTENDS PrivateMessenger, FiniteSetTheorems, TLAPS

LEMMA TypeInit == Init => TypeOK
BY DEF Init, TypeOK

LEMMA TypeStep == TypeOK /\ [Next]_vars => TypeOK'
<1> SUFFICES ASSUME TypeOK, [Next]_vars PROVE TypeOK'
  OBVIOUS
<1> USE DEF TypeOK, gcVars, Goto
<1>1. ASSUME NEW s \in Senders, Send(s) \/ Again(s) \/ SendFails(s) PROVE TypeOK'
  <2>1. To[s] \in Recipients
    BY ToAssumption
  <2>2. CASE Lookup(s) \/ OpenChannel(s) \/ Record(s) \/ RecordConflict(s)
    BY <2>1, <2>2 DEF Lookup, OpenChannel, Record, RecordConflict
  <2>3. CASE Post(s) \/ PostFails(s) \/ Bump(s) \/ Again(s) \/ SendFails(s)
    BY <2>1, <2>3 DEF Post, PostFails, Bump, Again, SendFails
  <2>4. QED
    BY <1>1, <2>2, <2>3 DEF Send
<1>2. ASSUME NEW r \in Recipients, Age(r) \/ GcClose(r) \/ GcCloseFails(r) PROVE TypeOK'
  BY <1>2 DEF Age, GcClose, GcCloseFails, GcEnds
<1>3. CASE GcRead \/ GcForget \/ GcDone \/ GcForgetFails
  BY <1>3 DEF GcRead, GcForget, GcDone, GcForgetFails, GcEnds, Recorded, Idle
<1>4. CASE Crash
  <2>1. \A s \in Senders : To[s] \in Recipients
    BY ToAssumption
  <2>2. QED
    BY <1>4, <2>1 DEF Crash
<1>5. CASE UNCHANGED vars
  BY <1>5 DEF vars
<1>6. QED
  BY <1>1, <1>2, <1>3, <1>4, <1>5 DEF Next, Collect

-----------------------------------------------------------------------------
(* Consistent is inductive as it stands: the histories say exactly what an *)
(* interrupted pair of calls leaves.                                       *)

LEMMA ConsistentStep == TypeOK /\ Consistent /\ [Next]_vars => Consistent'
<1> SUFFICES ASSUME TypeOK, Consistent, [Next]_vars PROVE Consistent'
  OBVIOUS
<1> USE DEF TypeOK, gcVars, Goto
<1>0. \A s \in Senders : To[s] \in Recipients
  BY ToAssumption
<1>1. ASSUME NEW s \in Senders, Send(s) \/ Again(s) \/ SendFails(s) PROVE Consistent'
  <2>1. CASE Lookup(s) \/ Post(s) \/ PostFails(s) \/ Again(s)
    BY <2>1 DEF Lookup, Post, PostFails, Again, Consistent
  <2>2. CASE OpenChannel(s)
    BY <1>0, <2>2 DEF OpenChannel, Consistent
  <2>3. CASE Record(s)
    BY <1>0, <2>3 DEF Record, Consistent
  <2>4. CASE RecordConflict(s)
    BY <1>0, <2>4 DEF RecordConflict, Consistent
  <2>5. CASE Bump(s)
    BY <1>0, <2>5 DEF Bump, Consistent
  <2>6. CASE SendFails(s)
    BY <1>0, <2>6 DEF SendFails, LeavesOpen, Consistent
  <2>7. QED
    BY <1>1, <2>1, <2>2, <2>3, <2>4, <2>5, <2>6 DEF Send
<1>2. ASSUME NEW r \in Recipients, Age(r) PROVE Consistent'
  BY <1>2 DEF Age, Consistent
<1>3. ASSUME NEW r \in Recipients, GcClose(r) \/ GcCloseFails(r) PROVE Consistent'
  <2>1. CASE GcClose(r)
    BY <2>1 DEF GcClose, Consistent
  <2>2. CASE GcCloseFails(r)
    <3>1. /\ gcPc = "visit"
          /\ UNCHANGED <<rows, open, pc, torn, leaked>>
      BY <2>2 DEF GcCloseFails, GcEnds
    <3>2. QED
      BY <3>1 DEF Consistent
  <2>3. QED
    BY <1>3, <2>1, <2>2
<1>4. CASE GcRead \/ GcDone
  BY <1>4 DEF GcRead, GcDone, Consistent
<1>5. CASE GcForget \/ GcForgetFails
  BY <1>5 DEF GcForget, GcForgetFails, GcEnds, Consistent
<1>6. CASE Crash
  BY <1>0, <1>6 DEF Crash, LeavesOpen, Consistent
<1>7. CASE UNCHANGED vars
  BY <1>7 DEF vars, Consistent
<1>8. QED
  BY <1>1, <1>2, <1>3, <1>4, <1>5, <1>6, <1>7 DEF Next, Collect

\* The state of the messenger keeps its types, whichever call fails.
THEOREM MessengerTypes == Spec => []TypeOK
BY TypeInit, TypeStep, PTL DEF Spec

\* Table and Discord agree on every recipient but those whose pair of calls is
\* under way, was cut short or was interleaved with another.
THEOREM ChannelsConsistent == Spec => []Consistent
<1>1. Init => Consistent
  BY DEF Init, Consistent
<1>2. QED
  BY <1>1, TypeInit, TypeStep, ConsistentStep, PTL DEF Spec

-----------------------------------------------------------------------------
(* One sender alone with the collector.                                    *)

\* When only s writes to its recipient, nobody else makes the row between the
\* lookup of s and its insert, and the collector only closes recorded channels.
Tidy(s) ==
  /\ To[s] \notin torn \cup leaked
  /\ pc[s] \in {"missing", "opened"} => rows[To[s]] = "none"
  /\ pc[s] = "opened" => open[To[s]]
  /\ To[s] \in page => rows[To[s]] # "none"
  /\ gcPc = "forget" /\ cur = To[s] => /\ rows[To[s]] # "none"
                                      /\ ~open[To[s]]
                                      /\ To[s] \notin page

LEMMA CalmBefore == [Next]_vars /\ calm' => calm
BY DEF Next, vars, Send, Again, SendFails, Lookup, OpenChannel, Record,
       RecordConflict, Post, PostFails, Bump, Age, Collect, GcRead, GcClose,
       GcForget, GcDone, GcCloseFails, GcForgetFails, Crash

LEMMA TidyStep ==
  ASSUME calm', NEW s \in Senders, Alone(s), TypeOK, Tidy(s), [Next]_vars
  PROVE  Tidy(s)'
<1> USE DEF TypeOK, gcVars, Goto
<1>0. \A q \in Senders : To[q] \in Recipients
  BY ToAssumption
<1>1. ASSUME NEW q \in Senders, q # s, Send(q) \/ Again(q) PROVE Tidy(s)'
  <2>1. To[q] # To[s]
    BY <1>1 DEF Alone
  <2>2. pc'[s] = pc[s] /\ page' = page /\ gcPc' = gcPc /\ cur' = cur
    BY <1>1 DEF Send, Again, Lookup, OpenChannel, Record, RecordConflict,
                Post, PostFails, Bump
  <2>3. rows'[To[s]] = rows[To[s]] /\ open'[To[s]] = open[To[s]]
    BY <1>0, <1>1, <2>1 DEF Send, Again, Lookup, OpenChannel, Record,
                            RecordConflict, Post, PostFails, Bump
  <2>4. To[s] \notin torn' \cup leaked'
    <3>1. torn' \subseteq torn \cup {To[q]} /\ leaked' \subseteq leaked
      BY <1>1 DEF Send, Again, Lookup, OpenChannel, Record, RecordConflict,
                  Post, PostFails, Bump
    <3>2. QED
      BY <2>1, <3>1 DEF Tidy
  <2>5. QED
    BY <2>2, <2>3, <2>4 DEF Tidy
<1>2. CASE Lookup(s) \/ RecordConflict(s) \/ Post(s) \/ PostFails(s) \/ Again(s)
  BY <1>2 DEF Lookup, RecordConflict, Post, PostFails, Again, Tidy
<1>3. CASE OpenChannel(s)
  BY <1>0, <1>3 DEF OpenChannel, Tidy
<1>4. CASE Record(s)
  BY <1>0, <1>4 DEF Record, Tidy
<1>5. CASE Bump(s)
  BY <1>0, <1>5 DEF Bump, Tidy
<1>6. ASSUME NEW r \in Recipients, Age(r) PROVE Tidy(s)'
  BY <1>6 DEF Age, Tidy
<1>7. ASSUME NEW r \in Recipients, GcClose(r) \/ GcCloseFails(r) PROVE Tidy(s)'
  <2>1. CASE GcClose(r) /\ r = To[s]
    BY <2>1 DEF GcClose, Tidy
  <2>2. CASE GcClose(r) /\ r # To[s]
    BY <1>0, <2>2 DEF GcClose, Tidy
  <2>3. CASE GcCloseFails(r)
    <3>1. /\ gcPc' = "sleep" /\ page' = {}
          /\ UNCHANGED <<rows, open, pc, torn, leaked>>
      BY <2>3 DEF GcCloseFails, GcEnds
    <3>2. QED
      BY <3>1 DEF Tidy
  <2>4. QED
    BY <1>7, <2>1, <2>2, <2>3
<1>8. CASE GcRead \/ GcDone
  BY <1>8 DEF GcRead, GcDone, Idle, Tidy
<1>9. CASE GcForget
  BY <1>9 DEF GcForget, Tidy
<1>10. CASE UNCHANGED vars
  BY <1>10 DEF vars, Tidy
<1>11. QED
  BY <1>1, <1>2, <1>3, <1>4, <1>5, <1>6, <1>7, <1>8, <1>9, <1>10
  DEF Next, Collect, Send, SendFails, GcForgetFails, Crash

AllTidy == calm => \A s \in Senders : Alone(s) => Tidy(s)

LEMMA TidyAlways == Spec => []AllTidy
<1>1. Init => AllTidy
  BY DEF Init, AllTidy, Tidy
<1>2. TypeOK /\ AllTidy /\ [Next]_vars => AllTidy'
  <2> SUFFICES ASSUME TypeOK, AllTidy, [Next]_vars, calm',
                      NEW s \in Senders, Alone(s)
               PROVE  Tidy(s)'
    BY DEF AllTidy, Alone
  <2>1. calm
    BY CalmBefore
  <2>2. QED
    BY <2>1, TidyStep DEF AllTidy
<1>3. QED
  BY <1>1, <1>2, MessengerTypes, PTL DEF Spec

\* Until something fails, nothing is left behind for a recipient that one goroutine
\* writes to: the interleavings with the collector are harmless.
THEOREM AloneIsClean == Spec => []CleanWhenAlone
<1>1. AllTidy => CleanWhenAlone
  BY DEF AllTidy, CleanWhenAlone, Tidy
<1>2. QED
  BY <1>1, TidyAlways, PTL

-----------------------------------------------------------------------------
(* What a message is lost to.                                              *)

\* While nothing fails, SendMessage gives a message up in two cases only: another
\* goroutine has made the recipient's row first; or the channel that it found was
\* closed, by a collector that has deleted the row since or is about to, or earlier,
\* in an interleaving of two writers that left a row for a closed channel.  To a
\* goroutine that writes to its recipient alone, only the collector can do that.
LossesExplained ==
  [][\A s \in Senders :
       calm' /\ pc[s] # "failed" /\ pc'[s] = "failed" =>
         \/ pc[s] = "opened" /\ rows[To[s]] # "none" /\ ~Alone(s)
         \/ /\ pc[s] = "found" /\ ~open[To[s]]
            /\ \/ rows[To[s]] = "none"
               \/ gcPc = "forget" /\ cur = To[s]
               \/ To[s] \in torn /\ ~Alone(s)]_vars

\* Only the two ways out of SendMessage that are no failure of a call are taken.
LEMMA LossStep ==
  ASSUME TypeOK, [Next]_vars, calm', NEW s \in Senders,
         pc[s] # "failed", pc'[s] = "failed"
  PROVE  RecordConflict(s) \/ PostFails(s)
<1> USE DEF TypeOK, gcVars, Goto
<1>1. ASSUME NEW q \in Senders, q # s, Send(q) \/ Again(q) \/ SendFails(q) PROVE FALSE
  BY <1>1 DEF Send, Lookup, OpenChannel, Record, RecordConflict, Post, PostFails,
              Bump, Again, SendFails
<1>2. ~Lookup(s) /\ ~OpenChannel(s) /\ ~Record(s) /\ ~Post(s) /\ ~Bump(s)
  BY DEF Lookup, OpenChannel, Record, Post, Bump
<1>3. ~Again(s) /\ ~SendFails(s)
  BY DEF Again, SendFails
<1>4. ASSUME NEW r \in Recipients, Age(r) \/ GcClose(r) \/ GcCloseFails(r) PROVE FALSE
  BY <1>4 DEF Age, GcClose, GcCloseFails, GcEnds
<1>5. CASE GcRead \/ GcForget \/ GcDone \/ GcForgetFails
  BY <1>5 DEF GcRead, GcForget, GcDone, GcForgetFails, GcEnds
<1>6. ~Crash
  BY DEF Crash
<1>7. CASE UNCHANGED vars
  BY <1>7 DEF vars
<1>8. QED
  BY <1>1, <1>2, <1>3, <1>4, <1>5, <1>6, <1>7 DEF Next, Collect, Send

\* Each message that is lost without a failure is lost to another writer or to the
\* collector's close between the lookup and the post.
THEOREM MessagesLostTo == Spec => LossesExplained
<1> DEFINE Explained(s) ==
      \/ pc[s] = "opened" /\ rows[To[s]] # "none" /\ ~Alone(s)
      \/ /\ pc[s] = "found" /\ ~open[To[s]]
         /\ \/ rows[To[s]] = "none"
            \/ gcPc = "forget" /\ cur = To[s]
            \/ To[s] \in torn /\ ~Alone(s)
<1>1. ASSUME TypeOK, Consistent, AllTidy, [Next]_vars, calm', NEW s \in Senders,
             pc[s] # "failed", pc'[s] = "failed"
      PROVE  Explained(s)
  <2>1. Alone(s) => Tidy(s)
    BY <1>1, CalmBefore DEF AllTidy
  <2>2. CASE RecordConflict(s)
    BY <2>1, <2>2 DEF RecordConflict, Tidy
  <2>3. CASE PostFails(s)
    <3>1. To[s] \in Recipients /\ pc[s] = "found" /\ ~open[To[s]]
      BY <2>3, ToAssumption DEF PostFails
    <3>2. rows[To[s]] = "none" \/ To[s] \in torn \/ (gcPc = "forget" /\ cur = To[s])
      BY <1>1, <3>1 DEF Consistent
    <3>3. Alone(s) => To[s] \notin torn
      BY <2>1 DEF Tidy
    <3>4. QED
      BY <3>1, <3>2, <3>3
  <2>4. QED
    BY <1>1, <2>2, <2>3, LossStep
<1>2. TypeOK /\ Consistent /\ AllTidy /\ [Next]_vars
        => [\A s \in Senders :
              calm' /\ pc[s] # "failed" /\ pc'[s] = "failed" => Explained(s)]_vars
  BY <1>1
<1>3. QED
  BY <1>2, MessengerTypes, ChannelsConsistent, TidyAlways, PTL DEF Spec, LossesExplained

-----------------------------------------------------------------------------
(* The collector's pass.                                                   *)

\* The collector has still to deal with the channel of r in this pass.
Chosen(r) == r \in page \/ (gcPc = "forget" /\ cur = r)

\* A pass over a table that fits the page chooses every idle channel, and does not
\* end before the row of each chosen one is gone, whatever senders do meanwhile.
\* Only a failure, or a row that names a closed channel, cuts it short.
PassIsComplete ==
  [][/\ GcRead /\ Cardinality(Recorded) <= PageLimit => Idle \subseteq page'
     /\ \A r \in Recipients :
          Chosen(r) => \/ Chosen(r)'
                       \/ rows'[r] = "none"
                       \/ ~calm' \/ torn # {}]_vars

\* What is chosen has a row, and once only.
Pass ==
  /\ gcPc = "sleep" => page = {}
  /\ page \subseteq Recorded
  /\ gcPc = "forget" => cur \in Recorded \ page

LEMMA PassStep == TypeOK /\ Pass /\ [Next]_vars => Pass'
<1> SUFFICES ASSUME TypeOK, Pass, [Next]_vars PROVE Pass'
  OBVIOUS
<1> USE DEF TypeOK, Pass, Recorded, gcVars, Goto
<1>1. ASSUME NEW s \in Senders, Send(s) \/ Again(s) \/ SendFails(s) PROVE Pass'
  <2>1. UNCHANGED gcVars /\ \A r \in Recipients : rows[r] # "none" => rows'[r] # "none"
    BY <1>1, ToAssumption
       DEF Send, Lookup, OpenChannel, Record, RecordConflict, Post, PostFails,
           Bump, Again, SendFails
  <2>2. QED
    BY <2>1
<1>2. ASSUME NEW r \in Recipients, Age(r) PROVE Pass'
  BY <1>2 DEF Age
<1>3. ASSUME NEW r \in Recipients, GcClose(r) PROVE Pass'
  BY <1>3 DEF GcClose
<1>4. ASSUME NEW r \in Recipients, GcCloseFails(r) PROVE Pass'
  <2>1. gcPc' = "sleep" /\ page' = {}
    BY <1>4, Zenon DEF GcCloseFails, GcEnds
  <2>2. QED
    BY <2>1
<1>5. CASE GcRead
  BY <1>5 DEF GcRead, Idle
<1>6. CASE GcForget \/ GcDone
  BY <1>6 DEF GcForget, GcDone
<1>7. CASE GcForgetFails \/ Crash
  BY <1>7 DEF GcForgetFails, GcEnds, Crash
<1>8. CASE UNCHANGED vars
  BY <1>8 DEF vars
<1>9. QED
  BY <1>1, <1>2, <1>3, <1>4, <1>5, <1>6, <1>7, <1>8 DEF Next, Collect

\* The table is finite, since it starts empty and each message adds a row at most.
LEMMA RecordedStep ==
  TypeOK /\ IsFiniteSet(Recorded) /\ [Next]_vars => IsFiniteSet(Recorded)'
<1> SUFFICES ASSUME TypeOK, IsFiniteSet(Recorded), [Next]_vars
             PROVE  IsFiniteSet(Recorded')
  OBVIOUS
<1> USE DEF TypeOK, gcVars, Goto
<1>1. \E r \in Recipients : Recorded' \subseteq Recorded \cup {r}
  <2>1. ASSUME NEW s \in Senders, Send(s) \/ Again(s) \/ SendFails(s)
        PROVE  Recorded' \subseteq Recorded \cup {To[s]}
    BY <2>1, ToAssumption
       DEF Send, Lookup, OpenChannel, Record, RecordConflict, Post, PostFails,
           Bump, Again, SendFails, Recorded
  <2>2. ASSUME NEW r \in Recipients, Age(r) PROVE Recorded' \subseteq Recorded
    BY <2>2 DEF Age, Recorded
  <2>3. CASE GcForget
    BY <2>3 DEF GcForget, Recorded
  <2>4. CASE UNCHANGED rows
    BY <2>4 DEF Recorded
  <2>5. ASSUME NEW r \in Recipients, GcClose(r) \/ GcCloseFails(r)
        PROVE  UNCHANGED rows
    BY <2>5 DEF GcClose, GcCloseFails, GcEnds
  <2>6. CASE GcRead \/ GcDone \/ GcForgetFails \/ Crash
    BY <2>4, <2>6 DEF GcRead, GcDone, GcForgetFails, GcEnds, Crash
  <2>7. cur \in Recipients /\ \A s \in Senders : To[s] \in Recipients
    BY ToAssumption
  <2>8. QED
    BY <2>1, <2>2, <2>3, <2>4, <2>5, <2>6, <2>7 DEF Next, Collect, vars
<1>2. PICK r \in Recipients : Recorded' \subseteq Recorded \cup {r}
  BY <1>1
<1>3. IsFiniteSet(Recorded \cup {r})
  BY FS_AddElement
<1>4. QED
  BY <1>2, <1>3, FS_Subset

\* A table that fits the page is read as a whole.
LEMMA PageIsTable ==
  ASSUME TypeOK, IsFiniteSet(Recorded), GcRead, Cardinality(Recorded) <= PageLimit
  PROVE  Idle \subseteq page'
<1>1. PICK S \in SUBSET Recorded :
        /\ Cardinality(S) = PageLimit \/ (S = Recorded /\ Cardinality(S) < PageLimit)
        /\ page' = S \cap Idle
  BY DEF GcRead
<1>2. /\ Cardinality(S) <= Cardinality(Recorded)
      /\ Cardinality(Recorded) = Cardinality(S) => Recorded = S
      /\ Cardinality(S) \in Nat /\ Cardinality(Recorded) \in Nat
  BY FS_Subset, FS_CardinalityType
<1>3. S = Recorded
  BY <1>1, <1>2, PageAssumption
<1>4. Idle \subseteq Recorded
  BY DEF Idle, Recorded
<1>5. QED
  BY <1>1, <1>3, <1>4

LEMMA ChosenStep ==
  ASSUME TypeOK, Consistent, Pass, [Next]_vars, calm', torn = {},
         NEW r \in Recipients, Chosen(r)
  PROVE  Chosen(r)' \/ rows'[r] = "none"
<1> USE DEF TypeOK, Chosen, gcVars
<1>1. ASSUME NEW s \in Senders, Send(s) \/ Again(s) \/ SendFails(s) PROVE UNCHANGED gcVars
  BY <1>1 DEF Send, Lookup, OpenChannel, Record, RecordConflict, Post, PostFails,
              Bump, Again, SendFails
<1>2. ASSUME NEW q \in Recipients, Age(q) PROVE UNCHANGED gcVars
  BY <1>2 DEF Age
<1>3. ASSUME NEW q \in Recipients, GcClose(q) PROVE Chosen(r)'
  BY <1>3 DEF GcClose
<1>4. ASSUME NEW q \in Recipients, GcCloseFails(q) PROVE FALSE
  <2>1. gcPc = "visit" /\ q \in page /\ ~open[q]
    BY <1>4 DEF GcCloseFails
  <2>2. rows[q] # "none"
    BY <2>1 DEF Pass, Recorded
  <2>3. QED
    BY <2>1, <2>2 DEF Consistent
<1>5. CASE GcForget
  BY <1>5 DEF GcForget
<1>6. ~GcRead /\ ~GcDone
  BY DEF GcRead, GcDone, Pass
<1>7. ~GcForgetFails /\ ~Crash
  BY DEF GcForgetFails, Crash
<1>8. QED
  BY <1>1, <1>2, <1>3, <1>4, <1>5, <1>6, <1>7 DEF Next, Collect, vars

\* A pass deals with every idle channel, and with each to the end.
THEOREM PassesComplete == Spec => PassIsComplete
<1> DEFINE Finite == IsFiniteSet(Recorded)
           Complete ==
             /\ GcRead /\ Cardinality(Recorded) <= PageLimit => Idle \subseteq page'
             /\ \A r \in Recipients :
                  Chosen(r) => \/ Chosen(r)'
                               \/ rows'[r] = "none"
                               \/ ~calm' \/ torn # {}
<1>1. Init => Pass /\ Finite
  <2>1. Init => Recorded = {}
    BY DEF Init, Recorded
  <2>2. QED
    BY <2>1, FS_EmptySet DEF Init, Pass
<1>2. TypeOK /\ Finite /\ [Next]_vars => Finite'
  BY RecordedStep
<1>3. TypeOK /\ Consistent /\ Pass /\ Finite /\ [Next]_vars => [Complete]_vars
  BY PageIsTable, ChosenStep
<1>4. PassIsComplete <=> [][Complete]_vars
  BY DEF PassIsComplete
<1> HIDE DEF Finite, Complete
<1>5. QED
  BY <1>1, <1>2, <1>3, <1>4, PassStep, MessengerTypes, ChannelsConsistent, PTL DEF Spec

=============================================================================
