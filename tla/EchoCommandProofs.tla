-------------------------- MODULE EchoCommandProofs --------------------------
(***************************************************************************)
(* The mutex of the echo command excludes, and no job is lost or announced *)
(* twice, for any number of interactions.                                  *)
(***************************************************************************)
EXTENDS EchoCommand, TLAPS

\* The keys Run still has to visit are in the map: nobody writes to the map
\* while it is ranged over.
SweepFits == runPc = "sweep" => sweep \subseteq jobs

\* Only a job whose handler stored it can have been announced.
AnnouncedAccepted == \A j \in Jobs : announced[j] > 0 => Accepted(j)

IInv == TypeOK /\ Exclusive /\ Conserved /\ SweepFits /\ AnnouncedAccepted

-----------------------------------------------------------------------------

LEMMA IInvInit == Init => IInv
<1> SUFFICES ASSUME Init PROVE IInv
  OBVIOUS
<1>1. TypeOK
  BY DEF Init, TypeOK
<1>2. Exclusive
  BY DEF Init, Exclusive, Insiders
<1>3. Conserved
  BY DEF Init, Conserved, Lost, Accepted
<1>4. QED
  BY <1>1, <1>2, <1>3 DEF Init, IInv, SweepFits, AnnouncedAccepted

LEMMA TypeStep == TypeOK /\ [Next]_vars => TypeOK'
<1> SUFFICES ASSUME TypeOK, [Next]_vars PROVE TypeOK'
  OBVIOUS
<1> USE DEF TypeOK
<1>1. ASSUME NEW j \in Jobs, Handle(j) \/ HandleStart(j) \/ HandleLock(j) \/ Due(j)
      PROVE  TypeOK'
  BY <1>1 DEF Handle, HandleStart, HandleLock, HandleStore, HandlePanic,
              HandleRespond, Due
<1>2. ASSUME NEW j \in Jobs, Sweep(j) \/ RunFails(j) PROVE TypeOK'
  BY <1>2 DEF Sweep, RunSkip, RunAnnounce, RunFails
<1>3. CASE RunStart \/ RunStops \/ RunTick \/ RunLock \/ RunUnlock \/ Stop
  BY <1>3 DEF RunStart, RunStops, RunTick, RunLock, RunUnlock, Stop
<1>4. CASE UNCHANGED vars
  BY <1>4 DEF vars
<1>5. QED
  BY <1>1, <1>2, <1>3, <1>4 DEF Next, Run

\* Exclusion, job by job: a form the steps can be checked against.
Inside(j) == hPc[j] \in {"inside", "panicked"}

LEMMA ExclusiveIff ==
  ASSUME TypeOK
  PROVE  Exclusive <=> /\ \A j \in Jobs : Inside(j) <=> lock = j
                       /\ runPc \in {"sweep", "failed"} <=> lock = "run"
<1>1. "run" \notin Jobs /\ "free" \notin Jobs
  BY JobsAssumption
<1>2. QED
  BY <1>1 DEF TypeOK, Exclusive, Insiders, Inside

LEMMA ExclusiveStep == TypeOK /\ Exclusive /\ [Next]_vars => Exclusive'
<1> SUFFICES ASSUME TypeOK, Exclusive, [Next]_vars PROVE Exclusive'
  OBVIOUS
<1> SUFFICES /\ \A j \in Jobs : Inside(j)' <=> lock' = j
             /\ runPc' \in {"sweep", "failed"} <=> lock' = "run"
  <2>1. TypeOK'
    BY TypeStep
  <2>2. "run" \notin Jobs /\ "free" \notin Jobs
    BY JobsAssumption
  <2>3. QED
    BY <2>1, <2>2 DEF TypeOK, Exclusive, Insiders, Inside
<1>0. /\ \A j \in Jobs : Inside(j) <=> lock = j
      /\ runPc \in {"sweep", "failed"} <=> lock = "run"
  BY ExclusiveIff
<1>1. "run" \notin Jobs /\ "free" \notin Jobs
  BY JobsAssumption
<1> USE DEF TypeOK, Inside
<1>2. ASSUME NEW k \in Jobs, Handle(k) \/ HandleStart(k) \/ HandleLock(k) \/ Due(k)
      PROVE  /\ \A j \in Jobs : Inside(j)' <=> lock' = j
             /\ runPc' \in {"sweep", "failed"} <=> lock' = "run"
  BY <1>0, <1>1, <1>2 DEF Handle, HandleStart, HandleLock, HandleStore,
                          HandlePanic, HandleRespond, Due
<1>3. ASSUME NEW k \in Jobs, Sweep(k) \/ RunFails(k)
      PROVE  /\ \A j \in Jobs : Inside(j)' <=> lock' = j
             /\ runPc' \in {"sweep", "failed"} <=> lock' = "run"
  BY <1>0, <1>3 DEF Sweep, RunSkip, RunAnnounce, RunFails
<1>4. CASE RunStart \/ RunStops \/ RunTick \/ RunLock \/ RunUnlock \/ Stop
  BY <1>0, <1>1, <1>4 DEF RunStart, RunStops, RunTick, RunLock, RunUnlock, Stop
<1>5. CASE UNCHANGED vars
  BY <1>0, <1>5 DEF vars
<1>6. QED
  BY <1>2, <1>3, <1>4, <1>5 DEF Next, Run

\* The sweep runs under the mutex, so a handler that stores does it outside.
LEMMA ConservedStep ==
  IInv /\ [Next]_vars => Conserved' /\ SweepFits' /\ AnnouncedAccepted'
<1> SUFFICES ASSUME IInv, [Next]_vars
             PROVE  Conserved' /\ SweepFits' /\ AnnouncedAccepted'
  OBVIOUS
<1> USE DEF IInv, TypeOK
<1>0. /\ \A j \in Jobs : Inside(j) <=> lock = j
      /\ runPc \in {"sweep", "failed"} <=> lock = "run"
  BY ExclusiveIff
<1>1. ASSUME NEW k \in Jobs,
             HandleStart(k) \/ HandleLock(k) \/ HandlePanic(k) \/ HandleRespond(k) \/ Due(k)
      PROVE  Conserved' /\ SweepFits' /\ AnnouncedAccepted'
  BY <1>1 DEF HandleStart, HandleLock, HandlePanic, HandleRespond, Due,
              Conserved, SweepFits, AnnouncedAccepted, Lost, Accepted
<1>2. ASSUME NEW k \in Jobs, HandleStore(k)
      PROVE  Conserved' /\ SweepFits' /\ AnnouncedAccepted'
  <2>1. runPc \notin {"sweep", "failed"}
    BY <1>0, <1>2, JobsAssumption DEF HandleStore, Inside
  <2>2. announced[k] = 0
    BY <1>2 DEF HandleStore, AnnouncedAccepted, Accepted
  <2>3. QED
    BY <1>2, <2>1, <2>2 DEF HandleStore, Conserved, SweepFits, AnnouncedAccepted,
                            Lost, Accepted
<1>3. ASSUME NEW k \in Jobs, RunSkip(k)
      PROVE  Conserved' /\ SweepFits' /\ AnnouncedAccepted'
  BY <1>3 DEF RunSkip, Conserved, SweepFits, AnnouncedAccepted, Lost, Accepted
<1>4. ASSUME NEW k \in Jobs, RunAnnounce(k)
      PROVE  Conserved' /\ SweepFits' /\ AnnouncedAccepted'
  <2>1. k \in jobs /\ k \in due
    BY <1>4 DEF RunAnnounce, SweepFits
  <2>2. announced[k] = 0 /\ Accepted(k)
    BY <2>1 DEF Conserved
  <2>3. announced'[k] = 1 /\ \A j \in Jobs : j # k => announced'[j] = announced[j]
    BY <1>4, <2>2 DEF RunAnnounce
  <2>4. \A j \in Jobs : Accepted(j)' <=> Accepted(j)
    BY <1>4 DEF RunAnnounce, Accepted
  <2>5. \A j \in Jobs : ~Lost(j)'
    BY <1>4, <2>3, <2>4 DEF RunAnnounce, Conserved, Lost
  <2>6. Conserved'
    BY <1>4, <2>1, <2>3, <2>4, <2>5 DEF RunAnnounce, Conserved
  <2>7. QED
    BY <1>4, <2>2, <2>3, <2>4, <2>6 DEF RunAnnounce, SweepFits, AnnouncedAccepted
<1>5. ASSUME NEW k \in Jobs, RunFails(k)
      PROVE  Conserved' /\ SweepFits' /\ AnnouncedAccepted'
  BY <1>5 DEF RunFails, Conserved, SweepFits, AnnouncedAccepted, Lost, Accepted
<1>6. CASE RunStart \/ RunStops \/ RunTick \/ RunLock \/ RunUnlock \/ Stop
  <2>1. runPc' = "failed" <=> runPc = "failed"
    BY <1>6 DEF RunStart, RunStops, RunTick, RunLock, RunUnlock, Stop
  <2>2. QED
    BY <1>6, <2>1 DEF RunStart, RunStops, RunTick, RunLock, RunUnlock, Stop,
                      Conserved, SweepFits, AnnouncedAccepted, Lost, Accepted
<1>7. CASE UNCHANGED vars
  BY <1>7 DEF vars, Conserved, SweepFits, AnnouncedAccepted, Lost, Accepted
<1>8. QED
  BY <1>1, <1>2, <1>3, <1>4, <1>5, <1>6, <1>7 DEF Next, Run, Handle, Sweep

LEMMA IInvAlways == Spec => []IInv
<1>1. IInv /\ [Next]_vars => IInv'
  BY TypeStep, ExclusiveStep, ConservedStep DEF IInv
<1>2. QED
  BY <1>1, IInvInit, PTL DEF Spec

-----------------------------------------------------------------------------

\* The state of the echo command keeps its types, whoever panics.
THEOREM EchoTypes == Spec => []TypeOK
BY IInvAlways, PTL DEF IInv

\* The mutex excludes handlers and sweeps from each other, also after one of
\* them has left without unlocking.
THEOREM EchoMutex == Spec => []Exclusive
BY IInvAlways, PTL DEF IInv

\* No accepted echo is announced early or twice, and at most one is ever lost:
\* the one whose refused announcement ended Run.
THEOREM EchoConserves == Spec => []Conserved
BY IInvAlways, PTL DEF IInv

=============================================================================
