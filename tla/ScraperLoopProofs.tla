-------------------------- MODULE ScraperLoopProofs --------------------------
(***************************************************************************)
(* The pauses of the scraper and what its polls store, for any periods and *)
(* any list of torrents.                                                   *)
(***************************************************************************)
EXTENDS ScraperLoop, TLAPS

\* A doubled period is in range, and there is no good poll.
LEMMA DoubleEffect ==
  ASSUME TypeOK, Double
  PROVE  currentPeriod' \in minPeriod .. maxPeriod /\ good' = 0
BY PeriodAssumption DEF TypeOK, Double

\* A halved period is in range and one rung lower.
LEMMA HalveEffect ==
  ASSUME TypeOK, Recovers, Halve
  PROVE  /\ currentPeriod' \in minPeriod .. maxPeriod
         /\ good' \in 0 .. Rungs
         /\ Recovers'
<1> USE PeriodAssumption, LadderAssumption DEF TypeOK, Halve
<1>1. currentPeriod' \in minPeriod .. maxPeriod /\ good' \in 0 .. Rungs
  OBVIOUS
<1>2. CASE good < Rungs
  <2>1. good \in 0 .. Rungs - 1 /\ good' = good + 1
    BY <1>2
  <2>2. Ladder[good] \in Nat /\ Ladder[good + 1] \in Nat
        /\ Ladder[good] \div 2 <= Ladder[good + 1]
    BY <2>1
  <2>3. QED
    BY <2>1, <2>2 DEF Recovers
<1>3. CASE good = Rungs
  BY <1>3 DEF Recovers
<1>4. QED
  BY <1>1, <1>2, <1>3

LEMMA Inductive == TypeOK /\ Recovers /\ [Next]_vars => TypeOK' /\ Recovers'
<1> SUFFICES ASSUME TypeOK, Recovers, [Next]_vars PROVE TypeOK' /\ Recovers'
  OBVIOUS
<1> USE PeriodAssumption, LadderAssumption
<1>1. ASSUME NEW t \in Torrents, Change(t) PROVE TypeOK' /\ Recovers'
  BY <1>1 DEF Change, TypeOK, Recovers
<1>2. CASE List \/ Wake
  BY <1>2, OrderAssumption DEF List, Wake, TypeOK, Recovers
<1>3. CASE Store
  BY <1>3 DEF Store, TypeOK, Recovers
<1>4. CASE ListFails \/ StoreFails
  <2>1. currentPeriod' \in minPeriod .. maxPeriod /\ good' = 0
    BY <1>4, DoubleEffect DEF ListFails, StoreFails
  <2>2. /\ pc' = "sleeping" /\ todo' \in Seq(Torrents)
        /\ UNCHANGED <<bad, changed, late>>
    <3>1. CASE ListFails
      BY <3>1 DEF ListFails, TypeOK
    <3>2. CASE StoreFails
      BY <3>2 DEF StoreFails
    <3>3. QED
      BY <1>4, <3>1, <3>2
  <2>3. TypeOK'
    BY <2>1, <2>2 DEF TypeOK
  <2>4. Recovers'
    BY <2>1 DEF Recovers
  <2>5. QED
    BY <2>3, <2>4
<1>5. CASE StoreUnheard
  <2>1. currentPeriod' \in minPeriod .. maxPeriod /\ good' = 0
    BY <1>5, DoubleEffect DEF StoreUnheard
  <2>2. TypeOK'
    BY <1>5, <2>1 DEF StoreUnheard, TypeOK
  <2>3. Recovers'
    BY <2>1 DEF Recovers
  <2>4. QED
    BY <2>2, <2>3
<1>6. CASE Done
  BY <1>6, HalveEffect DEF Done, TypeOK
<1>7. CASE UNCHANGED vars
  BY <1>7 DEF vars, TypeOK, Recovers
<1>8. QED
  BY <1>1, <1>2, <1>3, <1>4, <1>5, <1>6, <1>7 DEF Next, Scrape

\* The period stays between its bounds, and good polls bring it to the minimum.
THEOREM PeriodRecovers == Spec => [](TypeOK /\ Recovers)
<1>1. Init => TypeOK /\ Recovers
  BY PeriodAssumption, LadderAssumption DEF Init, TypeOK, Recovers
<1>2. QED
  BY <1>1, Inductive, PTL DEF Spec

\* The period and the failures counted against it keep their types and bounds.
THEOREM ScraperTypes == Spec => []TypeOK
BY PeriodRecovers, PTL

-----------------------------------------------------------------------------
(* What a poll stores.                                                     *)

\* A poll that ends by itself, or at a bad torrent, has stored every torrent that
\* is listed before all bad ones; only what changed since the list is left.
PollsAhead ==
  [][pc = "polling" /\ pc' = "sleeping" /\ ~Fault
       => changed \cap Ahead \subseteq late]_vars

\* A poll has its list from the k-th torrent on before it, and behind it torrents
\* that are not bad and stored as they were listed.
Position(k) ==
  /\ Len(todo) = Len(Order) - k
  /\ \A j \in 1 .. Len(todo) : todo[j] = Order[k + j]
  /\ \A j \in 1 .. k : /\ Order[j] \notin bad
                       /\ Order[j] \in changed => Order[j] \in late

Positioned == pc = "polling" => \E k \in 0 .. Len(Order) : Position(k)

LEMMA StoreAdvances ==
  ASSUME TypeOK, Store, NEW k \in 0 .. Len(Order), Position(k)
  PROVE  k + 1 \in 0 .. Len(Order) /\ Position(k + 1)'
<1> USE OrderAssumption DEF TypeOK, Store, Position
<1>1. /\ todo # <<>> /\ todo' = Tail(todo) /\ Len(todo) > 0
      /\ Len(todo') = Len(todo) - 1
      /\ \A j \in 1 .. Len(todo') : todo'[j] = todo[j + 1]
  OBVIOUS
<1>2. Len(Order) \in Nat /\ k + 1 <= Len(Order) /\ Len(todo') = Len(Order) - (k + 1)
  BY <1>1
<1>3. \A j \in 1 .. Len(todo') : todo'[j] = Order[(k + 1) + j]
  <2> TAKE j \in 1 .. Len(todo')
  <2>1. j + 1 \in 1 .. Len(todo) /\ todo[j + 1] = Order[k + (j + 1)]
    BY <1>1
  <2>2. k + (j + 1) = (k + 1) + j
    OBVIOUS
  <2>3. QED
    BY <1>1, <2>1, <2>2
<1>4. Head(todo) = Order[k + 1]
  BY <1>1
<1>5. \A j \in 1 .. k + 1 : /\ Order[j] \notin bad'
                            /\ Order[j] \in changed' => Order[j] \in late'
  <2> TAKE j \in 1 .. k + 1
  <2>1. CASE j \in 1 .. k
    BY <2>1
  <2>2. CASE j = k + 1
    BY <1>4, <2>2
  <2>3. QED
    BY <2>1, <2>2
<1>6. QED
  BY <1>2, <1>3, <1>5

LEMMA PositionedStep == TypeOK /\ Positioned /\ [Next]_vars => Positioned'
<1> SUFFICES ASSUME TypeOK, Positioned, [Next]_vars, pc' = "polling"
             PROVE  \E k \in 0 .. Len(Order) : Position(k)'
  BY DEF Positioned
<1>1. CASE List
  <2>1. 0 \in 0 .. Len(Order) /\ Position(0)'
    BY <1>1, OrderAssumption DEF List, Position
  <2>2. QED
    BY <2>1
<1>2. ASSUME NEW t \in Torrents, Change(t)
      PROVE  \E k \in 0 .. Len(Order) : Position(k)'
  <2>1. pc = "polling"
    BY <1>2 DEF Change
  <2>2. PICK k \in 0 .. Len(Order) : Position(k)
    BY <2>1 DEF Positioned
  <2>3. Position(k)'
    BY <1>2, <2>1, <2>2 DEF Change, Position
  <2>4. QED
    BY <2>3
<1>3. CASE Store
  <2>1. PICK k \in 0 .. Len(Order) : Position(k)
    BY <1>3 DEF Store, Positioned
  <2>2. QED
    BY <1>3, <2>1, StoreAdvances
<1>4. CASE UNCHANGED vars
  BY <1>4 DEF vars, Positioned, Position
<1>5. ~ListFails /\ ~StoreFails /\ ~StoreUnheard /\ ~Done /\ ~Wake
  BY DEF ListFails, StoreFails, StoreUnheard, Done, Wake
<1>6. QED
  BY <1>1, <1>2, <1>3, <1>4, <1>5 DEF Next, Scrape

LEMMA EndsAhead ==
  ASSUME TypeOK, Positioned, [Next]_vars,
         pc = "polling", pc' = "sleeping", ~Fault
  PROVE  changed \cap Ahead \subseteq late
<1>1. PICK k \in 0 .. Len(Order) : Position(k)
  BY DEF Positioned
<1>2. k = Len(Order) \/ (k + 1 \in 1 .. Len(Order) /\ Order[k + 1] \in bad)
  <2>1. CASE Done
    BY <1>1, <2>1, OrderAssumption DEF Done, Position
  <2>2. CASE StoreFails
    <3>1. todo # <<>> /\ Head(todo) \in bad
      BY <2>2 DEF StoreFails, Fault
    <3>2. Len(todo) > 0 /\ Head(todo) = todo[1]
      BY <3>1 DEF TypeOK
    <3>3. QED
      BY <1>1, <3>1, <3>2, OrderAssumption DEF Position, TypeOK
  <2>3. Done \/ StoreFails
    BY DEF Next, vars, Scrape, List, ListFails, Store, StoreUnheard, Wake, Change, Fault
  <2>4. QED
    BY <2>1, <2>2, <2>3
<1>3. SUFFICES ASSUME NEW t \in changed \cap Ahead PROVE t \in late
  OBVIOUS
<1>4. PICK i \in 1 .. Len(Order) :
        Order[i] = t /\ \A j \in 1 .. i : Order[j] \notin bad
  BY DEF Ahead
<1>5. i \in 1 .. k
  BY <1>2, <1>4, OrderAssumption
<1>6. QED
  BY <1>1, <1>4, <1>5 DEF Position

\* A torrent that the database refuses keeps none of those listed before it from
\* being stored in the same poll.
THEOREM PollsStoreAhead == Spec => PollsAhead
<1>1. Init => Positioned
  BY DEF Init, Positioned
<1>2. TypeOK /\ Positioned /\ [Next]_vars =>
        [pc = "polling" /\ pc' = "sleeping" /\ ~Fault
           => changed \cap Ahead \subseteq late]_vars
  BY EndsAhead
<1>3. QED
  BY <1>1, <1>2, PositionedStep, ScraperTypes, PTL DEF Spec, PollsAhead

=============================================================================
