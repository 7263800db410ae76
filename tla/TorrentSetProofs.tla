-------------------------- MODULE TorrentSetProofs --------------------------
(***************************************************************************)
(* Torrent.Set, for any number of dialogs and any categories: what a call  *)
(* that is not overtaken leaves, and that the statements implement the     *)
(* read and the commit of SetTransaction.                                  *)
(***************************************************************************)
EXTENDS TorrentSet, TLAPS

LEMMA TypeInit == Init => TypeOK
BY DEF Init, TypeOK, NoRecord, Record, Status, Names, Open

LEMMA OwnType == ASSUME TypeOK, NEW w \in Writers PROVE Own(w) \subseteq Categories
BY DEF TypeOK, Own

\* The record that a call builds, and the categories that it brings.
LEMMA ReadRecord ==
  ASSUME TypeOK, NEW w \in Writers, Read(w)
  PROVE  /\ own' \in [Writers -> SUBSET Categories]
         /\ \E r \in Record :
              /\ rec' = [rec EXCEPT ![w] = r]
              /\ r.st # "none" /\ (w \in Dialogs \/ r.name = row.name)
              /\ pc' \in {[pc EXCEPT ![w] = l] : l \in {"insert", "clear", "skip"}}
              /\ pc'[w] = "insert" <=> row.st = "none"
              /\ pc'[w] = "skip" => row = r
<1>1. PICK c \in Chosen(w) : own' = [own EXCEPT ![w] = c]
  BY DEF Read
<1>2. c \subseteq Categories
  BY DEF Chosen
<1>3. PICK s \in Status \ {"none"}, n \in Titled(w) :
        /\ rec' = [rec EXCEPT ![w] = [st |-> s, name |-> n]]
        /\ \/ row.st = "none" /\ Goto(w, "insert")
           \/ row.st # "none" /\ Goto(w, "clear")
           \/ row = [st |-> s, name |-> n] /\ Goto(w, "skip")
  BY DEF Read
<1>4. [st |-> s, name |-> n] \in Record /\ (w \in Dialogs \/ n = row.name)
  BY DEF Titled, Record, Names, TypeOK
<1>5. pc \in [Writers -> Open \cup {"out", "returned"}]
  BY DEF TypeOK
<1>6. own' \in [Writers -> SUBSET Categories]
  BY <1>1, <1>2 DEF TypeOK
<1>7. /\ pc' \in {[pc EXCEPT ![w] = l] : l \in {"insert", "clear", "skip"}}
      /\ pc'[w] = "insert" <=> row.st = "none"
      /\ pc'[w] = "skip" => row = [st |-> s, name |-> n]
  <2>1. row = [st |-> s, name |-> n] => row.st # "none"
    OBVIOUS
  <2>2. QED
    BY <1>3, <1>5, <2>1 DEF Goto
<1>8. QED
  BY <1>3, <1>4, <1>6, <1>7, [st |-> s, name |-> n].st = s,
     [st |-> s, name |-> n].name = n

LEMMA TypeStep == TypeOK /\ [Next]_vars => TypeOK'
<1> SUFFICES ASSUME TypeOK, [Next]_vars PROVE TypeOK'
  OBVIOUS
<1> USE DEF TypeOK, Goto, Open
<1>1. NoRecord \in Record
  BY DEF NoRecord, Record, Status, Names
<1>2. ASSUME NEW w \in Writers, Read(w) PROVE TypeOK'
  <2>1. /\ own' \in [Writers -> SUBSET Categories]
        /\ rec' \in [Writers -> Record]
        /\ pc' \in [Writers -> Open \cup {"out", "returned"}]
    BY <1>2, ReadRecord
  <2>2. row.st \in Status
    BY DEF Record
  <2>3. QED
    BY <1>2, <2>1, <2>2 DEF Read
<1>3. ASSUME NEW w \in Writers, Insert(w) \/ Clear(w) \/ Update(w) \/ Readd(w)
      PROVE  TypeOK'
  BY <1>3 DEF Insert, Clear, Update, Readd
<1>4. ASSUME NEW w \in Writers, NEW c \in Categories, ClearRow(w, c) PROVE TypeOK'
  BY <1>4 DEF ClearRow
<1>5. ASSUME NEW w \in Writers, Commit(w) \/ CommitUnchanged(w) PROVE TypeOK'
  <2>1. /\ pc' \in [Writers -> Open \cup {"out", "returned"}]
        /\ rec' \in [Writers -> Record]
        /\ seen' \in [Writers -> Status]
        /\ del' \in [Writers -> SUBSET Categories]
        /\ own' \in [Writers -> SUBSET Categories]
    BY <1>1, <1>5 DEF Commit, CommitUnchanged, Return, Status
  <2>2. CASE Commit(w)
    <3>1. row' \in Record /\ lock' \in Writers \cup {"free"}
      BY <2>2 DEF Commit
    <3>2. cats' \subseteq Categories
      BY <2>2, OwnType DEF Commit
    <3>3. found' \in [Writers -> SUBSET Categories] /\ over' \in [Writers -> BOOLEAN]
      BY <2>2 DEF Commit
    <3>4. QED
      BY <2>1, <3>1, <3>2, <3>3
  <2>3. CASE CommitUnchanged(w)
    BY <2>1, <2>3 DEF CommitUnchanged, Return
  <2>4. QED
    BY <1>5, <2>2, <2>3
<1>6. ASSUME NEW w \in Writers, Rollback(w) PROVE TypeOK'
  BY <1>1, <1>6 DEF Rollback, Return, Status
<1>7. CASE UNCHANGED vars
  BY <1>7 DEF vars
<1>8. QED
  BY <1>2, <1>3, <1>4, <1>5, <1>6, <1>7
     DEF Next, Statement, InsertConflict, ReaddConflict, BreakDeadlock, Fail

-----------------------------------------------------------------------------
(* Who holds the row, and what the reads of open transactions tell.        *)

\* The row is locked by the call that has written it and not yet committed; a
\* call that read no row and has the lock finds none; a call without a
\* transaction has no locals.
Ordered ==
  \A w \in Writers :
    /\ lock = w <=> pc[w] \in {"readd", "commit"}
    /\ pc[w] \in {"insert", "readd", "commit"} /\ lock = w /\ seen[w] = "none" =>
         row.st = "none"
    /\ pc[w] = "insert" => seen[w] = "none"
    /\ pc[w] \in {"clear", "clearing", "skip"} => seen[w] # "none"
    /\ pc[w] \in Open => rec[w].st # "none"
    /\ pc[w] \notin Open => seen[w] = "none"

LEMMA OrderedInit == Init => Ordered
BY FreeAssumption DEF Init, Ordered, Open, Writers

LEMMA OrderedStep == TypeOK /\ Ordered /\ [Next]_vars => Ordered'
<1> SUFFICES ASSUME TypeOK, Ordered, [Next]_vars PROVE Ordered'
  OBVIOUS
<1> USE DEF TypeOK, Goto, Open
<1>0. "free" \notin Writers
  BY FreeAssumption DEF Writers
<1>1. ASSUME NEW w \in Writers, Read(w) PROVE Ordered'
  <2>1. /\ rec'[w].st # "none" /\ \A v \in Writers \ {w} : rec'[v] = rec[v]
        /\ pc'[w] \in {"insert", "clear", "skip"} /\ (pc'[w] = "insert" <=> row.st = "none")
        /\ \A v \in Writers \ {w} : pc'[v] = pc[v]
    BY <1>1, ReadRecord
  <2>2. /\ \A v \in Writers \ {w} : seen'[v] = seen[v]
        /\ seen'[w] = row.st /\ row' = row /\ lock' = lock /\ lock # w
    BY <1>1 DEF Read, Ordered
  <2>3. QED
    BY <2>1, <2>2 DEF Ordered
<1>2. ASSUME NEW w \in Writers, Insert(w) \/ Clear(w) \/ Update(w) \/ Readd(w)
      PROVE  Ordered'
  BY <1>0, <1>2 DEF Insert, Clear, Update, Readd, Ordered
<1>3. ASSUME NEW w \in Writers, NEW c \in Categories, ClearRow(w, c) PROVE Ordered'
  BY <1>3 DEF ClearRow, Ordered
<1>4. ASSUME NEW w \in Writers, Commit(w) PROVE Ordered'
  <2>1. \A v \in Writers : v # w => pc[v] \notin {"readd", "commit"}
    BY <1>4 DEF Commit, Ordered
  <2>2. QED
    BY <1>0, <1>4, <2>1 DEF Commit, Return, Ordered
<1>5. ASSUME NEW w \in Writers, CommitUnchanged(w) \/ Rollback(w) PROVE Ordered'
  BY <1>0, <1>5 DEF CommitUnchanged, Rollback, Return, Ordered
<1>6. CASE UNCHANGED vars
  BY <1>6 DEF vars, Ordered
<1>7. QED
  BY <1>1, <1>2, <1>3, <1>4, <1>5, <1>6
     DEF Next, Statement, InsertConflict, ReaddConflict, BreakDeadlock, Fail

-----------------------------------------------------------------------------
(* What a call that is not overtaken leaves.                               *)

\* Without a row there is no category.  While nobody commits, the categories a
\* call has deleted or is about to delete are all there are, the name the
\* scraper read is the stored one, and the record of a call that writes nothing
\* is the stored row.
Exact ==
  /\ row.st = "none" => cats = {}
  /\ \A w \in Writers :
       pc[w] \in Open /\ ~over[w] =>
         /\ pc[w] = "clearing" => cats \subseteq found[w] \cup del[w]
         /\ pc[w] \in {"readd", "commit"} => cats \subseteq del[w]
         /\ pc[w] = "skip" => row = rec[w]
         /\ w \in Dialogs \/ rec[w].name = row.name
  /\ \A w \in Writers : pc[w] \notin Open => ~over[w]

LEMMA ExactStep == TypeOK /\ Ordered /\ Exact /\ [Next]_vars => Exact'
<1> SUFFICES ASSUME TypeOK, Ordered, Exact, [Next]_vars PROVE Exact'
  OBVIOUS
<1> USE DEF TypeOK, Goto, Open
<1>1. ASSUME NEW w \in Writers, Read(w) PROVE Exact'
  <2>1. /\ w \in Dialogs \/ rec'[w].name = row.name
        /\ pc'[w] \in {"insert", "clear", "skip"} /\ (pc'[w] = "skip" => row = rec'[w])
        /\ \A v \in Writers \ {w} : rec'[v] = rec[v] /\ pc'[v] = pc[v]
    BY <1>1, ReadRecord
  <2>2. UNCHANGED <<row, cats, found, del, over>>
    BY <1>1 DEF Read
  <2>3. QED
    BY <1>1, <2>1, <2>2 DEF Exact
<1>2. ASSUME NEW w \in Writers, Insert(w) \/ Clear(w) \/ Update(w) \/ Readd(w)
      PROVE  Exact'
  BY <1>2 DEF Insert, Clear, Update, Readd, Exact
<1>3. ASSUME NEW w \in Writers, NEW c \in Categories, ClearRow(w, c) PROVE Exact'
  BY <1>3 DEF ClearRow, Exact
<1>4. ASSUME NEW w \in Writers, Commit(w) PROVE Exact'
  <2>1. rec[w].st # "none" /\ row' = rec[w]
    BY <1>4 DEF Commit, Ordered
  <2>2. \A v \in Writers : pc'[v] \in Open => v # w /\ over'[v]
    BY <1>4 DEF Commit, Return
  <2>3. \A v \in Writers : pc'[v] \notin Open => ~over'[v]
    BY <1>4 DEF Commit, Return
  <2>4. QED
    BY <2>1, <2>2, <2>3 DEF Exact
<1>5. ASSUME NEW w \in Writers, CommitUnchanged(w) \/ Rollback(w) PROVE Exact'
  <2>1. /\ pc'[w] \notin Open /\ ~over'[w] /\ UNCHANGED <<row, cats>>
        /\ \A v \in Writers \ {w} :
             /\ pc'[v] = pc[v] /\ over'[v] = over[v] /\ rec'[v] = rec[v]
             /\ found'[v] = found[v] /\ del'[v] = del[v]
    BY <1>5 DEF CommitUnchanged, Rollback, Return
  <2>2. QED
    BY <2>1 DEF Exact
<1>6. CASE UNCHANGED vars
  BY <1>6 DEF vars, Exact
<1>7. QED
  BY <1>1, <1>2, <1>3, <1>4, <1>5, <1>6
     DEF Next, Statement, InsertConflict, ReaddConflict, BreakDeadlock, Fail

IInv == TypeOK /\ Ordered /\ Exact

LEMMA IInvAlways == Spec => []IInv
<1>1. Init => IInv
  BY TypeInit, OrderedInit DEF Init, IInv, Exact, Open
<1>2. IInv /\ [Next]_vars => IInv'
  BY TypeStep, OrderedStep, ExactStep DEF IInv
<1>3. QED
  BY <1>1, <1>2, PTL DEF Spec

\* The state of the transactions keeps its types, whichever is aborted.
THEOREM SetTypes == Spec => []TypeOK
BY IInvAlways, PTL DEF IInv

\* A call that nobody overtook leaves its own categories and no others, and the
\* scraper's leaves the friendly name.
THEOREM SetIsExact == Spec => []ExactUnlessOvertaken
<1>1. IInv => ExactUnlessOvertaken
  BY DEF IInv, TypeOK, Exact, ExactUnlessOvertaken, Open
<1>2. QED
  BY <1>1, IInvAlways, PTL

-----------------------------------------------------------------------------
(* Who can wait for whom.                                                  *)

\* What a call has still to delete is there, and is not among what it deleted.
Pending ==
  \A w \in Writers :
    /\ found[w] \subseteq cats /\ found[w] \cap del[w] = {}
    /\ pc[w] # "clearing" => found[w] = {}
    /\ pc[w] \notin {"clearing", "readd", "commit"} => del[w] = {}

LEMMA PendingStep == TypeOK /\ Pending /\ [Next]_vars => Pending'
<1> SUFFICES ASSUME TypeOK, Pending, [Next]_vars PROVE Pending'
  OBVIOUS
<1> USE DEF TypeOK, Pending, Goto
<1>1. ASSUME NEW w \in Writers, Read(w) PROVE Pending'
  <2>1. /\ \A v \in Writers \ {w} : pc'[v] = pc[v]
        /\ pc'[w] \in {"insert", "clear", "skip"}
    BY <1>1, ReadRecord
  <2>2. UNCHANGED <<cats, found, del>> /\ pc[w] = "out"
    BY <1>1 DEF Read
  <2>3. QED
    BY <2>1, <2>2
<1>2. ASSUME NEW w \in Writers, Insert(w) \/ Clear(w) \/ Update(w) \/ Readd(w)
      PROVE  Pending'
  BY <1>2 DEF Insert, Clear, Update, Readd
<1>3. ASSUME NEW w \in Writers, NEW c \in Categories, ClearRow(w, c) PROVE Pending'
  BY <1>3 DEF ClearRow
<1>4. ASSUME NEW w \in Writers, Commit(w) PROVE Pending'
  <2>1. /\ cats' = (cats \ del[w]) \cup Own(w)
        /\ \A v \in Writers : found'[v] = found[v] \ del[w]
        /\ \A v \in Writers \ {w} : pc'[v] = pc[v] /\ del'[v] = del[v]
        /\ del'[w] = {} /\ pc'[w] \notin {"clearing", "readd", "commit"}
        /\ found[w] = {}
    BY <1>4 DEF Commit, Return
  <2>2. QED
    BY <2>1
<1>5. ASSUME NEW w \in Writers, CommitUnchanged(w) \/ Rollback(w) PROVE Pending'
  <2>1. /\ cats' = cats /\ found'[w] = {} /\ del'[w] = {}
        /\ pc'[w] \notin {"clearing", "readd", "commit"}
        /\ \A v \in Writers \ {w} :
             pc'[v] = pc[v] /\ found'[v] = found[v] /\ del'[v] = del[v]
    BY <1>5 DEF CommitUnchanged, Rollback, Return
  <2>2. QED
    BY <2>1
<1>6. CASE UNCHANGED vars
  BY <1>6 DEF vars
<1>7. QED
  BY <1>1, <1>2, <1>3, <1>4, <1>5, <1>6
     DEF Next, Statement, InsertConflict, ReaddConflict, BreakDeadlock, Fail

\* While nobody is overtaken and there is one category at most, the call that
\* holds the row waits for none; so in a circle everybody waits for a category
\* that another has deleted and has one left to delete itself: that makes two.
LEMMA NoCircle ==
  ASSUME IInv, Pending,
         \A v \in Writers : pc[v] \in Open => ~over[v],
         \A c, d \in cats : c = d,
         NEW W \in SUBSET Writers,
         \A u \in W : \E v \in W : WaitsFor(u, v)
  PROVE  W = {}
<1> USE DEF IInv, Open
<1>1. ASSUME NEW u \in Writers, NEW v \in Writers, WaitsFor(u, v) PROVE pc[u] # "readd"
  <2>1. SUFFICES ASSUME pc[u] = "readd" PROVE FALSE
    OBVIOUS
  <2>2. cats \subseteq del[u]
    BY <2>1 DEF Exact
  <2>3. QED
    BY <1>1, <2>1, <2>2 DEF WaitsFor
<1>2. ASSUME NEW u \in Writers, NEW v \in Writers, WaitsFor(u, v) PROVE lock # u
  BY <1>1, <1>2 DEF WaitsFor, Ordered
<1>3. ASSUME NEW u \in W
      PROVE  pc[u] = "clearing" /\ \E v \in W : found[u] \cap del[v] # {}
  <2>1. PICK v \in W : WaitsFor(u, v)
    OBVIOUS
  <2>2. lock # v
    BY <1>2
  <2>3. QED
    BY <1>1, <2>1, <2>2 DEF WaitsFor
<1>4. ASSUME NEW u \in W PROVE FALSE
  <2>1. PICK v \in W : found[u] \cap del[v] # {}
    BY <1>3
  <2>2. PICK c \in found[u] : c \in del[v]
    BY <2>1
  <2>3. PICK d \in found[v] : TRUE
    BY <1>3
  <2>4. c \in cats /\ d \in cats /\ d \notin del[v]
    BY DEF Pending
  <2>5. QED
    BY <2>2, <2>4
<1>5. QED
  BY <1>4

\* Two calls alone never wait for one another, for any number of dialogs and
\* categories: a circle needs one that was overtaken, or a second category.
THEOREM SetDeadlocksNeedThird == Spec => []DeadlockNeedsThird
<1>1. Init => Pending
  BY DEF Init, Pending
<1>2. IInv /\ Pending => DeadlockNeedsThird
  BY NoCircle DEF DeadlockNeedsThird, Deadlocked
<1>3. QED
  BY <1>1, <1>2, IInvAlways, SetTypes, PendingStep, PTL DEF Spec

-----------------------------------------------------------------------------
(* Nobody waits for nothing.                                               *)

\* The statement of w goes on, with success or with a conflict: what it needs is
\* held by no open transaction.
CanGo(w) ==
  \/ pc[w] \in {"clear", "commit", "skip"}
  \/ pc[w] = "insert" /\ lock = "free"
  \/ pc[w] = "clearing" /\ found[w] = {} /\ lock = "free"
  \/ /\ pc[w] = "clearing"
     /\ \E c \in found[w] : \A v \in Writers : c \notin del[v]
  \/ /\ pc[w] = "readd"
     /\ \/ Own(w) \cap (cats \ del[w]) = {}
        \/ \E c \in Own(w) \cap (cats \ del[w]) : \A v \in Writers : c \notin del[v]

\* While calls are under way one of them gets on, or PostgreSQL sees a deadlock to
\* break: no lock outlives its transaction, however it ended.
NobodyStuck ==
  (\E w \in Writers : pc[w] \in Open) =>
    \E w \in Writers : pc[w] \in Open /\ (CanGo(w) \/ Deadlocked(w))

\* A call that cannot go on waits for another one that is under way.
LEMMA WaitsForSomeone ==
  ASSUME TypeOK, Ordered, Pending, NEW w \in Writers, pc[w] \in Open, ~CanGo(w)
  PROVE  \E v \in Writers : pc[v] \in Open /\ WaitsFor(w, v)
<1> USE DEF Open
<1>1. \A v \in Writers : lock = v => pc[v] \in {"readd", "commit"}
  BY DEF Ordered
<1>2. \A v \in Writers : del[v] # {} => pc[v] \in {"clearing", "readd", "commit"}
  BY DEF Pending
<1>3. CASE (pc[w] = "insert" \/ (pc[w] = "clearing" /\ found[w] = {})) /\ lock # "free"
  <2>1. lock \in Writers /\ lock # w
    BY <1>1, <1>3 DEF TypeOK
  <2>2. QED
    BY <1>1, <1>3, <2>1 DEF WaitsFor
<1>4. CASE pc[w] = "clearing" /\ found[w] # {}
  <2>1. \A c \in found[w] : \E v \in Writers : c \in del[v]
    BY <1>4 DEF CanGo
  <2>2. PICK c \in found[w] : TRUE
    BY <1>4
  <2>3. PICK v \in Writers : c \in del[v]
    BY <2>1
  <2>4. v # w
    BY <2>3 DEF Pending
  <2>5. found[w] \subseteq UNION {del[u] : u \in Writers}
    BY <2>1
  <2>6. pc[v] \in Open /\ found[w] \cap del[v] # {}
    BY <1>2, <2>2, <2>3
  <2>7. QED
    BY <1>4, <2>4, <2>5, <2>6 DEF WaitsFor
<1>5. CASE pc[w] = "readd"
  <2>1. PICK c \in Own(w) \cap (cats \ del[w]) : \E v \in Writers : c \in del[v]
    BY <1>5 DEF CanGo
  <2>2. PICK v \in Writers : c \in del[v]
    BY <2>1
  <2>3. QED
    BY <1>2, <1>5, <2>1, <2>2 DEF WaitsFor
<1>6. QED
  BY <1>3, <1>4, <1>5 DEF CanGo

\* If no call under way can go on, they all wait for one another, for any number of
\* dialogs and categories and after any failures.
THEOREM SetsGetOn == Spec => []NobodyStuck
<1>1. Init => Pending
  BY DEF Init, Pending
<1>2. TypeOK /\ Ordered /\ Pending => NobodyStuck
  <2> SUFFICES ASSUME TypeOK, Ordered, Pending,
                      NEW w \in Writers, pc[w] \in Open,
                      \A u \in Writers : pc[u] \in Open => ~CanGo(u)
               PROVE  Deadlocked(w)
    BY DEF NobodyStuck
  <2> DEFINE W == {u \in Writers : pc[u] \in Open}
  <2>1. \A u \in W : \E v \in W : WaitsFor(u, v)
    BY WaitsForSomeone
  <2>2. QED
    BY <2>1 DEF Deadlocked
<1>3. QED
  BY <1>1, <1>2, IInvAlways, PendingStep, PTL DEF Spec, IInv

-----------------------------------------------------------------------------
(* Refinement.                                                             *)

Busy == {w \in Writers : pc[w] \in Open}

LEMMA TransactionStep == IInv /\ [Next]_vars => [Transaction!Next]_(Transaction!vars)
<1> SUFFICES ASSUME IInv, [Next]_vars
             PROVE  Transaction!Next \/ UNCHANGED Transaction!vars
  OBVIOUS
<1> USE DEF IInv, TypeOK, Goto, Open
<1>1. ASSUME NEW w \in Writers, Read(w) PROVE Transaction!Begin(w)
  <2>1. /\ pc[w] = "out" /\ pc'[w] \in {"insert", "clear", "skip"}
        /\ \A v \in Writers \ {w} : pc'[v] = pc[v]
    BY <1>1, ReadRecord DEF Read
  <2>2. w \notin Busy /\ Busy' = Busy \cup {w}
    BY <2>1 DEF Busy
  <2>3. QED
    BY <1>1, <2>2 DEF Read, Busy, Transaction!Begin
<1>2. ASSUME NEW w \in Writers, Commit(w) \/ CommitUnchanged(w)
      PROVE  Transaction!Commit(w)
  <2>1. w \in Busy /\ Busy' = Busy \ {w} /\ seen' = [seen EXCEPT ![w] = "none"]
    BY <1>2 DEF Commit, CommitUnchanged, Return, Busy
  <2>2. seen[w] = "none" => row.st = "none"
    BY <1>2 DEF Commit, CommitUnchanged, Ordered
  <2>3. \E new \in Status \ {"none"} :
          row'.st = new \/ (row'.st = row.st /\ seen[w] = new)
    <3>1. CASE Commit(w)
      <4>1. row'.st = rec[w].st /\ rec[w].st \in Status \ {"none"}
        BY <3>1 DEF Commit, Ordered, Record
      <4>2. QED
        BY <4>1
    <3>2. CASE CommitUnchanged(w)
      <4>1. row'.st = row.st /\ seen[w] \in Status \ {"none"}
        BY <3>2 DEF CommitUnchanged, Ordered
      <4>2. QED
        BY <4>1
    <3>3. QED
      BY <1>2, <3>1, <3>2
  <2>4. QED
    BY <2>1, <2>2, <2>3 DEF Busy, Status, Transaction!Commit, Transaction!Status
<1>3. ASSUME NEW w \in Writers, Rollback(w), pc[w] \in Open
      PROVE  Transaction!Abort({w})
  <2>1. Busy' = Busy \ {w} /\ row' = row
    BY <1>3 DEF Rollback, Return, Busy
  <2>2. seen' = [v \in Writers |-> IF v \in {w} THEN "none" ELSE seen[v]]
    BY <1>3 DEF Rollback, Return
  <2>3. QED
    BY <2>1, <2>2 DEF Busy, Transaction!Abort
<1>4. ASSUME NEW w \in Writers, BreakDeadlock(w) PROVE pc[w] \in Open
  BY <1>4 DEF BreakDeadlock, Deadlocked, WaitsFor
<1>5. ASSUME NEW w \in Writers,
             InsertConflict(w) \/ ReaddConflict(w) \/ BreakDeadlock(w) \/ Fail(w)
      PROVE  Transaction!Next
  <2>1. Rollback(w) /\ pc[w] \in Open
    BY <1>4, <1>5 DEF InsertConflict, ReaddConflict, BreakDeadlock, Fail
  <2>2. Transaction!Abort({w}) /\ {w} \in SUBSET Writers
    BY <1>3, <2>1
  <2>3. QED
    BY <2>2 DEF Transaction!Next
<1>6. ASSUME NEW w \in Writers,
             Insert(w) \/ Clear(w) \/ Update(w) \/ Readd(w)
               \/ \E c \in Categories : ClearRow(w, c)
      PROVE  UNCHANGED Transaction!vars
  <2>1. Busy' = Busy
    BY <1>6 DEF Insert, Clear, Update, Readd, ClearRow, Busy
  <2>2. row' = row /\ seen' = seen
    BY <1>6 DEF Insert, Clear, Update, Readd, ClearRow
  <2>3. QED
    BY <2>1, <2>2 DEF Busy, Transaction!vars
<1>7. CASE UNCHANGED vars
  BY <1>7 DEF vars, Transaction!vars
<1>8. QED
  BY <1>1, <1>2, <1>5, <1>6, <1>7 DEF Next, Statement, Transaction!Next

\* The statements of Torrent.Set, with their locks and waits, conflicts and
\* deadlocks, implement a read followed by a commit.
THEOREM SetIsTransaction == Spec => ImplementsTransaction
<1>1. Init => Transaction!Init
  BY DEF Init, NoRecord, Open, Transaction!Init
<1>2. QED
  BY <1>1, TransactionStep, IInvAlways, PTL
     DEF Spec, ImplementsTransaction, Transaction!Spec

-----------------------------------------------------------------------------
(* What a call may rely on, carried over from the abstract transaction.    *)

LEMMA RowKeptStep ==
  ASSUME seen \in [Writers -> Status], Transaction!RowKept,
         [Transaction!Next]_(Transaction!vars)
  PROVE  Transaction!RowKept' /\ (row.st # "none" => row'.st # "none")
<1> USE DEF Transaction!RowKept
<1>1. ASSUME NEW w \in Writers, Transaction!Begin(w)
      PROVE  Transaction!RowKept' /\ row'.st = row.st
  BY <1>1 DEF Transaction!Begin
<1>2. ASSUME NEW w \in Writers, Transaction!Commit(w)
      PROVE  Transaction!RowKept' /\ (row.st # "none" => row'.st # "none")
  <2>1. row'.st # "none" \/ row'.st = row.st
    BY <1>2 DEF Transaction!Commit
  <2>2. \A v \in Writers : seen'[v] = seen[v] \/ seen'[v] = "none"
    BY <1>2 DEF Transaction!Commit
  <2>3. QED
    BY <2>1, <2>2
<1>3. ASSUME NEW W \in SUBSET Writers, Transaction!Abort(W)
      PROVE  Transaction!RowKept' /\ row'.st = row.st
  BY <1>3 DEF Transaction!Abort
<1>4. CASE UNCHANGED Transaction!vars
  BY <1>4 DEF Transaction!vars
<1>5. QED
  BY <1>1, <1>2, <1>3, <1>4 DEF Transaction!Next

\* A call that is to write finds what it counted.  An insert is committed only where
\* there is no row, an update only over one, and a call that clears or skips has one:
\* the count and the statement that acts on it never disagree, although the
\* transaction does not see to it.
WritesFit ==
  \A w \in Writers :
    /\ pc[w] \in {"readd", "commit"} => (seen[w] = "none" <=> row.st = "none")
    /\ pc[w] \in {"clear", "clearing", "skip"} => row.st # "none"

\* For any callers and failures, no call acts on a count that no longer holds: rows
\* are never removed, and those that found none are stopped by the key.
THEOREM SetWritesFit == Spec => []WritesFit
<1>1. Transaction!Init => Transaction!RowKept
  BY DEF Transaction!Init, Transaction!RowKept
<1>2. IInv => seen \in [Writers -> Status]
  BY DEF IInv, TypeOK
<1>3. IInv /\ Transaction!RowKept => WritesFit
  BY DEF IInv, Ordered, Transaction!RowKept, WritesFit
<1>4. QED
  BY <1>1, <1>2, <1>3, RowKeptStep, SetIsTransaction, IInvAlways, PTL
  DEF ImplementsTransaction, Transaction!Spec

=============================================================================
