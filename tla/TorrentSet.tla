----------------------------- MODULE TorrentSet -----------------------------
(***************************************************************************)
(* Torrent.Set (models/torrents.go), statement by statement, for one       *)
(* torrent and several callers: the dialogs, which bring a friendly name   *)
(* and at most one category, and the scraper, which brings neither and     *)
(* calls Set again and again.                                              *)
(*                                                                         *)
(* The statements run in a READ COMMITTED transaction of PostgreSQL, which *)
(* is external to the program: a statement sees what was committed when it *)
(* started, waits for a row that another open transaction wrote, and goes  *)
(* on with what that transaction left.  The labels of a torrent are        *)
(* treated like its categories, but nobody sets one, so their table is     *)
(* empty and left out.                                                     *)
(***************************************************************************)
EXTENDS FiniteSets

CONSTANTS
  Dialogs,     \* calls of Set by HandleModal, one each
  Scraper,     \* the scraper
  Titles,      \* friendly names that a dialog may give
  Categories,  \* categories that a dialog may name
  Faults       \* {"fail"} when the database or the context may fail a call

ASSUME ScraperAssumption == Scraper \notin Dialogs
ASSUME TitlesAssumption == "unnamed" \notin Titles
ASSUME FreeAssumption == "free" \notin Dialogs \cup {Scraper}
ASSUME FaultsAssumption == Faults \subseteq {"fail"}

Writers == Dialogs \cup {Scraper}

\* The completion status of a record and its friendly name; the other columns
\* are abstracted.
Status == {"none", "loading", "done"}
Names == Titles \cup {"unnamed"}
Record == [st : Status, name : Names]

VARIABLES
  own,    \* the categories that an open call brings
  row,    \* table torrents, committed; st is "none" without a row
  cats,   \* table torrent_categories, committed
  lock,   \* who has an uncommitted insert or update of the row, or "free"
  pc,     \* where each call is
  rec,    \* the record of each call
  seen,   \* the status its transaction read
  found,  \* the categories its DELETE found and has not deleted yet
  del,    \* the categories it has deleted, uncommitted
  over    \* history: another call committed since it read

vars == <<own, row, cats, lock, pc, rec, seen, found, del, over>>

\* Where a transaction is open.
Open == {"insert", "clear", "clearing", "readd", "commit", "skip"}

\* Mutant: the friendly name is stored as the category.
OwnName(w) == {rec[w].name}

\* The categories that a call adds.
Own(w) == own[w]

Goto(w, l) == pc' = [pc EXCEPT ![w] = l]

NoRecord == [st |-> "none", name |-> "unnamed"]

\* The call returns, with an error or without; its transaction and its locals are
\* gone.  A dialog calls Set once.
Return(w) ==
  /\ Goto(w, IF w \in Dialogs THEN "returned" ELSE "out")
  /\ rec' = [rec EXCEPT ![w] = NoRecord]
  /\ seen' = [seen EXCEPT ![w] = "none"]
  /\ del' = [del EXCEPT ![w] = {}]
  /\ own' = [own EXCEPT ![w] = {}]

-----------------------------------------------------------------------------

\* Mutant: what the scraper does not bring is taken as empty.
TitledForgetful(w) == IF w \in Dialogs THEN Titles ELSE {"unnamed"}

\* A dialog brings a friendly name; the scraper takes the one in the row.
Titled(w) == IF w \in Dialogs THEN Titles ELSE {row.name}

\* A dialog brings a category or none, the scraper none.
Chosen(w) == IF w \in Dialogs THEN {{c} : c \in Categories} \cup {{}} ELSE {{}}

\* The transaction begins, counts the rows and reads the one there is.  The
\* update is skipped for a record that equals it, whatever its categories; one
\* that agrees here may still differ in a column that is abstracted.
Read(w) ==
  /\ pc[w] = "out"
  /\ seen' = [seen EXCEPT ![w] = row.st]
  /\ \E c \in Chosen(w) : own' = [own EXCEPT ![w] = c]
  /\ \E s \in Status \ {"none"}, n \in Titled(w) :
       /\ rec' = [rec EXCEPT ![w] = [st |-> s, name |-> n]]
       /\ \/ row.st = "none" /\ Goto(w, "insert")
          \/ row.st # "none" /\ Goto(w, "clear")
          \/ row = [st |-> s, name |-> n] /\ Goto(w, "skip")
  /\ UNCHANGED <<row, cats, lock, found, del, over>>

\* Mutant: an insert that replaces the row it finds.
InsertUpsert(w) ==
  /\ pc[w] = "insert" /\ lock = "free"
  /\ lock' = w
  /\ Goto(w, "readd")
  /\ UNCHANGED <<own, row, cats, rec, seen, found, del, over>>

\* INSERT INTO torrents, when no row was counted; an open transaction that
\* inserted the same key is waited for.
Insert(w) ==
  /\ pc[w] = "insert" /\ lock = "free" /\ row.st = "none"
  /\ lock' = w
  /\ Goto(w, "readd")
  /\ UNCHANGED <<own, row, cats, rec, seen, found, del, over>>

\* DELETE FROM torrent_categories finds the committed rows, ...
Clear(w) ==
  /\ pc[w] = "clear"
  /\ found' = [found EXCEPT ![w] = cats]
  /\ Goto(w, "clearing")
  /\ UNCHANGED <<own, row, cats, lock, rec, seen, del, over>>

\* ... waits for each that an open transaction has deleted, and deletes it.
ClearRow(w, c) ==
  /\ pc[w] = "clearing" /\ c \in found[w]
  /\ \A v \in Writers : c \notin del[v]
  /\ found' = [found EXCEPT ![w] = @ \ {c}]
  /\ del' = [del EXCEPT ![w] = @ \cup {c}]
  /\ UNCHANGED <<own, row, cats, lock, pc, rec, seen, over>>

\* Mutant: the row is locked before the categories are deleted.
UpdateEarly(w) ==
  /\ pc[w] = "clearing" /\ lock = "free"
  /\ lock' = w
  /\ Goto(w, "readd")
  /\ UNCHANGED <<own, row, cats, rec, seen, found, del, over>>

\* UPDATE torrents waits for an open update of the row.
Update(w) ==
  /\ pc[w] = "clearing" /\ found[w] = {} /\ lock = "free"
  /\ lock' = w
  /\ Goto(w, "readd")
  /\ UNCHANGED <<own, row, cats, rec, seen, found, del, over>>

\* INSERT INTO torrent_categories, for the categories that the call brought.
Readd(w) ==
  /\ pc[w] = "readd"
  /\ Own(w) \cap (cats \ del[w]) = {}
  /\ Goto(w, "commit")
  /\ UNCHANGED <<own, row, cats, lock, rec, seen, found, del, over>>

\* The other transactions have been overtaken: their DELETEs no longer find
\* the rows that are gone.
Commit(w) ==
  /\ pc[w] = "commit"
  /\ row' = rec[w]
  /\ cats' = (cats \ del[w]) \cup Own(w)
  /\ lock' = "free"
  /\ found' = [v \in Writers |-> found[v] \ del[w]]
  /\ over' = [v \in Writers |-> v # w /\ pc[v] \in Open]
  /\ Return(w)

\* The record equals the one read: nothing is written.
CommitUnchanged(w) ==
  /\ pc[w] = "skip"
  /\ over' = [over EXCEPT ![w] = FALSE]
  /\ Return(w)
  /\ UNCHANGED <<row, cats, lock, found>>

-----------------------------------------------------------------------------
(* The ways in which a transaction is rolled back.                         *)

\* Mutant: the lock outlives the transaction.
RollbackKeepsLock(w) ==
  /\ found' = [found EXCEPT ![w] = {}]
  /\ over' = [over EXCEPT ![w] = FALSE]
  /\ Return(w)
  /\ UNCHANGED <<row, cats, lock>>

Rollback(w) ==
  /\ lock' = IF lock = w THEN "free" ELSE lock
  /\ found' = [found EXCEPT ![w] = {}]
  /\ over' = [over EXCEPT ![w] = FALSE]
  /\ Return(w)
  /\ UNCHANGED <<row, cats>>

\* Another first Set of the torrent committed before this one's INSERT.
InsertConflict(w) ==
  /\ pc[w] = "insert" /\ lock = "free" /\ row.st # "none"
  /\ Rollback(w)

\* The category to be inserted is there, and nobody is deleting it.
ReaddConflict(w) ==
  /\ pc[w] = "readd"
  /\ \E c \in Own(w) \cap (cats \ del[w]) : \A v \in Writers : c \notin del[v]
  /\ Rollback(w)

\* w waits for the end of v's transaction.
WaitsFor(w, v) ==
  /\ w # v
  /\ \/ pc[w] = "insert" /\ lock = v
     \/ pc[w] = "clearing" /\ found[w] = {} /\ lock = v
     \/ /\ pc[w] = "clearing" /\ found[w] \cap del[v] # {}
        /\ found[w] \subseteq UNION {del[u] : u \in Writers}
     \/ pc[w] = "readd" /\ Own(w) \cap (cats \ del[w]) \cap del[v] # {}

\* w is one of several transactions that wait for one another.
Deadlocked(w) ==
  \E W \in SUBSET Writers :
    w \in W /\ \A u \in W : \E v \in W : WaitsFor(u, v)

\* PostgreSQL ends one of them.
BreakDeadlock(w) == Deadlocked(w) /\ Rollback(w)

\* The database or the context fails the call.
Fail(w) == "fail" \in Faults /\ pc[w] \in Open /\ Rollback(w)

-----------------------------------------------------------------------------

Init ==
  /\ own = [w \in Writers |-> {}]
  /\ row = NoRecord
  /\ cats = {}
  /\ lock = "free"
  /\ pc = [w \in Writers |-> "out"]
  /\ rec = [w \in Writers |-> NoRecord]
  /\ seen = [w \in Writers |-> "none"]
  /\ found = [w \in Writers |-> {}]
  /\ del = [w \in Writers |-> {}]
  /\ over = [w \in Writers |-> FALSE]

Statement(w) ==
  \/ Insert(w) \/ Clear(w) \/ Update(w) \/ Readd(w)
  \/ \E c \in Categories : ClearRow(w, c)
  \/ Commit(w) \/ CommitUnchanged(w)
  \/ InsertConflict(w) \/ ReaddConflict(w) \/ BreakDeadlock(w)

Next == \E w \in Writers : Read(w) \/ Statement(w) \/ Fail(w)

\* Calls that began get on; PostgreSQL queues those that wait for a row, so
\* none of them is passed over for ever.
Fairness == \A w \in Writers : SF_vars(Statement(w))

Spec == Init /\ [][Next]_vars /\ Fairness

-----------------------------------------------------------------------------

TypeOK ==
  /\ own \in [Writers -> SUBSET Categories]
  /\ row \in Record
  /\ cats \subseteq Categories
  /\ lock \in Writers \cup {"free"}
  /\ pc \in [Writers -> Open \cup {"out", "returned"}]
  /\ rec \in [Writers -> Record]
  /\ seen \in [Writers -> Status]
  /\ found \in [Writers -> SUBSET Categories]
  /\ del \in [Writers -> SUBSET Categories]
  /\ over \in [Writers -> BOOLEAN]

\* A call that nobody overtook leaves exactly what it brought: its categories
\* and no others, and the scraper the friendly name that was there.  One that
\* writes nothing leaves a row that is its record, name and all; only of its
\* categories nothing is said, since Equal compares none.
ExactUnlessOvertaken ==
  \A w \in Writers :
    ~over[w] =>
      /\ pc[w] = "commit" =>
           cats \subseteq del[w] /\ (w \in Dialogs \/ rec[w].name = row.name)
      /\ pc[w] = "skip" => row = rec[w]

\* Two calls alone never wait for one another: one of them was overtaken by a
\* third, or an earlier overtaking left two categories.
DeadlockNeedsThird ==
  \A w \in Writers :
    Deadlocked(w) =>
      \/ \E v \in Writers : pc[v] \in Open /\ over[v]
      \/ \E c, d \in cats : c # d

\* Every call ends, whatever waits for whatever.
SetReturns == \A w \in Writers : pc[w] \in Open ~> pc[w] \notin Open

\* The statements implement a read and a commit.
Transaction ==
  INSTANCE SetTransaction WITH
    row <- row.st,
    busy <- {w \in Writers : pc[w] \in Open}

ImplementsTransaction == Transaction!Spec

\* "Readd labels and categories": what the scraper stores keeps them.
CategoriesReadded == [][pc[Scraper] = "commit" => cats \subseteq cats']_vars

=============================================================================
