------------------------------ MODULE AddDialog ------------------------------
(***************************************************************************)
(* The dialog of /add-torrent (internal/commands/add_torrent.go) and its   *)
(* dispatch (pkg/discord/discord.go): the command opens a modal and stores *)
(* its identifier in the map customIDs; a submission of the modal is       *)
(* looked up there by the dispatcher, again by HandleModal, and deleted    *)
(* when HandleModal returns.                                               *)
(*                                                                         *)
(* Each interaction runs in a goroutine of its own, and customIDs has no   *)
(* lock.  A write of the map is two steps, so that other accesses may fall *)
(* into it.  Then the outcome is open: Go may end the process (a fatal     *)
(* error, which recover does not catch), a reader may miss a key, and the  *)
(* write that ends first may be lost.                                      *)
(***************************************************************************)
EXTENDS FiniteSets

CONSTANTS
  Dialogs,      \* interactions of the command; each names its modal
  Submissions,  \* interactions that submit a modal
  Of,           \* Of[s]: the dialog whose modal s submits
  Typed,        \* what users type as category, "" for nothing
  Faults        \* {"restart"} when the process may end for other reasons

ASSUME OfAssumption == Of \in [Submissions -> Dialogs]
ASSUME DisjointAssumption == Dialogs \cap Submissions = {}
ASSUME FaultsAssumption == Faults \subseteq {"restart"}

Interactions == Dialogs \cup Submissions

VARIABLES
  customIDs,  \* keys of the map, gone with the process
  pc,         \* where each interaction is
  answer,     \* what the user sees of it; "late" when Discord stops waiting
  err,        \* what its handler returns
  typed,      \* the category in each submission
  accepted,   \* history: submissions that passed the test of HandleModal
  gone,       \* history: dialogs whose process ended or whose store was lost
  kept        \* history: dialogs whose deletion was lost

vars == <<customIDs, pc, answer, err, typed, accepted, gone, kept>>

Go(i, from, to) == pc[i] = from /\ pc' = [pc EXCEPT ![i] = to]

\* The handler ends with error e; the dispatcher will answer it.
Leave(i, e) == err' = [err EXCEPT ![i] = e]

-----------------------------------------------------------------------------
(* The categories.                                                         *)

validCategories == {"MOVIE", "TV SHOW", "MUSIC", "AUDIOBOOK", "SOFTWARE"}

\* strings.ToUpper(strings.TrimSpace(c)) of what is typed here.
Normal(c) ==
  CASE c = "Movie" -> "MOVIE"
    [] c = "TV Show" -> "TV SHOW"
    [] c = "Music" -> "MUSIC"
    [] c = "Audiobook" -> "AUDIOBOOK"
    [] c = "Book" -> "BOOK"
    [] c = "Software" -> "SOFTWARE"
    [] OTHER -> "OTHER"

Valid(c) == c = "" \/ Normal(c) \in validCategories

-----------------------------------------------------------------------------
(* The map.                                                                *)

Writing == {i \in Interactions : pc[i] \in {"storing", "deleting"}}
Reading == {i \in Interactions : pc[i] \in {"routing", "checking"}}

\* A read of d finds it, or misses it because somebody writes.
Sees(d) == d \in customIDs
Misses(d) == d \notin customIDs \/ Writing # {}

\* What the map is when i's write ends, which an overlapping one may undo.
Written(i, new) ==
  \/ customIDs' = new
  \/ Writing # {i} /\ customIDs' = customIDs

-----------------------------------------------------------------------------
(* The command.                                                            *)

\* Mutant: the identifier is stored after the modal is shown.
CommandShowsFirst(d) ==
  /\ Go(d, "new", "opening")
  /\ answer' = [answer EXCEPT ![d] = "modal"]
  /\ UNCHANGED <<customIDs, err, typed, accepted, gone, kept>>

\* The dispatcher finds the handler; Handle refuses a link without a name.
Command(d) ==
  /\ \/ Go(d, "new", "opening") /\ UNCHANGED err
     \/ Go(d, "new", "erring") /\ Leave(d, "failed")
  /\ UNCHANGED <<customIDs, answer, typed, accepted, gone, kept>>

StoreBegin(d) ==
  /\ Go(d, "opening", "storing")
  /\ UNCHANGED <<customIDs, answer, err, typed, accepted, gone, kept>>

\* Mutant: the map is keyed by the name of the command.
StoreName(d) ==
  /\ Go(d, "storing", "showing")
  /\ Written(d, customIDs \cup {"add-torrent"})
  /\ UNCHANGED <<answer, err, typed, accepted, gone, kept>>

StoreEnd(d) ==
  /\ Go(d, "storing", "showing")
  /\ Written(d, customIDs \cup {d})
  /\ gone' = IF d \in customIDs' THEN gone ELSE gone \cup {d}
  /\ UNCHANGED <<answer, err, typed, accepted, kept>>

\* Discord takes the first answer that arrives in time.
Answered(i, a) == answer[i] = "none" /\ answer' = [answer EXCEPT ![i] = a]

\* Discord shows the modal, or the response fails, with or without effect.
Show(d) ==
  /\ \/ Go(d, "showing", "done") /\ Answered(d, "modal") /\ UNCHANGED err
     \/ /\ Go(d, "showing", "erring") /\ Leave(d, "response")
        /\ Answered(d, "modal") \/ UNCHANGED answer
  /\ UNCHANGED <<customIDs, typed, accepted, gone, kept>>

-----------------------------------------------------------------------------
(* The submission.                                                         *)

\* The user submits a modal that is shown.  It closes when a submission is
\* answered; one that Discord gave up can be submitted again.
Submit(s) ==
  /\ answer[Of[s]] = "modal"
  /\ \A r \in Submissions : Of[r] = Of[s] /\ pc[r] # "new" => answer[r] = "late"
  /\ Go(s, "new", "routing")
  /\ \E c \in Typed : typed' = [typed EXCEPT ![s] = c]
  /\ UNCHANGED <<customIDs, answer, err, accepted, gone, kept>>

\* The dispatcher asks HasCustomID; without a handler it answers nothing, and
\* without a member an error.
Route(s) ==
  /\ \/ Sees(Of[s]) /\ Go(s, "routing", "checking") /\ UNCHANGED err
     \/ Sees(Of[s]) /\ Go(s, "routing", "erring") /\ Leave(s, "failed")
     \/ Misses(Of[s]) /\ Go(s, "routing", "unrouted") /\ UNCHANGED err
  /\ UNCHANGED <<customIDs, answer, typed, accepted, gone, kept>>

\* Mutant: HandleModal relies on the dispatcher's test.
CheckNothing(s) ==
  /\ Go(s, "checking", "working")
  /\ accepted' = accepted \cup {s}
  /\ UNCHANGED <<customIDs, answer, err, typed, gone, kept>>

\* HandleModal looks again and defers the deletion.
Check(s) ==
  /\ \/ /\ Sees(Of[s]) /\ Go(s, "checking", "working")
        /\ accepted' = accepted \cup {s}
        /\ UNCHANGED err
     \/ /\ Misses(Of[s]) /\ Go(s, "checking", "erring")
        /\ Leave(s, "notFound")
        /\ UNCHANGED accepted
  /\ UNCHANGED <<customIDs, answer, typed, gone, kept>>

\* The category is validated; then the torrent is added, stored and subscribed,
\* which may fail or panic.
Work(s) ==
  /\ \/ ~Valid(typed[s]) /\ Go(s, "working", "leaving") /\ Leave(s, "category")
     \/ /\ Valid(typed[s])
        /\ \/ Go(s, "working", "thanking") /\ UNCHANGED err
           \/ Go(s, "working", "leaving") /\ Leave(s, "failed")
           \/ Go(s, "working", "leaving") /\ Leave(s, "panic")
  /\ UNCHANGED <<customIDs, answer, typed, accepted, gone, kept>>

\* The same of the thanks.
Thank(s) ==
  /\ Go(s, "thanking", "leaving")
  /\ \/ Answered(s, "thanks") /\ UNCHANGED err
     \/ /\ Leave(s, "response")
        /\ Answered(s, "thanks") \/ UNCHANGED answer
  /\ UNCHANGED <<customIDs, typed, accepted, gone, kept>>

\* Mutant: the deletion is not deferred, so an error leaves without it.
DeleteBeginUnlessError(s) ==
  /\ \/ err[s] = "none" /\ Go(s, "leaving", "deleting")
     \/ err[s] # "none" /\ Go(s, "leaving", "erring")
  /\ UNCHANGED <<customIDs, answer, err, typed, accepted, gone, kept>>

\* The deferred deletion, on every way out.
DeleteBegin(s) ==
  /\ Go(s, "leaving", "deleting")
  /\ UNCHANGED <<customIDs, answer, err, typed, accepted, gone, kept>>

DeleteEnd(s) ==
  /\ Go(s, "deleting", IF err[s] = "none" THEN "done" ELSE "erring")
  /\ Written(s, customIDs \ {Of[s]})
  /\ kept' = IF Of[s] \in customIDs' THEN kept \cup {Of[s]} ELSE kept
  /\ UNCHANGED <<answer, err, typed, accepted, gone>>

-----------------------------------------------------------------------------

\* The dispatcher answers an error or a panic and ignores a refusal.
AnswerError(i) ==
  /\ Go(i, "erring", "done")
  /\ Answered(i, "error") \/ UNCHANGED answer
  /\ UNCHANGED <<customIDs, err, typed, accepted, gone, kept>>

\* Discord waits three seconds for an answer.
GiveUp(i) ==
  /\ pc[i] # "new" /\ Answered(i, "late")
  /\ UNCHANGED <<customIDs, pc, err, typed, accepted, gone, kept>>

\* The process ends, and another is started.
EndProcess ==
  /\ customIDs' = {}
  /\ pc' = [i \in Interactions |-> IF pc[i] = "new" THEN "new" ELSE "done"]
  /\ gone' = gone \cup {d \in Dialogs : pc[d] # "new"}
  /\ kept' = {}
  /\ UNCHANGED <<answer, err, typed, accepted>>

\* Go finds an access to the map while somebody writes it.
ConcurrentMapAccess ==
  /\ \E i \in Writing : (Writing \cup Reading) \ {i} # {}
  /\ EndProcess

\* A crash, an interrupt, a deployment.
Restart == "restart" \in Faults /\ EndProcess

-----------------------------------------------------------------------------

Init ==
  /\ customIDs = {}
  /\ pc = [i \in Interactions |-> "new"]
  /\ answer = [i \in Interactions |-> "none"]
  /\ err = [i \in Interactions |-> "none"]
  /\ typed = [s \in Submissions |-> ""]
  /\ accepted = {}
  /\ gone = {}
  /\ kept = {}

Handle(d) == StoreBegin(d) \/ StoreEnd(d) \/ Show(d) \/ AnswerError(d)

HandleModal(s) ==
  \/ Route(s) \/ Check(s) \/ Work(s) \/ Thank(s)
  \/ DeleteBegin(s) \/ DeleteEnd(s) \/ AnswerError(s)

Next ==
  \/ \E d \in Dialogs : Command(d) \/ Handle(d)
  \/ \E s \in Submissions : Submit(s) \/ HandleModal(s)
  \/ \E i \in Interactions : GiveUp(i)
  \/ ConcurrentMapAccess
  \/ Restart

\* Handlers that started get on: each of their calls has a time limit.
Fairness ==
  /\ \A d \in Dialogs : WF_vars(Handle(d))
  /\ \A s \in Submissions : WF_vars(HandleModal(s))

Spec == Init /\ [][Next]_vars /\ Fairness

-----------------------------------------------------------------------------

TypeOK ==
  /\ customIDs \subseteq Dialogs
  /\ pc \in [Interactions ->
               {"new", "opening", "storing", "showing", "routing", "unrouted",
                "checking", "working", "thanking", "leaving", "deleting",
                "erring", "done"}]
  /\ answer \in [Interactions -> {"none", "modal", "thanks", "error", "late"}]
  /\ err \in [Interactions ->
                {"none", "notFound", "category", "response", "failed", "panic"}]
  /\ typed \in [Submissions -> Typed \cup {""}]
  /\ accepted \subseteq Submissions
  /\ gone \subseteq Dialogs
  /\ kept \subseteq Dialogs

\* HandleModal is on its way for s.
Under(s) == pc[s] \in {"working", "thanking", "leaving", "deleting"}

\* A second submission of a dialog is accepted only while the first is still
\* under way, or when its deletion from the map was lost.  The dispatcher's
\* test, made earlier, would not be enough.
AcceptedTogether ==
  [][\A r, s \in Submissions :
       s \in accepted' \ accepted /\ r \in accepted /\ Of[r] = Of[s] =>
         Under(r) \/ Of[s] \in kept]_vars

Unfound(s) == pc[s] = "unrouted" \/ err[s] = "notFound"

\* A submission is not recognised only if another one of the dialog was
\* accepted, the process or the store of the identifier was lost in between, or
\* the map is being written at that moment.
FirstIsFound ==
  [][\A s \in Submissions :
       Unfound(s)' /\ ~Unfound(s) =>
         \/ Of[s] \in gone
         \/ \E r \in accepted : Of[r] = Of[s]
         \/ Writing # {}]_vars

\* The identifier of an accepted submission leaves the map, whatever becomes of
\* the submission, unless the deletion was lost.
IdentifierFreed ==
  \A s \in Submissions :
    s \in accepted ~> Of[s] \notin customIDs \/ Of[s] \in kept

=============================================================================
