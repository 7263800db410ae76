--------------------------- MODULE AddDialogProofs ---------------------------
(***************************************************************************)
(* The dialog of /add-torrent, for any dialogs, submissions and categories *)
(* typed: when a submission is accepted and when one is not recognised.    *)
(***************************************************************************)
EXTENDS AddDialog, TLAPS

\* A modal is submitted after it is shown, and shown when its command is over, but
\* for the error it may still have to report.
Shown ==
  /\ \A s \in Submissions : pc[s] # "new" => answer[Of[s]] = "modal"
  /\ \A d \in Dialogs : answer[d] = "modal" => pc[d] \in {"erring", "done"}

\* From its store on an identifier is in the map, unless the process ended, the
\* store was lost, or a submission was accepted.
Stored ==
  \A d \in Dialogs :
    pc[d] = "showing" \/ answer[d] = "modal" =>
      d \in customIDs \/ d \in gone \/ \E r \in accepted : Of[r] = d

\* An accepted submission is under way or has deleted the identifier.
Deleted ==
  /\ \A s \in Submissions : Under(s) => s \in accepted
  /\ \A s \in accepted :
       /\ pc[s] # "new"
       /\ Under(s) \/ Of[s] \notin customIDs \/ Of[s] \in kept

IInv == TypeOK /\ Shown /\ Stored /\ Deleted

LEMMA IInvInit == Init => IInv
BY OfAssumption, DisjointAssumption
   DEF Init, IInv, TypeOK, Shown, Stored, Deleted, Under, Interactions

LEMMA TypeStep == TypeOK /\ [Next]_vars => TypeOK'
<1> SUFFICES ASSUME TypeOK, [Next]_vars PROVE TypeOK'
  OBVIOUS
<1> USE OfAssumption DEF TypeOK, Go, Leave, Interactions
<1>1. ASSUME NEW d \in Dialogs, Command(d) \/ StoreBegin(d) \/ Show(d) PROVE TypeOK'
  BY <1>1 DEF Command, StoreBegin, Show, Answered
<1>2. ASSUME NEW d \in Dialogs, StoreEnd(d) PROVE TypeOK'
  BY <1>2 DEF StoreEnd, Written
<1>3. ASSUME NEW s \in Submissions, Submit(s) PROVE TypeOK'
  BY <1>3 DEF Submit
<1>4. ASSUME NEW s \in Submissions, Route(s) \/ Check(s) PROVE TypeOK'
  BY <1>4 DEF Route, Check
<1>5. ASSUME NEW s \in Submissions, Work(s) \/ Thank(s) \/ DeleteBegin(s) PROVE TypeOK'
  BY <1>5 DEF Work, Thank, Answered, DeleteBegin
<1>6. ASSUME NEW s \in Submissions, DeleteEnd(s) PROVE TypeOK'
  BY <1>6 DEF DeleteEnd, Written
<1>7. ASSUME NEW i \in Interactions, AnswerError(i) \/ GiveUp(i) PROVE TypeOK'
  BY <1>7 DEF AnswerError, GiveUp, Answered
<1>8. ASSUME EndProcess PROVE TypeOK'
  BY <1>8 DEF EndProcess
<1>9. CASE UNCHANGED vars
  BY <1>9 DEF vars
<1>10. QED
  BY <1>1, <1>2, <1>3, <1>4, <1>5, <1>6, <1>7, <1>8, <1>9
     DEF Next, Handle, HandleModal, Restart, ConcurrentMapAccess

\* What a command does.
LEMMA HandleKeeps ==
  ASSUME IInv, NEW d \in Dialogs, Command(d) \/ Handle(d)
  PROVE  Shown' /\ Stored' /\ Deleted'
<1>1. /\ pc[d] # "done" /\ pc' = [pc EXCEPT ![d] = pc'[d]] /\ UNCHANGED accepted
      /\ \A i \in Interactions \ {d} : pc'[i] = pc[i] /\ answer'[i] = answer[i]
      /\ answer'[d] = "modal" => pc'[d] \in {"erring", "done"}
      /\ answer[d] = "modal" => answer'[d] = "modal"
      /\ pc'[d] # "new" /\ customIDs \subseteq customIDs' /\ gone \subseteq gone'
      /\ kept' = kept
  BY DEF IInv, TypeOK, Shown, Interactions, Go, Command, Handle, StoreBegin,
         StoreEnd, Written, Show, Answered, AnswerError
<1>2. Shown'
  BY <1>1, OfAssumption, DisjointAssumption DEF IInv, Shown, Interactions
<1>3. pc'[d] = "showing" \/ answer'[d] = "modal" =>
        d \in customIDs' \/ d \in gone' \/ \E r \in accepted : Of[r] = d
  <2>1. CASE StoreEnd(d)
    BY <2>1 DEF StoreEnd, IInv, Shown, Go
  <2>2. CASE Show(d)
    BY <2>2, <1>1 DEF Show, IInv, Shown, Stored, Go
  <2>3. CASE Command(d) \/ StoreBegin(d)
    BY <2>3 DEF Command, StoreBegin, IInv, TypeOK, Interactions, Shown, Go
  <2>4. CASE AnswerError(d)
    <3>1. pc'[d] = "done" /\ (answer'[d] = "modal" => answer[d] = "modal")
      BY <2>4 DEF AnswerError, Answered, Go, IInv, TypeOK, Interactions
    <3>2. UNCHANGED <<customIDs, gone>>
      BY <2>4 DEF AnswerError
    <3>3. QED
      BY <3>1, <3>2 DEF IInv, Stored
  <2>5. QED
    BY <2>1, <2>2, <2>3, <2>4 DEF Handle
<1>4. Stored'
  BY <1>1, <1>3 DEF IInv, Stored, Interactions
<1>5. d \in customIDs' \ customIDs => pc[d] = "storing"
  BY DEF Command, Handle, StoreBegin, StoreEnd, Written, Show, AnswerError, Go
<1>6. \A e \in Dialogs : e \in customIDs' => e \in customIDs \/ e = d
  BY DEF Command, Handle, StoreBegin, StoreEnd, Written, Show, AnswerError
<1>7. \A s \in accepted : Of[s] \in customIDs' => Of[s] \in customIDs
  BY <1>5, <1>6, OfAssumption DEF IInv, TypeOK, Shown, Deleted
<1>8. Deleted'
  <2>1. \A s \in Submissions : pc'[s] = pc[s] /\ (Under(s)' <=> Under(s))
    BY <1>1, DisjointAssumption DEF Under, Interactions
  <2>2. accepted' = accepted /\ kept' = kept /\ accepted \subseteq Submissions
    BY <1>1 DEF IInv, TypeOK
  <2>3. QED
    BY <1>7, <2>1, <2>2 DEF IInv, Deleted
<1>9. QED
  BY <1>2, <1>4, <1>8

\* What a submission does.
LEMMA HandleModalKeeps ==
  ASSUME IInv, NEW s \in Submissions, Submit(s) \/ HandleModal(s)
  PROVE  Shown' /\ Stored' /\ Deleted'
<1> USE OfAssumption, DisjointAssumption DEF Interactions
<1>1. /\ \A i \in Interactions \ {s} : pc'[i] = pc[i] /\ answer'[i] = answer[i]
      /\ pc'[s] # "new" /\ gone' = gone
  BY DEF IInv, TypeOK, Go, Submit, HandleModal, Route, Check, Work, Thank,
         DeleteBegin, DeleteEnd, AnswerError, Answered
<1>2. answer[Of[s]] = "modal"
  BY DEF IInv, Shown, Go, Submit, HandleModal, Route, Check, Work, Thank,
         DeleteBegin, DeleteEnd, AnswerError, Answered, TypeOK
<1>3. Shown'
  BY <1>1, <1>2 DEF IInv, Shown
<1>4. CASE DeleteEnd(s)
  <2>1. /\ pc[s] = "deleting" /\ pc'[s] \in {"done", "erring"} /\ s \in accepted
        /\ customIDs' = customIDs \/ customIDs' = customIDs \ {Of[s]}
        /\ kept' = IF Of[s] \in customIDs' THEN kept \cup {Of[s]} ELSE kept
        /\ accepted' = accepted
    BY <1>4 DEF DeleteEnd, Written, Go, IInv, TypeOK, Deleted, Under
  <2>2. Stored'
    BY <1>1, <2>1 DEF IInv, Stored
  <2>3. Deleted'
    BY <1>1, <2>1 DEF IInv, TypeOK, Deleted, Under
  <2>4. QED
    BY <1>3, <2>2, <2>3
<1>5. CASE Check(s)
  <2>1. /\ pc[s] = "checking" /\ UNCHANGED <<customIDs, kept>>
        /\ \/ pc'[s] = "working" /\ accepted' = accepted \cup {s}
           \/ pc'[s] = "erring" /\ accepted' = accepted
    BY <1>5 DEF Check, Go, IInv, TypeOK
  <2>2. Stored'
    BY <1>1, <2>1 DEF IInv, Stored
  <2>3. Deleted'
    BY <1>1, <2>1 DEF IInv, TypeOK, Deleted, Under
  <2>4. QED
    BY <1>3, <2>2, <2>3
<1>6. CASE Submit(s) \/ Route(s) \/ Work(s) \/ Thank(s) \/ DeleteBegin(s) \/ AnswerError(s)
  <2>1. /\ UNCHANGED <<customIDs, kept, accepted>>
        /\ Under(s)' <=> Under(s)
    BY <1>6 DEF Submit, Route, Work, Thank, DeleteBegin, AnswerError, Go, Under, IInv, TypeOK
  <2>2. Stored'
    BY <1>1, <2>1 DEF IInv, Stored
  <2>3. Deleted'
    BY <1>1, <2>1 DEF IInv, TypeOK, Deleted, Under
  <2>4. QED
    BY <1>3, <2>2, <2>3
<1>7. QED
  BY <1>4, <1>5, <1>6 DEF HandleModal

LEMMA IInvStep == IInv /\ [Next]_vars => IInv'
<1> SUFFICES ASSUME IInv, [Next]_vars PROVE Shown' /\ Stored' /\ Deleted'
  BY TypeStep DEF IInv
<1> USE OfAssumption, DisjointAssumption DEF IInv, TypeOK, Interactions
<1>1. ASSUME NEW i \in Interactions, GiveUp(i) PROVE Shown' /\ Stored' /\ Deleted'
  <2>1. /\ UNCHANGED <<customIDs, pc, accepted, gone, kept>>
        /\ \A j \in Interactions : answer'[j] = "modal" <=> answer[j] = "modal"
    BY <1>1 DEF GiveUp, Answered
  <2>2. QED
    BY <2>1 DEF Shown, Stored, Deleted, Under
<1>2. ASSUME EndProcess PROVE Shown' /\ Stored' /\ Deleted'
  <2>1. Shown'
    BY <1>2 DEF EndProcess, Shown
  <2>2. Stored'
    BY <1>2 DEF EndProcess, Shown, Stored
  <2>3. Deleted'
    BY <1>2 DEF EndProcess, Deleted, Under
  <2>4. QED
    BY <2>1, <2>2, <2>3
<1>3. CASE UNCHANGED vars
  BY <1>3 DEF vars, Shown, Stored, Deleted, Under
<1>4. QED
  BY <1>1, <1>2, <1>3, HandleKeeps, HandleModalKeeps
     DEF Next, Restart, ConcurrentMapAccess

LEMMA IInvAlways == Spec => []IInv
BY IInvInit, IInvStep, PTL DEF Spec

-----------------------------------------------------------------------------

\* The state of the dialog keeps its types, whatever is typed and submitted twice.
THEOREM DialogTypes == Spec => []TypeOK
BY IInvAlways, PTL DEF IInv

\* Only the test of HandleModal accepts a submission, and it finds the
\* identifier.
LEMMA AcceptStep ==
  ASSUME IInv, [Next]_vars,
         NEW r \in Submissions, NEW s \in Submissions,
         s \in accepted' \ accepted, r \in accepted, Of[r] = Of[s]
  PROVE  Under(r) \/ Of[s] \in kept
<1>1. Sees(Of[s])
  BY DEF Next, vars, Command, Handle, StoreBegin, StoreEnd, Show, AnswerError,
         Submit, HandleModal, Route, Check, Work, Thank, DeleteBegin, DeleteEnd,
         GiveUp, Restart, ConcurrentMapAccess, EndProcess
<1>2. QED
  BY <1>1 DEF IInv, Deleted, Sees

\* A second submission of a dialog is accepted only beside the first.
THEOREM SubmissionsTogether == Spec => AcceptedTogether
<1>1. IInv /\ [Next]_vars =>
        \A r, s \in Submissions :
          s \in accepted' \ accepted /\ r \in accepted /\ Of[r] = Of[s] =>
            Under(r) \/ Of[s] \in kept
  BY AcceptStep
<1>2. QED
  BY <1>1, IInvAlways, PTL DEF Spec, AcceptedTogether

\* A submission that is not recognised misses its identifier in the map.
LEMMA UnfoundStep ==
  ASSUME IInv, [Next]_vars, NEW s \in Submissions, Unfound(s)', ~Unfound(s)
  PROVE  Misses(Of[s]) /\ pc[s] # "new"
<1> USE OfAssumption, DisjointAssumption
    DEF IInv, TypeOK, Unfound, Go, Leave, Interactions
<1>1. ASSUME NEW d \in Dialogs, Command(d) \/ Handle(d) PROVE FALSE
  BY <1>1 DEF Command, Handle, StoreBegin, StoreEnd, Show, AnswerError
<1>2. ASSUME NEW r \in Submissions, Submit(r) PROVE FALSE
  BY <1>2 DEF Submit
<1>3. ASSUME NEW r \in Submissions, HandleModal(r)
      PROVE  Misses(Of[s]) /\ pc[s] # "new"
  <2>1. CASE Route(r) \/ Check(r)
    BY <2>1 DEF Route, Check
  <2>2. CASE Work(r) \/ Thank(r) \/ DeleteBegin(r) \/ DeleteEnd(r) \/ AnswerError(r)
    BY <2>2 DEF Work, Thank, DeleteBegin, DeleteEnd, AnswerError
  <2>3. QED
    BY <1>3, <2>1, <2>2 DEF HandleModal
<1>4. ASSUME NEW i \in Interactions, GiveUp(i) PROVE FALSE
  BY <1>4 DEF GiveUp
<1>5. ASSUME EndProcess PROVE FALSE
  BY <1>5 DEF EndProcess
<1>6. CASE UNCHANGED vars
  BY <1>6 DEF vars
<1>7. QED
  BY <1>1, <1>2, <1>3, <1>4, <1>5, <1>6 DEF Next, Restart, ConcurrentMapAccess

\* A submission is recognised unless another one of the dialog was accepted, the
\* process or the store was lost, or the map is being written.
THEOREM SubmissionsFound == Spec => FirstIsFound
<1>1. ASSUME IInv, [Next]_vars, NEW s \in Submissions, Unfound(s)', ~Unfound(s)
      PROVE  \/ Of[s] \in gone
             \/ \E r \in accepted : Of[r] = Of[s]
             \/ Writing # {}
  BY <1>1, UnfoundStep, OfAssumption DEF IInv, Shown, Stored, Misses
<1>2. IInv /\ [Next]_vars =>
        \A s \in Submissions :
          Unfound(s)' /\ ~Unfound(s) =>
            \/ Of[s] \in gone
            \/ \E r \in accepted : Of[r] = Of[s]
            \/ Writing # {}
  BY <1>1
<1>3. QED
  BY <1>2, IInvAlways, PTL DEF Spec, FirstIsFound

-----------------------------------------------------------------------------
(* The identifier.                                                         *)

\* An accepted submission that is over, in whichever way, has freed its identifier,
\* unless another write of the map undid that.
FreedWhenOver ==
  \A s \in accepted : ~Under(s) => Of[s] \notin customIDs \/ Of[s] \in kept

\* No way out of HandleModal, by an error, a panic or the end of the process,
\* leaves the identifier of an accepted submission behind.
THEOREM IdentifiersAreFreed == Spec => []FreedWhenOver
<1>1. IInv => FreedWhenOver
  BY DEF IInv, Deleted, FreedWhenOver
<1>2. QED
  BY <1>1, IInvAlways, PTL

=============================================================================
