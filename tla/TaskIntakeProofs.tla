--------------------------- MODULE TaskIntakeProofs ---------------------------
(***************************************************************************)
(* Why an input is stored with the one extraction of its submission, for   *)
(* any number of inputs, requests, extractions and losses.                 *)
(***************************************************************************)
EXTENDS TaskIntake, FiniteSetTheorems, TLAPS

-----------------------------------------------------------------------------
(* The inductive invariant *)

OnInput == { "register", "submit", "clarify", "retry", "external" }
OnExtraction == { "confirm", "create" }

CallOf ==
  [ kind : OnInput \cup OnExtraction,
    at : { "idle", "asked", "thinking", "writing", "linking", "done", "failed", "refused" },
    input : Inputs \cup {None}, extraction : Ids \cup {None},
    given : SUBSET Critical, named : BOOLEAN ]

RowsTyped ==
  /\ inputs \in [ Inputs -> { None, "register", "submit" } ]
  /\ extractions \in [ Ids -> Extraction \cup {None} ]
  /\ calls \in [ Requests -> CallOf ]

\* A call carries the object of its kind, which is stored by then.
CallsHaveObjects ==
  \A r \in Requests : calls[r].at # "idle" =>
    /\ calls[r].kind \in OnInput => calls[r].input \in Inputs
    /\ calls[r].kind \in OnExtraction => calls[r].extraction \in Stored
    /\ calls[r].at = "linking" => calls[r].kind \in OnExtraction

\* The row of an input and the first row of its extractions come together.
FirstRounds ==
  /\ \A e \in Stored : extractions[e].first => inputs[extractions[e].input] = "submit"
  /\ \A e, f \in Stored :
       extractions[e].first /\ extractions[f].first /\ extractions[e].input = extractions[f].input
         => e = f
  /\ \A i \in Inputs : inputs[i] = "submit" => \E e \in Rounds(i) : extractions[e].first

IInv == RowsTyped /\ CallsHaveObjects /\ FirstRounds

-----------------------------------------------------------------------------
(* Steps *)

\* A step that moves one call on, and neither rows nor what the call is about.
Moves(r, to) ==
  /\ calls' = [ calls EXCEPT ![r].at = to ] \/ calls' = [ calls EXCEPT ![r] = Idle ]
  /\ calls[r].at # "idle"
  /\ to \in { "asked", "thinking", "writing", "linking", "done", "failed", "refused" }
  /\ to = "linking" => calls[r].kind \in OnExtraction

LEMMA MovesCalls ==
  ASSUME IInv, NEW r \in Requests, NEW to, Moves(r, to)
  PROVE  /\ calls' \in [ Requests -> CallOf ]
         /\ \A q \in Requests : calls'[q].at # "idle" =>
              /\ calls[q].at # "idle"
              /\ calls'[q].kind = calls[q].kind
              /\ calls'[q].input = calls[q].input
              /\ calls'[q].extraction = calls[q].extraction
              /\ calls'[q].at = "linking" => calls[q].at = "linking" \/ calls[q].kind \in OnExtraction
<1>1. calls \in [ Requests -> CallOf ] /\ Idle \in CallOf
  BY DEF IInv, RowsTyped, CallOf, OnInput, Idle
<1>2. CASE calls' = [ calls EXCEPT ![r].at = to ]
  BY <1>1, <1>2 DEF Moves, CallOf
<1>3. CASE calls' = [ calls EXCEPT ![r] = Idle ]
  BY <1>1, <1>3 DEF Idle
<1> QED
  BY <1>2, <1>3 DEF Moves

LEMMA MovesKeep ==
  ASSUME IInv, NEW r \in Requests, NEW to, Moves(r, to), UNCHANGED << inputs, extractions >>
  PROVE  IInv'
<1>1. RowsTyped'
  BY MovesCalls DEF IInv, RowsTyped
<1>2. CallsHaveObjects'
  BY MovesCalls DEF IInv, CallsHaveObjects, Stored
<1>3. FirstRounds'
  BY DEF IInv, FirstRounds, Stored, Rounds
<1> QED
  BY <1>1, <1>2, <1>3 DEF IInv

LEMMA AsksKeep ==
  ASSUME IInv, NEW r \in Requests, NEW kind \in OnInput \cup OnExtraction,
         NEW i \in Inputs \cup {None}, NEW e \in Ids \cup {None},
         NEW given \in SUBSET Critical, NEW named \in BOOLEAN, Ask(r, kind, i, e, given, named),
         kind \in OnInput => i \in Inputs,
         kind \in OnExtraction => e \in Stored
  PROVE  IInv'
<1>1. UNCHANGED << inputs, extractions >>
  BY DEF Ask
<1>2. calls' = [ calls EXCEPT ![r] = [ kind |-> kind, at |-> "asked", input |-> i, extraction |-> e,
                                     given |-> given, named |-> named ] ]
  BY DEF Ask
<1>3. RowsTyped'
  BY <1>1, <1>2 DEF IInv, RowsTyped, CallOf
<1>4. CallsHaveObjects'
  BY <1>1, <1>2 DEF IInv, CallsHaveObjects, Stored, RowsTyped
<1>5. FirstRounds'
  BY <1>1 DEF IInv, FirstRounds, Stored, Rounds
<1> QED
  BY <1>3, <1>4, <1>5 DEF IInv

LEMMA ClientsKeep ==
  ASSUME IInv, Clients
  PROVE  IInv'
<1> PICK r \in Requests :
      \/ \E i \in Inputs : Submits(r, i) \/ (inputs[i] # None /\ Extends(r, i))
      \/ \E e \in Stored : Confirms(r, e)
  BY DEF Clients
<1>1. CASE \E i \in Inputs : Submits(r, i) \/ Extends(r, i)
  <2> PICK i \in Inputs : Submits(r, i) \/ Extends(r, i)
    BY <1>1
  <2>1. PICK kind \in OnInput, given \in SUBSET Critical : Ask(r, kind, i, None, given, FALSE)
    BY DEF Submits, Extends, OnInput
  <2>2. kind \notin OnExtraction
    BY DEF OnInput, OnExtraction
  <2> QED
    BY <2>1, <2>2, AsksKeep
<1>2. CASE \E e \in Stored : Confirms(r, e)
  <2> PICK e \in Stored : Confirms(r, e)
    BY <1>2
  <2>1. PICK kind \in OnExtraction, given \in SUBSET Critical, named \in BOOLEAN :
          Ask(r, kind, None, e, given, named)
    BY DEF Confirms, OnExtraction
  <2>2. kind \notin OnInput /\ e \in Ids
    BY DEF OnInput, OnExtraction, Stored
  <2> QED
    BY <2>1, <2>2, AsksKeep
<1> QED
  BY <1>1, <1>2

LEMMA CommitInputKeeps ==
  ASSUME IInv, NEW r \in Requests, CommitInput(r)
  PROVE  IInv'
<1> DEFINE i == calls[r].input
<1>1. CASE InputConflict(i)
  BY <1>1, MovesKeep DEF CommitInput, Goes, Moves
<1>2. CASE ~InputConflict(i)
  <2>1. /\ inputs' = [ inputs EXCEPT ![i] = "register" ]
        /\ UNCHANGED extractions
        /\ Moves(r, "done")
        /\ i \in Inputs /\ inputs[i] = None
    BY <1>2 DEF CommitInput, Goes, Moves, InputConflict, IInv, CallsHaveObjects, OnInput
  <2>2. RowsTyped'
    BY <2>1, MovesCalls DEF IInv, RowsTyped
  <2>3. CallsHaveObjects'
    BY <2>1, MovesCalls DEF IInv, CallsHaveObjects, Stored
  <2>4. FirstRounds'
    BY <2>1, NoneIsNoRow DEF IInv, FirstRounds, RowsTyped, Stored, Rounds, Extraction
  <2> QED
    BY <2>2, <2>3, <2>4 DEF IInv
<1> QED
  BY <1>1, <1>2

LEMMA CommitExtractionKeeps ==
  ASSUME IInv, NEW r \in Requests, CommitExtraction(r)
  PROVE  IInv'
<1> DEFINE i == calls[r].input
           isFirst == calls[r].kind = "submit"
<1>0. calls[r].at = "writing" /\ i \in Inputs /\ calls[r].given \in SUBSET Critical
  BY DEF CommitExtraction, IInv, RowsTyped, CallsHaveObjects, OnInput, CallOf
<1>1. CASE isFirst /\ InputConflict(i)
  BY <1>0, <1>1, MovesKeep DEF CommitExtraction, Goes, Moves
<1>2. CASE ~(isFirst /\ InputConflict(i))
  <2>1. PICK found \in Found(r) : \E known \in Validated(found) :
          /\ Stored # Ids
          /\ extractions' = [ extractions EXCEPT ![NewId] =
               [ input |-> i, first |-> isFirst, known |-> known, linked |-> FALSE ] ]
          /\ inputs' = IF isFirst THEN [ inputs EXCEPT ![i] = "submit" ] ELSE inputs
          /\ Goes(r, "done")
    BY <1>2 DEF CommitExtraction
  <2>2. PICK known \in Validated(found) :
          /\ Stored # Ids
          /\ extractions' = [ extractions EXCEPT ![NewId] =
               [ input |-> i, first |-> isFirst, known |-> known, linked |-> FALSE ] ]
          /\ inputs' = IF isFirst THEN [ inputs EXCEPT ![i] = "submit" ] ELSE inputs
          /\ Goes(r, "done")
    BY <2>1
  <2> DEFINE row == [ input |-> i, first |-> isFirst, known |-> known, linked |-> FALSE ]
  <2>3. known \in SUBSET Critical
    BY <1>0, <2>1, <2>2 DEF Found, Validated
  <2>4. row \in Extraction /\ row # None
    <3>1. isFirst \in BOOLEAN
      OBVIOUS
    <3>2. \A first \in BOOLEAN :
            [ input |-> i, first |-> first, known |-> known, linked |-> FALSE ] \in Extraction
      BY <1>0, <2>3 DEF Extraction
    <3>3. row \in Extraction
      BY <3>1, <3>2
    <3> HIDE DEF row
    <3> QED
      BY <3>3, NoneIsNoRow
  <2>5. NewId \in Ids /\ NewId \notin Stored
    BY <2>2 DEF NewId, Stored
  <2>6. \A e \in Ids : extractions'[e] = IF e = NewId THEN row ELSE extractions[e]
    BY <2>2 DEF IInv, RowsTyped
  <2>7. Stored' = Stored \cup {NewId}
    BY <2>4, <2>5, <2>6 DEF Stored
  <2>8. isFirst => inputs[i] = None
    BY <1>2 DEF InputConflict
  <2>9. \A j \in Inputs : inputs'[j] = IF isFirst /\ j = i THEN "submit" ELSE inputs[j]
    BY <2>2 DEF IInv, RowsTyped
  <2>10. Moves(r, "done")
    BY <1>0, <2>2 DEF Goes, Moves
  <2>11. RowsTyped'
    BY <1>0, <2>2, <2>4, <2>10, MovesCalls DEF IInv, RowsTyped
  <2>12. CallsHaveObjects'
    BY <2>7, <2>10, MovesCalls DEF IInv, CallsHaveObjects
  <2>13. FirstRounds'
    <3>1. \A e \in Stored : extractions[e].first => inputs[extractions[e].input] = "submit"
      BY DEF IInv, FirstRounds
    <3>2. \A e \in Stored : extractions[e].input \in Inputs
      BY DEF IInv, RowsTyped, Stored, Extraction
    <3>3. \A e \in Stored : e \in Ids /\ e # NewId /\ extractions'[e] = extractions[e]
      BY <2>5, <2>6 DEF Stored
    <3>4. /\ extractions'[NewId].input = i
          /\ extractions'[NewId].first <=> isFirst
      <4>1. extractions'[NewId] = row
        BY <2>5, <2>6, Zenon
      <4>2. row.input = i /\ row.first = isFirst
        BY Zenon
      <4> QED
        BY <4>1, <4>2, Zenon
    <3> HIDE DEF isFirst, row
    <3>5. \A e \in Stored' : extractions'[e].first => inputs'[extractions'[e].input] = "submit"
      BY <1>0, <2>7, <2>9, <3>1, <3>2, <3>3, <3>4
    <3>6. \A e \in Stored : extractions[e].first /\ isFirst => extractions[e].input # i
      BY <2>8, <3>1, NoneIsNoRow
    <3>7. \A e, f \in Stored' :
            extractions'[e].first /\ extractions'[f].first
              /\ extractions'[e].input = extractions'[f].input => e = f
      BY <2>7, <3>3, <3>4, <3>6 DEF IInv, FirstRounds
    <3>8. \A j \in Inputs : inputs'[j] = "submit" =>
            \E e \in Stored' : extractions'[e].input = j /\ extractions'[e].first
      <4> SUFFICES ASSUME NEW j \in Inputs, inputs'[j] = "submit"
                   PROVE  \E e \in Stored' : extractions'[e].input = j /\ extractions'[e].first
        OBVIOUS
      <4>1. CASE isFirst /\ j = i
        BY <2>7, <3>4, <4>1
      <4>2. CASE ~(isFirst /\ j = i)
        <5>1. PICK e \in Stored : extractions[e].input = j /\ extractions[e].first
          BY <2>9, <4>2 DEF IInv, FirstRounds, Rounds
        <5> QED
          BY <2>7, <3>3, <5>1
      <4> QED
        BY <4>1, <4>2
    <3> QED
      BY <3>5, <3>7, <3>8 DEF FirstRounds, Rounds
  <2> QED
    BY <2>11, <2>12, <2>13 DEF IInv
<1> QED
  BY <1>1, <1>2

LEMMA CommitDraftKeeps ==
  ASSUME IInv, NEW r \in Requests, CommitDraft(r)
  PROVE  IInv'
<1> DEFINE e == calls[r].extraction
<1>0. /\ calls[r].at = "linking"
      /\ e \in Stored
      /\ \A to \in { "failed", "done" } : Goes(r, to) => Moves(r, to)
      /\ UNCHANGED inputs
  BY DEF CommitDraft, IInv, CallsHaveObjects, Goes, Moves
<1>1. CASE extractions' = extractions
  BY <1>0, <1>1, MovesKeep DEF CommitDraft
<1>2. CASE extractions' # extractions
  <2>1. extractions' = [ extractions EXCEPT ![e].linked = TRUE ] /\ Moves(r, "done")
    BY <1>0, <1>2 DEF CommitDraft
  <2>2. \A f \in Stored : f \in Ids /\ extractions[f] \in Extraction
    BY DEF IInv, RowsTyped, Stored
  <2>3. /\ [ extractions[e] EXCEPT !.linked = TRUE ] \in Extraction
        /\ [ extractions[e] EXCEPT !.linked = TRUE ].first = extractions[e].first
        /\ [ extractions[e] EXCEPT !.linked = TRUE ].input = extractions[e].input
    BY <1>0, <2>2 DEF Extraction
  <2>4. RowsTyped'
    BY <1>0, <2>1, <2>3, MovesCalls DEF IInv, RowsTyped
  <2>5. \A f \in Ids : extractions'[f] = IF f = e THEN [ extractions[e] EXCEPT !.linked = TRUE ]
                                         ELSE extractions[f]
    BY <2>1 DEF IInv, RowsTyped
  <2>6. Stored' = Stored
    BY <1>0, <2>3, <2>5, NoneIsNoRow DEF Stored
  <2>7. \A f \in Stored : /\ extractions'[f].first = extractions[f].first
                          /\ extractions'[f].input = extractions[f].input
    BY <2>2, <2>3, <2>5
  <2>8. CallsHaveObjects'
    BY <2>1, <2>6, MovesCalls DEF IInv, CallsHaveObjects
  <2>9. FirstRounds'
    BY <1>0, <2>6, <2>7 DEF IInv, FirstRounds, Rounds
  <2> QED
    BY <2>4, <2>8, <2>9 DEF IInv
<1> QED
  BY <1>1, <1>2

LEMMA StepIInv == IInv /\ [Next]_vars => IInv'
<1> SUFFICES ASSUME IInv, [Next]_vars PROVE IInv'
  OBVIOUS
<1>1. CASE Clients
  BY <1>1, ClientsKeep
<1>2. ASSUME NEW r \in Requests, CommitInput(r) \/ CommitExtraction(r) \/ CommitDraft(r)
      PROVE  IInv'
  BY <1>2, CommitInputKeeps, CommitExtractionKeeps, CommitDraftKeeps
<1>3. ASSUME NEW r \in Requests,
             \/ Register(r) \/ SubmitInput(r) \/ Extract(r) \/ RecordExternal(r)
             \/ ProviderAnswers(r) \/ ProviderFails(r) \/ Confirm(r) \/ CreateTaskDraft(r)
             \/ Return(r) \/ Repeat(r) \/ Lose(r)
      PROVE  IInv'
  <2>1. /\ UNCHANGED << inputs, extractions >>
        /\ \E to : Moves(r, to)
    BY <1>3 DEF Register, SubmitInput, Extract, RecordExternal, ProviderAnswers, ProviderFails,
       Confirm, CreateTaskDraft, Return, Repeat, Lose, Answer, Goes, Moves, OnExtraction
  <2> QED
    BY <2>1, MovesKeep
<1>4. CASE UNCHANGED vars
  BY <1>4 DEF vars, IInv, RowsTyped, CallsHaveObjects, FirstRounds, Stored, Rounds
<1> QED
  BY <1>1, <1>2, <1>3, <1>4 DEF Next, Serve

LEMMA InitIInv == Init => IInv
BY NoneIsNoRow DEF Init, IInv, RowsTyped, CallsHaveObjects, FirstRounds, Stored, Idle, CallOf, OnInput

\* submit_input calls the provider before it stores anything, and still every submitted input
\* has exactly the one extraction of its submission, however many submissions overlap.
THEOREM SubmissionsAreStoredOnce == Spec => []SubmittedOnce
<1>1. IInv => SubmittedOnce
  <2> SUFFICES ASSUME IInv, NEW i \in Inputs
               PROVE  Cardinality({ e \in Rounds(i) : extractions[e].first }) =
                        IF inputs[i] = "submit" THEN 1 ELSE 0
    BY DEF SubmittedOnce
  <2> DEFINE firsts == { e \in Rounds(i) : extractions[e].first }
  <2>1. CASE inputs[i] = "submit"
    <3>1. PICK e \in firsts : \A f \in firsts : f = e
      BY <2>1 DEF IInv, FirstRounds, Rounds
    <3>2. firsts = {e}
      BY <3>1
    <3> QED
      BY <2>1, <3>2, FS_Singleton
  <2>2. CASE inputs[i] # "submit"
    <3>1. firsts = {}
      BY <2>2 DEF IInv, FirstRounds, Rounds
    <3> QED
      BY <2>2, <3>1, FS_EmptySet
  <2> QED
    BY <2>1, <2>2
<1> QED
  BY <1>1, InitIInv, StepIInv, PTL DEF Spec

=============================================================================
