----------------------------- MODULE TaskIntake -----------------------------
(***************************************************************************)
(* From what a person says to a draft: an input is registered or           *)
(* submitted, an AI provider extracts the task's fields in one or more     *)
(* rounds, and one extraction is confirmed as a task.  Calls overlap, the  *)
(* provider takes its time, and the client repeats what it got no answer   *)
(* to.  All calls are those of the person who submitted the input.         *)
(***************************************************************************)
EXTENDS Naturals, FiniteSets

CONSTANTS
  Inputs,          \* input ids that a client names
  MaxExtractions,  \* extraction records (bound)
  Requests,        \* calls under way at a time (bound)
  Critical,        \* CRITICAL_FIELDS of a task
  MaxLosses,       \* calls or replies lost (bound)
  None

Ids == 1..MaxExtractions

\* A row of ai_extraction_records: the input, whether its submission stored the row (first),
\* the fields known, whether a task is linked.
Extraction ==
  [ input : Inputs, first : BOOLEAN, known : SUBSET Critical, linked : BOOLEAN ]

ASSUME NoneIsNoRow == None \notin { "register", "submit" } \cup Extraction

VARIABLES
  inputs,       \* task_inputs: None, or the operation that stored the row
  extractions,  \* ai_extraction_records by extraction_id
  drafts,       \* tasks made from an extraction: their number, and whether one has the
                \* id that the client names
  calls,        \* the call that each request carries: its kind, how far it is, its objects,
                \* the answers or corrections given, whether it names the id of the task
  losses

vars == << inputs, extractions, drafts, calls, losses >>

Idle == [ kind |-> "register", at |-> "idle", input |-> None, extraction |-> None,
          given |-> {}, named |-> FALSE ]

Init ==
  /\ inputs = [ i \in Inputs |-> None ]
  /\ extractions = [ e \in Ids |-> None ]
  /\ drafts = [ e \in Ids |-> [ count |-> 0, named |-> FALSE ] ]
  /\ calls = [ r \in Requests |-> Idle ]
  /\ losses = 0

Goes(r, to) == calls' = [ calls EXCEPT ![r].at = to ]

\* What a refused person presses again is a complete confirmation; else they have their answer.
Confirming(r) == calls[r].kind = "confirm" /\ calls[r].given = Critical

Answer(r, to) ==
  IF to = "refused" /\ ~Confirming(r) THEN calls' = [ calls EXCEPT ![r] = Idle ] ELSE Goes(r, to)

Stored == { e \in Ids : extractions[e] # None }

Rounds(i) == { e \in Stored : extractions[e].input = i }

-----------------------------------------------------------------------------
(* The clients *)

Ask(r, kind, i, e, given, named) ==
  /\ calls[r] = Idle
  /\ calls' = [ calls EXCEPT ![r] = [ kind |-> kind, at |-> "asked", input |-> i,
                                      extraction |-> e, given |-> given, named |-> named ] ]
  /\ UNCHANGED << inputs, extractions, drafts, losses >>

Submits(r, i) == \E kind \in { "register", "submit" } : Ask(r, kind, i, None, {}, FALSE)

Extends(r, i) ==
  \/ \E given \in SUBSET Critical : Ask(r, "clarify", i, None, given, FALSE)
  \/ \E kind \in { "retry", "external" } : Ask(r, kind, i, None, {}, FALSE)

\* The web page confirms with its form; the mini-program creates a task that names the
\* extraction, with every field filled in.
Confirms(r, e) ==
  \/ \E given \in SUBSET Critical, named \in BOOLEAN : Ask(r, "confirm", None, e, given, named)
  \/ Ask(r, "create", None, e, Critical, FALSE)

\* The answer arrives.
Return(r) ==
  /\ calls[r].at = "done"
  /\ calls' = [ calls EXCEPT ![r] = Idle ]
  /\ UNCHANGED << inputs, extractions, drafts, losses >>

\* What got no answer is asked again, and so is a complete confirmation that was refused.
Repeat(r) ==
  /\ calls[r].at \in { "failed", "refused" }
  /\ Goes(r, "asked")
  /\ UNCHANGED << inputs, extractions, drafts, losses >>

-----------------------------------------------------------------------------
(* TaskIntakeService, up to the first write *)

\* register_input: a known input is returned.
Register(r) ==
  /\ calls[r].kind = "register" /\ calls[r].at = "asked"
  /\ Answer(r, IF inputs[calls[r].input] # None THEN "done" ELSE "writing")
  /\ UNCHANGED << inputs, extractions, drafts, losses >>

\* submit_input: a known input is returned with its latest extraction, if it has any.
SubmitInput(r) ==
  /\ calls[r].kind = "submit" /\ calls[r].at = "asked"
  /\ Answer(r, IF inputs[calls[r].input] = None THEN "thinking"
             ELSE IF Rounds(calls[r].input) # {} THEN "done" ELSE "refused")
  /\ UNCHANGED << inputs, extractions, drafts, losses >>

\* clarify, retry_extraction: what the provider is told of the previous round does not bind it.
Extract(r) ==
  /\ calls[r].kind \in { "clarify", "retry" } /\ calls[r].at = "asked"
  /\ Answer(r, IF inputs[calls[r].input] # None THEN "thinking" ELSE "refused")
  /\ UNCHANGED << inputs, extractions, drafts, losses >>

\* record_external_extraction
RecordExternal(r) ==
  /\ calls[r].kind = "external" /\ calls[r].at = "asked"
  /\ Answer(r, IF inputs[calls[r].input] # None THEN "writing" ELSE "refused")
  /\ UNCHANGED << inputs, extractions, drafts, losses >>

ProviderAnswers(r) ==
  /\ calls[r].at = "thinking" /\ Goes(r, "writing")
  /\ UNCHANGED << inputs, extractions, drafts, losses >>

\* A rate limit, a timeout, or an answer that does not parse.
ProviderFails(r) ==
  /\ calls[r].at = "thinking" /\ Answer(r, "refused")
  /\ UNCHANGED << inputs, extractions, drafts, losses >>

\* Mutant: the linked task is not looked up before the draft is made.
NeverLinked(e) == FALSE

\* extraction.task_id
Linked(e) == extractions[e].linked

\* create_draft_from_extraction
Confirm(r) ==
  /\ calls[r].kind = "confirm" /\ calls[r].at = "asked"
  /\ LET e == calls[r].extraction
     IN  Answer(r, IF Linked(e) THEN "done"
                 ELSE IF extractions[e].known \cup calls[r].given = Critical THEN "writing"
                 ELSE "refused")
  /\ UNCHANGED << inputs, extractions, drafts, losses >>

-----------------------------------------------------------------------------
(* The writes, each in one transaction *)

\* Mutant: the row is merged, so that a second insert of an input passes.
Merged(i) == FALSE

\* The primary key of task_inputs.
InputConflict(i) == inputs[i] # None

CommitInput(r) ==
  /\ calls[r].kind = "register" /\ calls[r].at = "writing"
  /\ IF InputConflict(calls[r].input) THEN Goes(r, "failed") /\ UNCHANGED inputs
     ELSE /\ inputs' = [ inputs EXCEPT ![calls[r].input] = "register" ]
          /\ Goes(r, "done")
  /\ UNCHANGED << extractions, drafts, losses >>

\* Ids are drawn at random.
NewId == CHOOSE e \in Ids \ Stored : TRUE

\* What a provider may have found, with the answers of the person on top.
Found(r) == { found \cup calls[r].given : found \in SUBSET Critical }

\* _validated_extraction_result: a person nobody knows, a date or a weight that makes no sense
\* is struck out.
Validated(found) == SUBSET found

\* submit_input stores the input with its first extraction; the other rounds add to it.
CommitExtraction(r) ==
  /\ calls[r].kind \in { "submit", "clarify", "retry", "external" } /\ calls[r].at = "writing"
  /\ IF calls[r].kind = "submit" /\ InputConflict(calls[r].input)
     THEN Goes(r, "failed") /\ UNCHANGED << inputs, extractions >>
     ELSE \E found \in Found(r) : \E known \in Validated(found) :
              /\ Stored # Ids
              /\ extractions' = [ extractions EXCEPT ![NewId] =
                   [ input |-> calls[r].input, first |-> calls[r].kind = "submit",
                     known |-> known, linked |-> FALSE ] ]
              /\ inputs' = IF calls[r].kind = "submit"
                             THEN [ inputs EXCEPT ![calls[r].input] = "submit" ] ELSE inputs
              /\ Goes(r, "done")
  /\ UNCHANGED << drafts, losses >>

\* create_task_draft, up to its look at the extraction, which no lock protects.
CreateTaskDraft(r) ==
  /\ \/ calls[r].kind = "create" /\ calls[r].at = "asked"
     \/ calls[r].kind = "confirm" /\ calls[r].at = "writing"
  /\ LET e == calls[r].extraction
     IN  Answer(r, IF calls[r].named /\ drafts[e].named THEN "failed"
                 ELSE IF extractions[e].linked THEN "refused"
                 ELSE "linking")
  /\ UNCHANGED << inputs, extractions, drafts, losses >>

\* The task and the link in one commit: of two tasks the extraction is linked to the last.
CommitDraft(r) ==
  /\ calls[r].at = "linking"
  /\ LET e == calls[r].extraction
     IN  IF calls[r].named /\ drafts[e].named
         THEN Goes(r, "failed") /\ UNCHANGED << extractions, drafts >>
         ELSE /\ drafts' = [ drafts EXCEPT ![e] =
                   [ count |-> drafts[e].count + 1, named |-> drafts[e].named \/ calls[r].named ] ]
              /\ extractions' = [ extractions EXCEPT ![e].linked = TRUE ]
              /\ Goes(r, "done")
  /\ UNCHANGED << inputs, losses >>

\* A server dies, or a reply gets lost: an open transaction is rolled back.
Lose(r) ==
  /\ losses < MaxLosses
  /\ calls[r].at \in { "asked", "thinking", "writing", "linking", "done" }
  /\ losses' = losses + 1
  /\ Goes(r, "failed")
  /\ UNCHANGED << inputs, extractions, drafts >>

-----------------------------------------------------------------------------
Clients ==
  \E r \in Requests :
    \/ \E i \in Inputs : Submits(r, i) \/ (inputs[i] # None /\ Extends(r, i))
    \/ \E e \in Stored : Confirms(r, e)

Serve(r) ==
  \/ Register(r) \/ SubmitInput(r) \/ Extract(r) \/ RecordExternal(r) \/ ProviderAnswers(r)
  \/ ProviderFails(r) \/ Confirm(r) \/ CommitInput(r) \/ CommitExtraction(r)
  \/ CreateTaskDraft(r) \/ CommitDraft(r) \/ Return(r)

Next ==
  \/ Clients
  \/ \E r \in Requests : Serve(r) \/ Repeat(r) \/ Lose(r)

\* The servers serve, and who got no answer asks again.
Fairness == \A r \in Requests : WF_vars(Serve(r)) /\ WF_vars(Repeat(r))

Spec == Init /\ [][Next]_vars /\ Fairness

-----------------------------------------------------------------------------
(* Properties *)

\* An input that was submitted was stored together with the one extraction of its
\* submission, whatever the provider did, however often the client submitted it again, and
\* whoever else submitted it meanwhile.
SubmittedOnce ==
  \A i \in Inputs :
    Cardinality({ e \in Rounds(i) : extractions[e].first }) =
      IF inputs[i] = "submit" THEN 1 ELSE 0

\* Whoever keeps confirming an extraction with every field filled in gets a task, even if the
\* reply to a first attempt was lost or another confirmation was faster.
ConfirmationIsAnswered ==
  \A r \in Requests :
    Confirming(r) /\ calls[r].at = "asked" ~> Confirming(r) /\ calls[r].at = "done"

=============================================================================
