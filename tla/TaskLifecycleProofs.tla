------------------------- MODULE TaskLifecycleProofs -------------------------
(***************************************************************************)
(* What holds of a task, of its menu and next to the archive-snapshot      *)
(* endpoint, for any set of assignees and any bounds.                      *)
(***************************************************************************)
EXTENDS ActionMenu, ArchiveEndpoint, SequenceTheorems, TLAPS

-----------------------------------------------------------------------------
(* Helpers *)

\* A committed row is a row, and its log is a log.
LEMMA CommitTyped ==
  ASSUME NEW row \in Task, task \in Task, Commit(row)
  PROVE  /\ task' \in Task
         /\ log' \in Log
BY DEF Commit, Task, Log

\* Invalidating changes statuses only: the attempts stay as many.
LEMMA InvalidateTyped ==
  ASSUME attempts \in Seq(Attempt), InvalidateActive
  PROVE  /\ attempts' \in Seq(Attempt)
         /\ DOMAIN attempts' = DOMAIN attempts
         /\ Len(attempts') = Len(attempts)
<1>1. attempts \in [ 1..Len(attempts) -> Attempt ] /\ Len(attempts) \in Nat
  BY LenProperties
<1>2. ASSUME NEW r \in Attempt
      PROVE  [ r EXCEPT !.status = "invalidated" ] \in Attempt
  BY DEF Attempt
<1>3. attempts' \in [ 1..Len(attempts) -> Attempt ]
  BY <1>1, <1>2 DEF InvalidateActive
<1>4. attempts' \in Seq(Attempt)
  BY <1>1, <1>3, SeqDef
<1>5. DOMAIN attempts' = 1..Len(attempts) /\ DOMAIN attempts' = 1..Len(attempts')
  BY <1>3, <1>4, LenProperties
<1>6. Len(attempts') = Len(attempts)
  BY <1>1, <1>4, <1>5, LenProperties
<1> QED
  BY <1>1, <1>4, <1>5, <1>6

\* Setting the status of one attempt, as execute and the settling transactions do.
LEMMA SetStatusTyped ==
  ASSUME attempts \in Seq(Attempt), NEW a, NEW s \in { "running", "succeeded", "failed" },
         attempts' = [ attempts EXCEPT ![a].status = s ]
  PROVE  /\ attempts' \in Seq(Attempt)
         /\ DOMAIN attempts' = DOMAIN attempts
         /\ Len(attempts') = Len(attempts)
<1>1. attempts \in [ 1..Len(attempts) -> Attempt ] /\ Len(attempts) \in Nat
  BY LenProperties
<1>2. ASSUME NEW r \in Attempt
      PROVE  [ r EXCEPT !.status = s ] \in Attempt
  BY DEF Attempt
<1>3. attempts' \in [ 1..Len(attempts) -> Attempt ]
  BY <1>1, <1>2
<1>4. attempts' \in Seq(Attempt)
  BY <1>1, <1>3, SeqDef
<1>5. DOMAIN attempts' = 1..Len(attempts) /\ DOMAIN attempts' = 1..Len(attempts')
  BY <1>3, <1>4, LenProperties
<1>6. Len(attempts') = Len(attempts)
  BY <1>1, <1>4, <1>5, LenProperties
<1> QED
  BY <1>1, <1>4, <1>5, <1>6

\* Starting an attempt appends a typed one.
LEMMA StartTyped ==
  ASSUME TypeOK, Assigned, StartAttempt
  PROVE  /\ task' \in Task
         /\ log' \in Log
         /\ attempts' \in Seq(Attempt)
<1>1. [ task EXCEPT !.status = "decomposing", !.decomposition = "pending",
                    !.effective = FALSE, !.latest = Len(attempts) + 1 ] \in Task
  <2>1. Len(attempts) + 1 \in Nat
    BY LenProperties DEF TypeOK
  <2>2. [ task EXCEPT !.latest = Len(attempts) + 1 ] \in Task
    BY <2>1 DEF TypeOK, Task
  <2> QED
    BY <2>1, <2>2 DEF TypeOK, Task, Status
<1>2. [ status |-> "pending", version |-> task.version + 1, by |-> task.assignee ] \in Attempt
  BY DEF Assigned, TypeOK, Task, Attempt
<1> QED
  BY <1>1, <1>2, CommitTyped, AppendProperties DEF TypeOK, StartAttempt

\* The settling transactions store a typed row, whatever the outcome.
LEMMA SettleTyped ==
  ASSUME TypeOK, NEW c \in calls, NEW outcome \in { "succeeded", "failed" },
         NEW row \in Task, Settle(c, outcome, row)
  PROVE  /\ task' \in Task
         /\ log' \in Log
         /\ attempts' \in Seq(Attempt)
         /\ calls' \subseteq Call
<1>1. row.version + 1 \in Nat /\ row.status \in Status
  BY DEF Task
<1>2. task' \in Task
  BY <1>1 DEF Settle, Task
<1>3. log' \in Log
  BY <1>1 DEF Settle, Log
<1>4. attempts' \in Seq(Attempt)
  BY SetStatusTyped DEF TypeOK, Settle
<1> QED
  BY <1>2, <1>3, <1>4 DEF TypeOK, Settle

\* The lifecycle handlers either invalidate the attempt in flight or leave all as they are.
LEMMA LifecycleTyped ==
  ASSUME TypeOK, NEW from, NEW to \in Status, LifecycleTransition(from, to)
  PROVE  TypeOK'
<1>1. [ task EXCEPT !.status = to ] \in Task
  BY DEF TypeOK, Task
<1>2. [ task EXCEPT !.status = to, !.effective = FALSE,
                    !.decomposition = "invalidated" ] \in Task
  BY DEF TypeOK, Task
<1>3. task' \in Task /\ log' \in Log
  BY <1>1, <1>2, CommitTyped DEF TypeOK, LifecycleTransition
<1>4. attempts' \in Seq(Attempt)
  BY InvalidateTyped DEF TypeOK, LifecycleTransition
<1>5. change' \in Change
  BY DEF LifecycleTransition, CancelPendingChange, NoChange, Change
<1> QED
  BY <1>3, <1>4, <1>5 DEF TypeOK, LifecycleTransition

-----------------------------------------------------------------------------
(* Type correctness *)

LEMMA InitTyped == Init => TypeOK
<1> SUFFICES ASSUME Init PROVE TypeOK
  OBVIOUS
<1> PICK a \in Assignees \cup {Nobody}, r \in BOOLEAN :
      task = [ status |-> "draft", version |-> 1, assignee |-> a, ready |-> r,
               fulfilled |-> {}, effective |-> FALSE, decomposition |-> "none",
               latest |-> 0 ]
  BY DEF Init
<1>1. task \in Task /\ log \in Log
  BY DEF Init, Task, Log, Status
<1>2. attempts \in Seq(Attempt)
  BY EmptySeq DEF Init
<1>3. review \in Review /\ change \in Change
  BY DEF Init, Review, Change, NoChange
<1> QED
  BY <1>1, <1>2, <1>3 DEF Init, TypeOK

LEMMA UserStepTyped ==
  ASSUME TypeOK, UserStep
  PROVE  TypeOK'
<1> USE CommitTyped DEF TypeOK
<1>1. CASE \E a \in Assignees \cup {Nobody}, r \in BOOLEAN : UpdateDraft(a, r)
  <2> PICK a \in Assignees \cup {Nobody}, r \in BOOLEAN : UpdateDraft(a, r)
    BY <1>1
  <2> DEFINE s == IF task.status = "pending_confirmation" THEN "draft" ELSE task.status
  <2>1. s \in Status
    BY DEF Task, Status
  <2>2. [ task EXCEPT !.assignee = a, !.ready = r, !.status = s ] \in Task
    BY <2>1 DEF Task
  <2> QED
    BY <2>2 DEF UpdateDraft
<1>2. CASE SubmitForConfirmation
  BY <1>2 DEF SubmitForConfirmation, Task, Status
<1>3. CASE ConfirmAndSend
  BY <1>3 DEF ConfirmAndSend, Task, Status
<1>4. CASE ReturnTask
  BY <1>4 DEF ReturnTask, Task, Status
<1>5. CASE ResendTask
  BY <1>5 DEF ResendTask, Task, Status
<1>6. CASE AcceptTask
  BY <1>6, StartTyped DEF AcceptTask, MayAccept
<1>7. CASE RetryDecomposition
  BY <1>7, StartTyped DEF RetryDecomposition
<1>8. CASE CreateChange
  BY <1>8 DEF CreateChange, Change, Log, Task
<1>9. CASE \E p \in { "none", "open", "done" }, r \in BOOLEAN : ApproveChange(p, r)
  BY <1>9 DEF ApproveChange, Change, NoChange, Task
<1>10. CASE DropChange
  BY <1>10 DEF DropChange, Change, NoChange, Log, Task
<1>11. CASE \E p \in { "open", "done" } : NodeWrite(p)
  <2>1. task.version + 1 \in Nat /\ "in_progress" \in Status
    BY DEF Task, Status
  <2>2. [ task EXCEPT !.version = task.version + 1 ] \in Task
    BY <2>1 DEF Task
  <2> QED
    BY <1>11, <2>1, <2>2 DEF NodeWrite, Log
<1>12. CASE AnswerAssignment
  BY <1>12 DEF AnswerAssignment, Task
<1>13. CASE ReopenNode
  BY <1>13 DEF ReopenNode, Review
<1>14. CASE ConfirmTaskPlan
  BY <1>14 DEF ConfirmTaskPlan, Task
<1>15. CASE \E p \in Periods \cup {NoPeriod}, hasIssue \in BOOLEAN : ReportProgress(p, hasIssue)
  BY <1>15 DEF ReportProgress, Task, Status
<1>16. CASE \E isBlocker \in BOOLEAN : CreateIssue(isBlocker)
  BY <1>16 DEF CreateIssue, Task, Status
<1>17. CASE \E after \in { "none", "unclosed", "blocker" }, settles \in BOOLEAN :
             TransitionIssue(after, settles)
  BY <1>17 DEF TransitionIssue, Task, Status
<1>18. CASE SubmitCompletion
  BY <1>18 DEF SubmitCompletion, Review, Task, Status
<1>19. CASE ApproveCompletion
  <2>1. "archived" \in Status /\ task.version + 2 \in Nat
    BY DEF Task, Status
  <2>2. task' \in Task
    BY <1>19, <2>1 DEF ApproveCompletion, Task
  <2>3. log' \in Log /\ review' \in Review
    BY <1>19, <2>1 DEF ApproveCompletion, Log, Review
  <2> QED
    BY <1>19, <2>2, <2>3 DEF ApproveCompletion
<1>20. CASE \E rework \in { "none", "wanted" } : RejectCompletion(rework)
  <2> PICK rework \in { "none", "wanted" } : RejectCompletion(rework)
    BY <1>20
  <2>1. [ task EXCEPT !.status = "in_progress" ] \in Task
    BY DEF TypeOK, Task, Status
  <2>2. task' \in Task /\ log' \in Log
    BY <2>1, CommitTyped DEF TypeOK, RejectCompletion
  <2>3. review' \in Review
    BY DEF TypeOK, RejectCompletion, Review
  <2> QED
    BY <2>2, <2>3 DEF TypeOK, RejectCompletion
<1>21. CASE CancelTask
  BY <1>21, LifecycleTyped DEF CancelTask, Status
<1>22. CASE WithdrawTask
  BY <1>22, LifecycleTyped DEF WithdrawTask, Status
<1>23. CASE CloseTask
  BY <1>23, LifecycleTyped DEF CloseTask, Status
<1>24. CASE ArchiveTask
  BY <1>24, LifecycleTyped DEF ArchiveTask, Status
<1>25. CASE \E a \in Assignees : ReassignTask(a)
  <2> PICK a \in Assignees : ReassignTask(a)
    BY <1>25
  <2>1. [ task EXCEPT !.status = "pending_acceptance", !.assignee = a, !.effective = FALSE,
                      !.decomposition = "none", !.latest = 0 ] \in Task
    BY DEF Task, Status
  <2>2. attempts' \in Seq(Attempt)
    BY InvalidateTyped DEF ReassignTask
  <2> QED
    BY <2>1, <2>2 DEF ReassignTask, CancelPendingChange, NoChange, Change
<1>26. CASE RestoreTask
  BY <1>26 DEF RestoreTask, RestoreTo, Task, Status, MayRestore
<1>27. CASE MergeTask
  BY <1>27 DEF MergeTask, CancelPendingChange, NoChange, Change, Task, Status
<1> QED
  BY <1>1, <1>2, <1>3, <1>4, <1>5, <1>6, <1>7, <1>8, <1>9, <1>10, <1>11, <1>12, <1>13,
     <1>14, <1>15, <1>16, <1>17, <1>18, <1>19, <1>20, <1>21, <1>22, <1>23, <1>24, <1>25,
     <1>26, <1>27 DEF UserStep

LEMMA ExecuteTyped ==
  ASSUME TypeOK, ExecuteStep
  PROVE  TypeOK'
<1> PICK a \in DOMAIN attempts, u \in Assignees : Execute(a, u)
  BY DEF ExecuteStep
<1>1. a \in Nat
  BY LenProperties DEF TypeOK
<1>2. calls' \subseteq Call
  BY <1>1 DEF TypeOK, Execute, Call
<1>3. attempts' \in Seq(Attempt)
  BY SetStatusTyped DEF TypeOK, Execute
<1>4. task' \in Task
  BY DEF TypeOK, Execute, Task
<1> QED
  BY <1>2, <1>3, <1>4 DEF TypeOK, Execute

LEMMA CallStepTyped ==
  ASSUME TypeOK, CallStep \/ CrashStep
  PROVE  TypeOK'
<1>1. ASSUME NEW c \in calls, CallRaises(c)
      PROVE  TypeOK'
  <2>1. [ c EXCEPT !.phase = "failing" ] \in Call
    BY DEF TypeOK, Call
  <2> QED
    BY <1>1, <2>1 DEF TypeOK, CallRaises
<1>2. ASSUME NEW c \in calls, CompleteResult(c)
      PROVE  TypeOK'
  <2>1. [ task EXCEPT !.status = "in_progress", !.effective = TRUE ] \in Task
    BY DEF TypeOK, Task, Status
  <2> QED
    BY <1>2, <2>1, SettleTyped DEF TypeOK, CompleteResult
<1>3. ASSUME NEW c \in calls, FailAttempt(c)
      PROVE  TypeOK'
  <2>1. [ task EXCEPT !.status = "decomposition_failed", !.effective = FALSE ] \in Task
    BY DEF TypeOK, Task, Status
  <2> QED
    BY <1>3, <2>1, SettleTyped DEF TypeOK, FailAttempt
<1>4. ASSUME NEW c \in calls, FailRefused(c) \/ WorkerCrash(c)
      PROVE  TypeOK'
  BY <1>4 DEF TypeOK, FailRefused, WorkerCrash
<1> QED
  BY <1>1, <1>2, <1>3, <1>4 DEF CallStep, CrashStep, Continue

\* Every reachable task, attempt, call, request, review and log is of its type: in
\* particular no handler stores a status outside the vocabulary the others test.
THEOREM TypeCorrect == Spec => []TypeOK
<1>1. TypeOK /\ [Next]_vars => TypeOK'
  <2> SUFFICES ASSUME TypeOK, [Next]_vars PROVE TypeOK'
    OBVIOUS
  <2>1. CASE UNCHANGED vars
    BY <2>1 DEF TypeOK, vars
  <2> QED
    BY <2>1, UserStepTyped, ExecuteTyped, CallStepTyped DEF Next
<1> QED
  BY InitTyped, <1>1, PTL DEF Spec

-----------------------------------------------------------------------------
(* Kinds of user steps *)

\* A pending request was written for the current version or an older one, and for the
\* current one only while the task is executed.
ChangeInv ==
  /\ change.pending => change.base <= task.version
  /\ ChangeDecidedInExecution

\* The statuses in which the assignee's plan is being carried out or judged.
Executed == ExecutionStatus \cup { "pending_review" }

\* A request is pending only where no lifecycle handler has been since: on a task that has
\* nodes, until it is completed.
PendingInv ==
  change.pending => plan # "none" /\ task.status \in Executed \cup { "completed", "archived" }

\* A user step that leaves the attempts alone: most handlers, merge included.
Quiet ==
  /\ UNCHANGED << attempts, calls >>
  /\ task.status # "merged"
  /\ task'.status # "decomposing"
  /\ task.status = "decomposing" => task'.status = "merged"
  /\ task'.latest = task.latest
  /\ task'.decomposition = task.decomposition
  /\ task'.effective = task.effective
  /\ task'.status \in OfferedStatus => task.status \in OfferedStatus \/ plan = "none"
  /\ task'.status \in Executed => task.status \in Executed /\ task'.assignee = task.assignee
  /\ plan' = "none" => plan = "none"

\* accept_task and retry.
Started ==
  /\ task.status \in { "pending_acceptance", "decomposition_failed" }
  /\ NoActiveAttempt
  /\ Assigned
  /\ StartAttempt
  /\ UNCHANGED << calls, plan >>

\* A lifecycle handler takes the task away from the attempt in flight.
TakenAway ==
  /\ task.status = "decomposing"
  /\ InvalidateActive
  /\ task'.status \notin Executed \cup { "decomposing" }
  /\ \/ task'.latest = task.latest /\ task'.decomposition = "invalidated"
     \/ task'.latest = 0
  /\ task'.effective = FALSE
  /\ UNCHANGED << calls, plan >>

\* A reassignment when nothing is in flight.
Lapsed ==
  /\ task.status \notin { "decomposing", "merged" }
  /\ task'.status = "pending_acceptance"
  /\ task'.latest = 0
  /\ task'.effective = FALSE
  /\ UNCHANGED << attempts, calls, plan >>

\* Cancelling, withdrawing, closing and archiving end the attempt in flight, if any.
LEMMA LifecycleKinds ==
  ASSUME TypeOK, NEW from, NEW to \in { "cancelled", "withdrawn", "closed", "archived" },
         "merged" \notin from, LifecycleTransition(from, to)
  PROVE  ChangeInv' /\ PendingInv' /\ (Quiet \/ TakenAway)
<1>0. task \in Task
  BY DEF TypeOK
<1>1. ChangeInv' /\ PendingInv'
  BY DEF LifecycleTransition, CancelPendingChange, NoChange, ChangeInv, ChangeDecidedInExecution,
     PendingOnCurrentVersion, PendingInv
<1>2. CASE task.status = "decomposing"
  <2>1. /\ task'.status = to
        /\ task'.latest = task.latest
        /\ task'.decomposition = "invalidated"
        /\ task'.effective = FALSE
    BY <1>0, <1>2 DEF LifecycleTransition, Commit, Task
  <2>2. TakenAway
    BY <1>2, <2>1 DEF LifecycleTransition, TakenAway, Executed, ExecutionStatus
  <2> QED
    BY <1>1, <2>2
<1>3. CASE task.status # "decomposing"
  <2>1. /\ task'.status = to
        /\ task'.latest = task.latest
        /\ task'.decomposition = task.decomposition
        /\ task'.effective = task.effective
    BY <1>0, <1>3 DEF LifecycleTransition, Commit, Task
  <2>2. Quiet
    BY <1>3, <2>1 DEF LifecycleTransition, Quiet, Executed, ExecutionStatus, OfferedStatus, MayLeave
  <2> QED
    BY <1>1, <2>2
<1> QED
  BY <1>2, <1>3

\* Every handler but execute is of one of four kinds, and keeps PendingInv and ChangeInv: it
\* cancels the pending request, leaves it behind at an older version, or has just written it.
LEMMA UserStepKinds ==
  ASSUME TypeOK, PendingInv, ExecutionIsEffective, UserStep
  PROVE  /\ PendingInv'
         /\ ChangeInv => ChangeInv'
         /\ Quiet \/ Started \/ TakenAway \/ Lapsed
<1>0. task \in Task /\ change \in Change
  BY DEF TypeOK
<1> USE <1>0 DEF ChangeInv, ChangeDecidedInExecution, PendingOnCurrentVersion, PendingInv,
                 Quiet, Task, Change, NoChange, Commit, OfferedStatus, ExecutionStatus, Executed
<1>1. CASE \E a \in Assignees \cup {Nobody}, r \in BOOLEAN : UpdateDraft(a, r)
  BY <1>1 DEF UpdateDraft, EditableStatus
<1>2. CASE SubmitForConfirmation
  BY <1>2 DEF SubmitForConfirmation, SendReady
<1>3. CASE ConfirmAndSend
  BY <1>3 DEF ConfirmAndSend, SendReady
<1>4. CASE ReturnTask
  BY <1>4 DEF ReturnTask, MayReturn
<1>5. CASE ResendTask
  BY <1>5 DEF ResendTask, MayResend
<1>6. CASE AcceptTask
  BY <1>6 DEF AcceptTask, StartAttempt, Started, MayAccept
<1>7. CASE RetryDecomposition
  BY <1>7 DEF RetryDecomposition, StartAttempt, Started
<1>8. CASE CreateChange
  BY <1>8 DEF CreateChange, MayRequestChange, ExecutionIsEffective
<1>9. CASE \E p \in { "none", "open", "done" }, r \in BOOLEAN : ApproveChange(p, r)
  BY <1>9 DEF ApproveChange
<1>10. CASE DropChange
  BY <1>10 DEF DropChange
<1>11. CASE \E p \in { "open", "done" } : NodeWrite(p)
  BY <1>11 DEF NodeWrite
<1>12. CASE AnswerAssignment
  BY <1>12 DEF AnswerAssignment
<1>13. CASE ReopenNode
  BY <1>13 DEF ReopenNode
<1>14. CASE ConfirmTaskPlan
  BY <1>14 DEF ConfirmTaskPlan
<1>15. CASE \E p \in Periods \cup {NoPeriod}, hasIssue \in BOOLEAN : ReportProgress(p, hasIssue)
  BY <1>15 DEF ReportProgress, MayReport
<1>16. CASE \E isBlocker \in BOOLEAN : CreateIssue(isBlocker)
  BY <1>16 DEF CreateIssue, MayRaiseIssue
<1>17. CASE \E after \in { "none", "unclosed", "blocker" }, settles \in BOOLEAN :
             TransitionIssue(after, settles)
  BY <1>17 DEF TransitionIssue
<1>18. CASE SubmitCompletion
  BY <1>18 DEF SubmitCompletion, MaySubmit
<1>19. CASE ApproveCompletion
  BY <1>19 DEF ApproveCompletion, MayApprove
<1>20. CASE \E rework \in { "none", "wanted" } : RejectCompletion(rework)
  BY <1>20 DEF RejectCompletion, MayReject
<1>21. CASE CancelTask
  <2>1. "merged" \notin CancellableFrom
    BY DEF CancellableFrom
  <2> QED
    BY <1>21, <2>1, LifecycleKinds DEF CancelTask
<1>22. CASE WithdrawTask
  <2>1. "merged" \notin WithdrawableFrom
    BY DEF WithdrawableFrom
  <2> QED
    BY <1>22, <2>1, LifecycleKinds DEF WithdrawTask
<1>23. CASE CloseTask
  <2>1. "merged" \notin ClosableFrom
    BY DEF ClosableFrom
  <2> QED
    BY <1>23, <2>1, LifecycleKinds DEF CloseTask
<1>24. CASE ArchiveTask
  BY <1>24, LifecycleKinds DEF ArchiveTask
<1>25. CASE \E a \in Assignees : ReassignTask(a)
  <2> PICK a \in Assignees : ReassignTask(a)
    BY <1>25
  <2>1. ChangeInv' /\ PendingInv'
    BY DEF ReassignTask, CancelPendingChange
  <2>2. CASE task.status = "decomposing"
    <3>1. TakenAway
      BY <2>2 DEF ReassignTask, TakenAway
    <3> QED
      BY <2>1, <3>1
  <2>3. CASE task.status # "decomposing"
    <3>1. Lapsed
      BY <2>3 DEF ReassignTask, ReassignableFrom, Lapsed, MayReassign
    <3> QED
      BY <2>1, <3>1
  <2> QED
    BY <2>2, <2>3
<1>26. CASE RestoreTask
  BY <1>26 DEF RestoreTask, RestoreTo, MayRestore
<1>27. CASE MergeTask
  BY <1>27 DEF MergeTask, CancelPendingChange, UnmergeableStatus, MayMerge
<1> QED
  BY <1>1, <1>2, <1>3, <1>4, <1>5, <1>6, <1>7, <1>8, <1>9, <1>10, <1>11, <1>12, <1>13,
     <1>14, <1>15, <1>16, <1>17, <1>18, <1>19, <1>20, <1>21, <1>22, <1>23, <1>24, <1>25,
     <1>26, <1>27 DEF UserStep
-----------------------------------------------------------------------------
(* The inductive invariant *)

\* Everything the handlers rely on about the attempts of a task.
AttemptInv ==
  /\ OneActiveAttempt
  /\ DecomposingHasCurrentAttempt
  /\ ProjectionMatchesAttempt
  /\ task.latest \in 0..Len(attempts)
  /\ \A c \in calls : c.attempt \in DOMAIN attempts

\* An effective task has nodes, which is what keeps a restored one from being sent.
EffectInv ==
  /\ OfferedIsIneffective
  /\ ExecutionIsEffective
  /\ task.effective => plan # "none"

\* What also a stale write to status and version leaves true.
CoreInv == TypeOK /\ PendingInv /\ AttemptInv /\ EffectInv

IInv == CoreInv /\ ChangeInv /\ NoAttemptOutlivesDecomposing

LEMMA InitIInv == Init => IInv
<1> SUFFICES ASSUME Init PROVE IInv
  OBVIOUS
<1>1. TypeOK
  BY InitTyped
<1>2. task.status = "draft" /\ task.latest = 0 /\ ~task.effective
  BY DEF Init
<1>3. Len(attempts) = 0 /\ DOMAIN attempts = {}
  BY EmptySeq DEF Init
<1>4. ChangeInv /\ PendingInv
  BY DEF Init, NoChange, ChangeInv, ChangeDecidedInExecution, PendingOnCurrentVersion, PendingInv
<1>5. AttemptInv /\ NoAttemptOutlivesDecomposing
  BY <1>2, <1>3 DEF Init, AttemptInv, OneActiveAttempt, DecomposingHasCurrentAttempt,
                    NoAttemptOutlivesDecomposing, NoActiveAttempt, ProjectionMatchesAttempt
<1>6. EffectInv
  BY <1>2 DEF EffectInv, OfferedIsIneffective, ExecutionIsEffective, OfferedStatus,
              ExecutionStatus
<1> QED
  BY <1>1, <1>4, <1>5, <1>6 DEF IInv, CoreInv

\* Handlers that leave the attempts alone.
LEMMA QuietKeeps ==
  ASSUME CoreInv, Quiet
  PROVE  AttemptInv' /\ EffectInv'
<1> USE DEF CoreInv, Quiet
<1>1. AttemptInv'
  BY DEF AttemptInv, OneActiveAttempt, ProjectionMatchesAttempt, DecomposingHasCurrentAttempt,
         Active
<1>2. EffectInv'
  <2>1. OfferedIsIneffective' /\ (task.effective => plan # "none")'
    BY DEF EffectInv, OfferedIsIneffective
  <2>2. ExecutionIsEffective'
    BY DEF EffectInv, ExecutionIsEffective, Executed
  <2> QED
    BY <2>1, <2>2 DEF EffectInv
<1> QED
  BY <1>1, <1>2

\* A new attempt is the only one in flight and the latest.
LEMMA StartedKeeps ==
  ASSUME CoreInv, Started
  PROVE  AttemptInv' /\ EffectInv'
<1> DEFINE n == Len(attempts) + 1
           new == [ status |-> "pending", version |-> task.version + 1, by |-> task.assignee ]
<1> USE DEF CoreInv
<1>1. task \in Task /\ new \in Attempt /\ attempts \in Seq(Attempt)
  BY DEF Started, Assigned, TypeOK, Task, Attempt
<1>2. /\ attempts' = Append(attempts, new)
      /\ NoActiveAttempt
      /\ UNCHANGED << calls, plan >>
  BY DEF Started, StartAttempt
<1>3. /\ task'.status = "decomposing"
      /\ task'.latest = n
      /\ task'.decomposition = "pending"
      /\ task'.version = task.version + 1
      /\ task'.assignee = task.assignee
      /\ task'.effective = FALSE
  BY <1>1 DEF Started, StartAttempt, Commit, Task
<1>4. /\ DOMAIN attempts = 1..Len(attempts)
      /\ Len(attempts) \in Nat
      /\ DOMAIN attempts' = 1..n
      /\ Len(attempts') = n
      /\ attempts'[n] = new
      /\ \A a \in DOMAIN attempts : attempts'[a] = attempts[a]
  <2>1. DOMAIN attempts = 1..Len(attempts) /\ Len(attempts) \in Nat
    BY <1>1, LenProperties
  <2>2. attempts' \in Seq(Attempt) /\ Len(attempts') = n /\ attempts'[n] = new
    BY <1>1, <1>2, AppendProperties
  <2>3. \A a \in 1..Len(attempts) : attempts'[a] = attempts[a]
    BY <1>1, <1>2, AppendProperties
  <2>4. DOMAIN attempts' = 1..Len(attempts')
    BY <2>2, LenProperties
  <2> QED
    BY <2>1, <2>2, <2>3, <2>4
<1>5. attempts'[n].status = "pending" /\ attempts'[n].status \in ActiveStatus
  BY <1>4 DEF ActiveStatus
<1>6. \A a \in DOMAIN attempts' : attempts'[a].status \in ActiveStatus => a = n
  BY <1>2, <1>4 DEF NoActiveAttempt, Active
<1>7. AttemptInv'
  <2>1. OneActiveAttempt'
    BY <1>6 DEF OneActiveAttempt, Active
  <2>2. DecomposingHasCurrentAttempt'
    BY <1>3, <1>4, <1>5 DEF DecomposingHasCurrentAttempt, CurrentAttempt, Active
  <2>3. ProjectionMatchesAttempt'
    BY <1>3, <1>4 DEF ProjectionMatchesAttempt
  <2>4. task'.latest \in 0..Len(attempts') /\ \A c \in calls' : c.attempt \in DOMAIN attempts'
    BY <1>2, <1>3, <1>4 DEF AttemptInv
  <2> QED
    BY <2>1, <2>2, <2>3, <2>4 DEF AttemptInv
<1>8. EffectInv'
  BY <1>3 DEF EffectInv, OfferedIsIneffective, ExecutionIsEffective, ExecutionStatus
<1> QED
  BY <1>7, <1>8

\* After an invalidation nothing is in flight.
LEMMA TakenAwayKeeps ==
  ASSUME CoreInv, TakenAway
  PROVE  AttemptInv' /\ EffectInv'
<1> USE DEF CoreInv
<1>1. attempts \in Seq(Attempt)
  BY DEF TypeOK
<1>2. /\ DOMAIN attempts' = DOMAIN attempts
      /\ Len(attempts') = Len(attempts)
  BY <1>1, InvalidateTyped DEF TakenAway
<1>3. \A a \in DOMAIN attempts :
        attempts'[a] = IF Active(a) THEN [ attempts[a] EXCEPT !.status = "invalidated" ]
                       ELSE attempts[a]
  BY DEF TakenAway, InvalidateActive
<1>4. \A a \in DOMAIN attempts : attempts[a] \in Attempt
  BY <1>1, LenProperties
<1>5. \A a \in DOMAIN attempts : ~Active(a)'
  BY <1>3, <1>4 DEF Active, ActiveStatus, Attempt
<1>6. AttemptInv'
  <2>1. OneActiveAttempt' /\ DecomposingHasCurrentAttempt'
    BY <1>2, <1>5 DEF TakenAway, OneActiveAttempt, DecomposingHasCurrentAttempt
  <2>2. ProjectionMatchesAttempt'
    <3>1. task.latest \in DOMAIN attempts /\ Active(task.latest)
      BY DEF TakenAway, AttemptInv, DecomposingHasCurrentAttempt
    <3>2. attempts'[task.latest].status = "invalidated"
      BY <1>3, <1>4, <3>1 DEF Attempt
    <3> QED
      BY <3>2 DEF TakenAway, ProjectionMatchesAttempt
  <2>3. task'.latest \in 0..Len(attempts') /\ \A c \in calls' : c.attempt \in DOMAIN attempts'
    BY <1>1, <1>2, LenProperties DEF TakenAway, AttemptInv
  <2> QED
    BY <2>1, <2>2, <2>3 DEF AttemptInv
<1>7. EffectInv'
  BY DEF TakenAway, EffectInv, OfferedIsIneffective, ExecutionIsEffective, Executed
<1> QED
  BY <1>6, <1>7

LEMMA LapsedKeeps ==
  ASSUME CoreInv, Lapsed
  PROVE  AttemptInv' /\ EffectInv'
<1> USE DEF CoreInv, Lapsed
<1>1. OneActiveAttempt' /\ DecomposingHasCurrentAttempt'
  BY DEF AttemptInv, OneActiveAttempt, DecomposingHasCurrentAttempt, Active
<1>2. ProjectionMatchesAttempt' /\ task'.latest \in 0..Len(attempts')
  BY LenProperties DEF TypeOK, ProjectionMatchesAttempt
<1>3. EffectInv'
  BY DEF EffectInv, OfferedIsIneffective, ExecutionIsEffective, ExecutionStatus
<1> QED
  BY <1>1, <1>2, <1>3 DEF AttemptInv

\* The first transaction of execute claims the latest attempt.
LEMMA ExecuteKeeps ==
  ASSUME CoreInv, NEW a \in DOMAIN attempts, NEW u \in Assignees, Execute(a, u)
  PROVE  PendingInv' /\ AttemptInv' /\ EffectInv'
<1> USE DEF CoreInv
<1>1. task \in Task /\ attempts \in Seq(Attempt)
  BY DEF TypeOK
<1>2. /\ attempts' = [ attempts EXCEPT ![a].status = "running" ]
      /\ DOMAIN attempts' = DOMAIN attempts
      /\ Len(attempts') = Len(attempts)
  BY <1>1, SetStatusTyped DEF Execute
<1>3. /\ task.status = "decomposing" /\ task.latest = a
      /\ task' = [ task EXCEPT !.decomposition = "running" ]
      /\ UNCHANGED << change, plan >>
  BY DEF Execute, CurrentAttempt
<1>4. /\ \A b \in DOMAIN attempts : attempts[b] \in Attempt
      /\ attempts'[a] = [ attempts[a] EXCEPT !.status = "running" ]
      /\ \A b \in DOMAIN attempts \ {a} : attempts'[b] = attempts[b]
  BY <1>1, <1>2, LenProperties
<1>5. Active(a) /\ Active(a)'
  BY <1>4 DEF Execute, Active, ActiveStatus, Attempt
<1>6. \A b \in DOMAIN attempts : Active(b)' <=> Active(b)
  BY <1>4, <1>5 DEF Active
<1>7. PendingInv'
  BY <1>1, <1>3 DEF PendingInv, Executed, ExecutionStatus
<1>8. AttemptInv'
  <2>1. OneActiveAttempt'
    BY <1>2, <1>6 DEF AttemptInv, OneActiveAttempt
  <2>2. DecomposingHasCurrentAttempt'
    BY <1>1, <1>2, <1>3, <1>4, <1>5 DEF AttemptInv, DecomposingHasCurrentAttempt,
       CurrentAttempt, Task, Attempt
  <2>3. ProjectionMatchesAttempt'
    BY <1>1, <1>3, <1>4 DEF ProjectionMatchesAttempt, Task, Attempt
  <2>4. task'.latest \in 0..Len(attempts') /\ \A c \in calls' : c.attempt \in DOMAIN attempts'
    BY <1>1, <1>2, <1>3 DEF Execute, AttemptInv, Task
  <2> QED
    BY <2>1, <2>2, <2>3, <2>4 DEF AttemptInv
<1>9. EffectInv'
  BY <1>1, <1>3 DEF EffectInv, OfferedIsIneffective, ExecutionIsEffective, ExecutionStatus,
     Task
<1> QED
  BY <1>7, <1>8, <1>9

\* The row with which an attempt is settled.
SettledRow(outcome) ==
  IF outcome = "succeeded"
    THEN [ task EXCEPT !.status = "in_progress", !.effective = TRUE ]
    ELSE [ task EXCEPT !.status = "decomposition_failed", !.effective = FALSE ]

\* What complete_result and fail_attempt have in common: the attempt they settle is the
\* one in flight, and afterwards none is.
LEMMA SettleEnds ==
  ASSUME CoreInv, NEW c \in calls, CurrentAttempt(c.attempt),
         NEW outcome \in { "succeeded", "failed" }, NEW row, Settle(c, outcome, row)
  PROVE  /\ c.attempt \in DOMAIN attempts
         /\ Active(c.attempt)
         /\ DOMAIN attempts' = DOMAIN attempts
         /\ Len(attempts') = Len(attempts)
         /\ attempts'[c.attempt] = [ attempts[c.attempt] EXCEPT !.status = outcome ]
         /\ attempts'[c.attempt].status = outcome
         /\ attempts'[c.attempt].by = attempts[c.attempt].by
         /\ \A b \in DOMAIN attempts : b # c.attempt => attempts'[b] = attempts[b]
         /\ \A b \in DOMAIN attempts' : ~Active(b)'
<1> USE DEF CoreInv
<1>1. attempts \in Seq(Attempt) /\ attempts' = [ attempts EXCEPT ![c.attempt].status = outcome ]
  BY DEF TypeOK, Settle
<1>2. DOMAIN attempts' = DOMAIN attempts /\ Len(attempts') = Len(attempts)
  BY <1>1, SetStatusTyped
<1>3. c.attempt \in DOMAIN attempts /\ Active(c.attempt)
  BY DEF AttemptInv, DecomposingHasCurrentAttempt, CurrentAttempt
<1>4. attempts[c.attempt] \in Attempt
  BY <1>1, <1>3, LenProperties
<1>5. /\ attempts'[c.attempt] = [ attempts[c.attempt] EXCEPT !.status = outcome ]
      /\ attempts'[c.attempt].status = outcome
      /\ attempts'[c.attempt].by = attempts[c.attempt].by
  BY <1>1, <1>3, <1>4 DEF Attempt
<1>6. \A b \in DOMAIN attempts : b # c.attempt => attempts'[b] = attempts[b]
  BY <1>1
<1>7. \A b \in DOMAIN attempts' : ~Active(b)'
  BY <1>2, <1>3, <1>5, <1>6 DEF AttemptInv, OneActiveAttempt, Active, ActiveStatus
<1> QED
  BY <1>2, <1>3, <1>5, <1>6, <1>7

LEMMA SettleKeeps ==
  ASSUME CoreInv, NEW c \in calls, CompleteResult(c) \/ FailAttempt(c)
  PROVE  PendingInv' /\ AttemptInv' /\ EffectInv'
<1> USE DEF CoreInv
<1>1. /\ task \in Task /\ change \in Change
      /\ CurrentAttempt(c.attempt)
      /\ c.actor = task.assignee
      /\ task.status = "decomposing" /\ task.latest = c.attempt
      /\ UNCHANGED change
  BY DEF TypeOK, CompleteResult, FailAttempt, CurrentAttempt
<1>2. PICK outcome \in { "succeeded", "failed" } :
        /\ Settle(c, outcome, SettledRow(outcome))
        /\ plan' = IF outcome = "succeeded" THEN "open" ELSE plan
  BY DEF CompleteResult, FailAttempt, SettledRow
<1>3. /\ c.attempt \in DOMAIN attempts'
      /\ Len(attempts') = Len(attempts)
      /\ DOMAIN attempts' = DOMAIN attempts
      /\ attempts'[c.attempt].status = outcome
      /\ attempts'[c.attempt].by = attempts[c.attempt].by
      /\ \A b \in DOMAIN attempts' : ~Active(b)'
  BY <1>1, <1>2, SettleEnds
<1>4. /\ task'.status = IF outcome = "succeeded" THEN "in_progress" ELSE "decomposition_failed"
      /\ task'.effective = (outcome = "succeeded")
      /\ task'.decomposition = outcome
      /\ task'.version = task.version + 1
      /\ task'.latest = c.attempt
      /\ task'.assignee = task.assignee
  BY <1>1, <1>2 DEF Settle, SettledRow, Task
<1>5. PendingInv'
  BY <1>1 DEF PendingInv, Executed, ExecutionStatus
<1>6. AttemptInv'
  <2>1. OneActiveAttempt' /\ DecomposingHasCurrentAttempt'
    BY <1>3, <1>4 DEF OneActiveAttempt, DecomposingHasCurrentAttempt
  <2>2. ProjectionMatchesAttempt'
    BY <1>3, <1>4 DEF ProjectionMatchesAttempt
  <2>3. task'.latest \in 0..Len(attempts') /\ \A d \in calls' : d.attempt \in DOMAIN attempts'
    BY <1>1, <1>2, <1>3, <1>4 DEF Settle, AttemptInv
  <2> QED
    BY <2>1, <2>2, <2>3 DEF AttemptInv
<1>7. EffectInv'
  <2>1. attempts[c.attempt].by = task.assignee
    BY <1>1 DEF AttemptInv, DecomposingHasCurrentAttempt
  <2>2. outcome = "succeeded" => plan' = "open"
    BY <1>2
  <2> QED
    BY <1>3, <1>4, <2>1, <2>2 DEF EffectInv, OfferedIsIneffective, ExecutionIsEffective,
       OfferedStatus, ExecutionStatus
<1> QED
  BY <1>5, <1>6, <1>7

\* A call that raises, is refused or is cut off changes nothing but itself.
LEMMA OtherCallStepsKeep ==
  ASSUME CoreInv, NEW c \in calls, CallRaises(c) \/ FailRefused(c) \/ WorkerCrash(c)
  PROVE  PendingInv' /\ AttemptInv' /\ EffectInv'
<1> USE DEF CoreInv
<1>1. /\ UNCHANGED << task, attempts, change, plan >>
      /\ \A d \in calls' : d.attempt \in DOMAIN attempts
  <2>1. c \in Call
    BY DEF TypeOK
  <2> QED
    BY <2>1 DEF CallRaises, FailRefused, WorkerCrash, AttemptInv, Call
<1>2. PendingInv' /\ EffectInv'
  BY <1>1 DEF PendingInv, EffectInv, OfferedIsIneffective, ExecutionIsEffective
<1>3. AttemptInv'
  BY <1>1 DEF AttemptInv, OneActiveAttempt, DecomposingHasCurrentAttempt, CurrentAttempt,
     ProjectionMatchesAttempt, Active
<1> QED
  BY <1>2, <1>3

LEMMA StepCore == CoreInv /\ [Next]_vars => CoreInv'
<1> SUFFICES ASSUME CoreInv, [Next]_vars PROVE CoreInv'
  OBVIOUS
<1>1. TypeOK'
  BY UserStepTyped, ExecuteTyped, CallStepTyped DEF CoreInv, TypeOK, vars, Next
<1>2. CASE UserStep
  BY <1>1, <1>2, UserStepKinds, QuietKeeps, StartedKeeps, TakenAwayKeeps, LapsedKeeps
     DEF CoreInv, EffectInv
<1>3. CASE ExecuteStep
  BY <1>1, <1>3, ExecuteKeeps DEF CoreInv, ExecuteStep
<1>4. CASE CallStep \/ CrashStep
  BY <1>1, <1>4, SettleKeeps, OtherCallStepsKeep DEF CoreInv, CallStep, CrashStep, Continue
<1>5. CASE UNCHANGED vars
  <2>1. PendingInv' /\ EffectInv'
    BY <1>5 DEF vars, CoreInv, PendingInv, EffectInv, OfferedIsIneffective, ExecutionIsEffective
  <2>2. AttemptInv'
    BY <1>5 DEF vars, CoreInv, AttemptInv, OneActiveAttempt, DecomposingHasCurrentAttempt,
       CurrentAttempt, ProjectionMatchesAttempt, Active
  <2> QED
    BY <1>1, <2>1, <2>2 DEF CoreInv
<1> QED
  BY <1>2, <1>3, <1>4, <1>5 DEF Next

\* Whatever takes a task out of "decomposing" ends its attempt, and moves the version.
LEMMA StepIInv == IInv /\ [Next]_vars => IInv'
<1> SUFFICES ASSUME IInv, [Next]_vars PROVE ChangeInv' /\ NoAttemptOutlivesDecomposing'
  BY StepCore DEF IInv
<1>0. task \in Task /\ change \in Change /\ attempts \in Seq(Attempt)
  BY DEF IInv, CoreInv, TypeOK
<1> USE DEF IInv, CoreInv, NoAttemptOutlivesDecomposing, NoActiveAttempt
<1>1. CASE UserStep
  <2>1. ChangeInv' /\ (Quiet \/ Started \/ TakenAway \/ Lapsed)
    BY <1>1, UserStepKinds DEF EffectInv
  <2>2. CASE Quiet \/ Lapsed
    BY <2>1, <2>2 DEF Quiet, Lapsed, Active
  <2>3. CASE Started
    BY <1>0, <2>1, <2>3 DEF Started, StartAttempt, Commit, Task
  <2>4. CASE TakenAway
    <3>1. DOMAIN attempts' = DOMAIN attempts
      BY <1>0, <2>4, InvalidateTyped DEF TakenAway
    <3>2. \A a \in DOMAIN attempts : attempts[a] \in Attempt
      BY <1>0, LenProperties
    <3>3. \A a \in DOMAIN attempts : ~Active(a)'
      BY <2>4, <3>2 DEF TakenAway, InvalidateActive, Active, ActiveStatus, Attempt
    <3> QED
      BY <2>1, <3>1, <3>3
  <2> QED
    BY <2>1, <2>2, <2>3, <2>4
<1>2. CASE ExecuteStep
  <2>1. /\ task' = [ task EXCEPT !.decomposition = "running" ]
        /\ task.status = "decomposing"
        /\ UNCHANGED change
    BY <1>2 DEF ExecuteStep, Execute, CurrentAttempt
  <2> QED
    BY <1>0, <2>1 DEF ChangeInv, ChangeDecidedInExecution, PendingOnCurrentVersion, Task
<1>3. CASE CallStep \/ CrashStep
  <2> PICK c \in calls : Continue(c) \/ WorkerCrash(c)
    BY <1>3 DEF CallStep, CrashStep
  <2>1. CASE CompleteResult(c) \/ FailAttempt(c)
    <3>1. PICK outcome \in { "succeeded", "failed" } :
            CurrentAttempt(c.attempt) /\ Settle(c, outcome, SettledRow(outcome))
      BY <2>1 DEF CompleteResult, FailAttempt, SettledRow
    <3>2. \A b \in DOMAIN attempts' : ~Active(b)'
      BY <3>1, SettleEnds
    <3>3. ~change.pending /\ UNCHANGED change
      BY <2>1, <3>1 DEF CompleteResult, FailAttempt, CurrentAttempt, PendingInv, Executed,
         ExecutionStatus
    <3> QED
      BY <3>2, <3>3 DEF ChangeInv, ChangeDecidedInExecution, PendingOnCurrentVersion
  <2>2. CASE CallRaises(c) \/ FailRefused(c) \/ WorkerCrash(c)
    BY <2>2 DEF CallRaises, FailRefused, WorkerCrash, ChangeInv, ChangeDecidedInExecution,
       PendingOnCurrentVersion, Active
  <2> QED
    BY <2>1, <2>2 DEF Continue
<1>4. CASE UNCHANGED vars
  BY <1>4 DEF vars, ChangeInv, ChangeDecidedInExecution, PendingOnCurrentVersion, Active
<1> QED
  BY <1>1, <1>2, <1>3, <1>4 DEF Next

LEMMA Inductive == Spec => []IInv
  BY InitIInv, StepIInv, PTL DEF Spec

-----------------------------------------------------------------------------
(* Safety theorems *)

\* However handlers, retries and reassignments interleave, a task never has two
\* decomposition attempts in flight.
THEOREM OneAttemptInFlight == Spec => []OneActiveAttempt
  BY Inductive, PTL DEF IInv, CoreInv, AttemptInv

\* A decomposing task always has the attempt whose answer complete_result will take:
\* no handler moves the version, the assignee or the latest id under it.
THEOREM DecomposingIsServed == Spec => []DecomposingHasCurrentAttempt
  BY Inductive, PTL DEF IInv, CoreInv, AttemptInv

\* Every handler that takes a task out of "decomposing" ends its attempt, merge excepted.
THEOREM AttemptsAreEnded == Spec => []NoAttemptOutlivesDecomposing
  BY Inductive, PTL DEF IInv, CoreInv, AttemptInv

\* The decomposition status on the task row and the attempt's own status never diverge.
THEOREM ProjectionIsCurrent == Spec => []ProjectionMatchesAttempt
  BY Inductive, PTL DEF IInv, CoreInv, AttemptInv

\* A task in execution or under review is effective and rests on the delivered attempt
\* of its present assignee, whatever restores and reassignments came before.
THEOREM ExecutionRestsOnDelivery == Spec => []ExecutionIsEffective
  BY Inductive, PTL DEF IInv, CoreInv, EffectInv

\* A task on offer is not effective: a restored task that still is cannot be sent.
THEOREM OfferIsIneffective == Spec => []OfferedIsIneffective
  BY Inductive, PTL DEF IInv, CoreInv, EffectInv

\* accept_task, execute, retry and every handler that ends an attempt, taken together.
THEOREM DecompositionIsServed == Spec => []AttemptsAreServed
  BY Inductive, PTL DEF IInv, CoreInv, AttemptInv, AttemptsAreServed

\* effective_at is set by a delivery and cleared by every new offer.
THEOREM EffectRestsOnDelivery == Spec => []RestsOnDelivery
  BY Inductive, PTL DEF IInv, CoreInv, EffectInv, RestsOnDelivery

\* approve, reject and cancel of a change request test no status, and need not.
THEOREM ChangeIsDecidedInExecution == Spec => []ChangeDecidedInExecution
  BY Inductive, PTL DEF IInv, ChangeInv

-----------------------------------------------------------------------------
(* Late answers *)

LEMMA SettledStep ==
  ASSUME CoreInv, [Next]_vars, NEW a \in DOMAIN attempts, ~Active(a)
  PROVE  attempts'[a] = attempts[a]
<1> USE DEF CoreInv
<1>1. attempts \in Seq(Attempt)
  BY DEF TypeOK
<1>2. CASE UserStep
  <2>1. Quiet \/ Started \/ TakenAway \/ Lapsed
    BY <1>2, UserStepKinds DEF EffectInv
  <2>2. CASE Started
    <3>1. [ status |-> "pending", version |-> task.version + 1, by |-> task.assignee ]
            \in Attempt
      BY <2>2 DEF Started, Assigned, TypeOK, Task, Attempt
    <3>2. \E r \in Attempt : attempts' = Append(attempts, r)
      BY <2>2, <3>1 DEF Started, StartAttempt
    <3> QED
      BY <1>1, <3>2, LenProperties, AppendProperties
  <2> QED
    BY <2>1, <2>2 DEF Quiet, TakenAway, Lapsed, InvalidateActive
<1>3. CASE ExecuteStep
  <2> PICK b \in DOMAIN attempts, u \in Assignees : Execute(b, u)
    BY <1>3 DEF ExecuteStep
  <2>1. a # b
    BY DEF Execute, Active, ActiveStatus
  <2> QED
    BY <2>1 DEF Execute
<1>4. CASE CallStep \/ CrashStep
  <2> PICK c \in calls : Continue(c) \/ WorkerCrash(c)
    BY <1>4 DEF CallStep, CrashStep
  <2>1. CASE CompleteResult(c) \/ FailAttempt(c)
    <3>1. CurrentAttempt(c.attempt) /\ \E outcome \in { "succeeded", "failed" } :
            Settle(c, outcome, SettledRow(outcome))
      BY <2>1 DEF CompleteResult, FailAttempt, SettledRow
    <3> QED
      BY <3>1, SettleEnds
  <2> QED
    BY <2>1 DEF Continue, CallRaises, FailRefused, WorkerCrash
<1> QED
  BY <1>2, <1>3, <1>4 DEF Next, vars

\* Once an attempt succeeded, failed or was invalidated, nothing changes it: a late
\* answer, a second answer and the answer of a withdrawn task write nothing.
THEOREM LateAnswersChangeNothing == Spec => SettledAttemptStays
<1>1. IInv /\ [Next]_vars =>
        [ \A a \in DOMAIN attempts : ~Active(a) => attempts'[a] = attempts[a] ]_vars
  BY SettledStep DEF IInv
<1> QED
  BY <1>1, Inductive, PTL DEF Spec, SettledAttemptStays

-----------------------------------------------------------------------------
(* Refinement *)

LEMMA ActivationStep ==
  ASSUME CoreInv, CoreInv', [Next]_vars
  PROVE  [Activation!Next]_(Activation!contractVars)
<1> USE DEF Activation!Next, Activation!contractVars
<1>0. /\ attempts \in Seq(Attempt)
      /\ Len(attempts) \in Nat
      /\ DOMAIN attempts = 1..Len(attempts)
      /\ task \in Task
  BY LenProperties DEF CoreInv, TypeOK
<1>1. CASE UserStep
  <2>1. Quiet \/ Started \/ TakenAway \/ Lapsed
    BY <1>1, UserStepKinds DEF CoreInv, EffectInv
  <2>2. CASE Quiet
    <3>1. CASE task.status = "decomposing"
      <4>1. task.effective = FALSE /\ task.latest # 0
        BY <1>0, <3>1 DEF CoreInv, AttemptInv, EffectInv, OfferedIsIneffective, OfferedStatus,
           DecomposingHasCurrentAttempt, Task
      <4> QED
        BY <2>2, <3>1, <4>1 DEF Quiet, Activation!Revoke
    <3>2. CASE task.status # "decomposing"
      BY <2>2, <3>2 DEF Quiet
    <3> QED
      BY <3>1, <3>2
  <2>3. CASE Started
    <3> DEFINE new == [ status |-> "pending", version |-> task.version + 1,
                        by |-> task.assignee ]
    <3>1. attempts' = Append(attempts, new) /\ new \in Attempt
      BY <1>0, <2>3 DEF Started, StartAttempt, Assigned, Task, Attempt
    <3>2. /\ Len(attempts') = Len(attempts) + 1
          /\ DOMAIN attempts' = 1..(Len(attempts) + 1)
          /\ attempts'[Len(attempts) + 1].status = "pending"
          /\ \A a \in 1..Len(attempts) : attempts'[a] = attempts[a]
      <4>1. attempts' \in Seq(Attempt)
        BY <1>0, <3>1, AppendProperties
      <4>2. DOMAIN attempts' = 1..Len(attempts')
        BY <4>1, LenProperties
      <4> QED
        BY <1>0, <3>1, <4>2, AppendProperties
    <3>3. { a \in DOMAIN attempts' : attempts'[a].status = "succeeded" }
            = { a \in DOMAIN attempts : attempts[a].status = "succeeded" }
      BY <1>0, <3>2
    <3>4. /\ task'.status = "decomposing"
          /\ task'.latest = Len(attempts) + 1
          /\ task'.effective = FALSE
      BY <1>0, <2>3 DEF Started, StartAttempt, Commit, Task
    <3> QED
      BY <2>3, <3>2, <3>3, <3>4 DEF Started, Activation!Grant
  <2>4. CASE TakenAway
    <3>1. DOMAIN attempts' = DOMAIN attempts /\ Len(attempts') = Len(attempts)
      BY <1>0, <2>4, InvalidateTyped DEF TakenAway
    <3>2. \A a \in DOMAIN attempts :
            attempts'[a].status = "succeeded" <=> attempts[a].status = "succeeded"
      <4>1. \A a \in DOMAIN attempts : attempts[a] \in Attempt
        BY <1>0, LenProperties
      <4> QED
        BY <2>4, <4>1 DEF TakenAway, InvalidateActive, Active, ActiveStatus, Attempt
    <3>3. task.latest # 0
      BY <1>0, <2>4 DEF TakenAway, CoreInv, AttemptInv, DecomposingHasCurrentAttempt
    <3>4. { a \in DOMAIN attempts' : attempts'[a].status = "succeeded" }
            = { a \in DOMAIN attempts : attempts[a].status = "succeeded" }
      BY <3>1, <3>2
    <3> QED
      BY <2>4, <3>1, <3>3, <3>4 DEF TakenAway, Activation!Revoke
  <2>5. CASE Lapsed
    BY <2>5 DEF Lapsed, Activation!Lapse
  <2> QED
    BY <2>1, <2>2, <2>3, <2>4, <2>5
<1>2. CASE ExecuteStep
  <2> PICK b \in DOMAIN attempts, u \in Assignees : Execute(b, u)
    BY <1>2 DEF ExecuteStep
  <2>1. /\ DOMAIN attempts' = DOMAIN attempts
        /\ Len(attempts') = Len(attempts)
    BY <1>0, SetStatusTyped DEF Execute
  <2>2. \A a \in DOMAIN attempts :
          attempts'[a].status = "succeeded" <=> attempts[a].status = "succeeded"
    <3>1. attempts[b] \in Attempt
      BY <1>0, LenProperties
    <3> QED
      BY <3>1 DEF Execute, Attempt
  <2>3. { a \in DOMAIN attempts' : attempts'[a].status = "succeeded" }
          = { a \in DOMAIN attempts : attempts[a].status = "succeeded" }
    BY <2>1, <2>2
  <2>4. /\ task'.status = task.status
        /\ task'.latest = task.latest
        /\ task'.effective = task.effective
    BY <1>0 DEF Execute, Task
  <2> QED
    BY <2>1, <2>3, <2>4
<1>3. CASE CallStep \/ CrashStep
  <2> PICK c \in calls : Continue(c) \/ WorkerCrash(c)
    BY <1>3 DEF CallStep, CrashStep
  <2>1. CASE CompleteResult(c) \/ FailAttempt(c)
    <3>1. PICK outcome \in { "succeeded", "failed" } :
            CurrentAttempt(c.attempt) /\ Settle(c, outcome, SettledRow(outcome))
      BY <2>1 DEF CompleteResult, FailAttempt, SettledRow
    <3>2. /\ c.attempt \in DOMAIN attempts
          /\ Active(c.attempt)
          /\ DOMAIN attempts' = DOMAIN attempts
          /\ Len(attempts') = Len(attempts)
          /\ attempts'[c.attempt].status = outcome
          /\ \A b \in DOMAIN attempts : b # c.attempt => attempts'[b] = attempts[b]
      BY <3>1, SettleEnds
    <3>3. /\ task.status = "decomposing" /\ task.latest = c.attempt /\ c.attempt # 0
          /\ attempts[c.attempt].status # "succeeded"
      BY <1>0, <3>1, <3>2 DEF CurrentAttempt, Active, ActiveStatus
    <3>4. /\ task'.status # "decomposing"
          /\ task'.effective = (outcome = "succeeded")
      BY <1>0, <3>1 DEF Settle, SettledRow, Task
    <3>5. CASE outcome = "succeeded"
      <4>1. { a \in DOMAIN attempts' : attempts'[a].status = "succeeded" }
              = { a \in DOMAIN attempts : attempts[a].status = "succeeded" } \cup { c.attempt }
        BY <3>2, <3>5
      <4> QED
        BY <3>2, <3>3, <3>4, <3>5, <4>1 DEF Activation!Deliver
    <3>6. CASE outcome = "failed"
      <4>1. { a \in DOMAIN attempts' : attempts'[a].status = "succeeded" }
              = { a \in DOMAIN attempts : attempts[a].status = "succeeded" }
        BY <3>2, <3>3, <3>6
      <4> QED
        BY <3>2, <3>3, <3>4, <3>6, <4>1 DEF Activation!Revoke
    <3> QED
      BY <3>5, <3>6
  <2>2. CASE CallRaises(c) \/ FailRefused(c) \/ WorkerCrash(c)
    BY <2>2 DEF CallRaises, FailRefused, WorkerCrash
  <2> QED
    BY <2>1, <2>2 DEF Continue
<1>4. CASE UNCHANGED vars
  BY <1>4 DEF vars
<1> QED
  BY <1>1, <1>2, <1>3, <1>4 DEF Next

LEMMA InitActivation == Init => Activation!Init
<1> SUFFICES ASSUME Init PROVE Activation!Init
  OBVIOUS
<1>1. task.status = "draft" /\ task.effective = FALSE
  BY DEF Init
<1>2. Len(attempts) = 0 /\ DOMAIN attempts = {}
  BY EmptySeq DEF Init
<1> QED
  BY <1>1, <1>2 DEF Activation!Init

\* The handlers and the decomposition calls together keep the activation contract: each
\* of their steps is a step of the contract or invisible to it.
THEOREM KeepsActivationContract == Spec => ImplementsActivation
<1>1. IInv /\ IInv' /\ [Next]_vars => [Activation!Next]_(Activation!contractVars)
  BY ActivationStep DEF IInv
<1> QED
  BY InitActivation, <1>1, Inductive, PTL DEF Spec, ImplementsActivation, Activation!Spec

-----------------------------------------------------------------------------
(* Review *)

Judged == { "submitted", "approved" }

\* Where nodes and issues may still change, or a new offer may be made.
OpenToWork == OfferedStatus \cup ExecutionStatus

\* A round that waits or was approved, and an archive row, stand on finished work in a
\* status that nothing leads back to work from, not even a restore.
RoundInv ==
  review.status \in Judged \/ archive => plan = "done" /\ task.status \notin OpenToWork

ReviewInv == RoundInv /\ ReviewIsDecidable /\ CompletionWasApproved

\* Handlers that write the task alone, and leave it where no review is looked at.
Aside ==
  /\ UNCHANGED << review, plan, issues, archive >>
  /\ task'.status \notin { "pending_review", "completed", "archived" }
  /\ task'.status \in OpenToWork => task.status \in OpenToWork \/ plan # "done"

LEMMA AsideKeeps ==
  ASSUME ReviewInv, Aside
  PROVE  ReviewInv'
BY DEF ReviewInv, RoundInv, ReviewIsDecidable, CompletionWasApproved, SubmittedReview, Aside

\* Handlers that work on the nodes and issues of an executed task.
Work ==
  /\ task.status \in ExecutionStatus
  /\ task'.status \in ExecutionStatus
  /\ UNCHANGED archive
  /\ review' = review \/ review'.status \notin Judged

LEMMA WorkKeeps ==
  ASSUME ReviewInv, Work
  PROVE  ReviewInv'
BY DEF ReviewInv, RoundInv, ReviewIsDecidable, CompletionWasApproved, SubmittedReview, Work,
       ExecutionStatus, OpenToWork

LEMMA LifecycleReview ==
  ASSUME IInv, ReviewInv, NEW from, NEW to, LifecycleTransition(from, to),
         \/ to \in { "cancelled", "withdrawn", "closed" }
         \/ from = { "completed" } /\ to = "archived"
  PROVE  ReviewInv'
<1>1. task \in Task
  BY DEF IInv, CoreInv, TypeOK
<1>2. /\ task'.status = to
      /\ UNCHANGED << review, plan, issues, archive >>
      /\ task.status \in from
  BY <1>1 DEF LifecycleTransition, Commit, Task, MayLeave
<1>3. CASE to \in { "cancelled", "withdrawn", "closed" }
  BY <1>2, <1>3, AsideKeeps DEF Aside, OpenToWork, OfferedStatus, ExecutionStatus
<1>4. CASE from = { "completed" } /\ to = "archived"
  BY <1>2, <1>4 DEF ReviewInv, RoundInv, ReviewIsDecidable, CompletionWasApproved, OpenToWork,
     OfferedStatus, ExecutionStatus
<1> QED
  BY <1>3, <1>4

LEMMA UserStepReview ==
  ASSUME IInv, ReviewInv, UserStep
  PROVE  ReviewInv'
<1>0. task \in Task /\ ChangeDecidedInExecution /\ review \in Review
  BY DEF IInv, CoreInv, TypeOK, ChangeInv
<1> USE <1>0, AsideKeeps, WorkKeeps DEF Aside, Work, Task, Commit, OpenToWork, OfferedStatus,
                                        ExecutionStatus
<1>1. CASE \E a \in Assignees \cup {Nobody}, r \in BOOLEAN : UpdateDraft(a, r)
  BY <1>1 DEF UpdateDraft, EditableStatus
<1>2. CASE SubmitForConfirmation
  BY <1>2 DEF SubmitForConfirmation
<1>3. CASE ConfirmAndSend
  BY <1>3 DEF ConfirmAndSend, SendReady
<1>4. CASE ReturnTask
  BY <1>4 DEF ReturnTask, MayReturn
<1>5. CASE ResendTask
  BY <1>5 DEF ResendTask, MayResend
<1>6. CASE AcceptTask
  BY <1>6 DEF AcceptTask, StartAttempt, MayAccept
<1>7. CASE RetryDecomposition
  BY <1>7 DEF RetryDecomposition, StartAttempt
<1>8. CASE CreateChange
  BY <1>8 DEF CreateChange, MayRequestChange
<1>9. CASE \E p \in { "none", "open", "done" }, r \in BOOLEAN : ApproveChange(p, r)
  BY <1>9 DEF ApproveChange, ChangeDecidedInExecution
<1>10. CASE DropChange
  BY <1>10 DEF DropChange, ChangeDecidedInExecution
<1>11. CASE \E p \in { "open", "done" } : NodeWrite(p)
  BY <1>11 DEF NodeWrite
<1>12. CASE AnswerAssignment
  BY <1>12 DEF AnswerAssignment
<1>13. CASE ReopenNode
  BY <1>13 DEF ReopenNode, Review, Judged
<1>14. CASE ConfirmTaskPlan
  BY <1>14 DEF ConfirmTaskPlan
<1>15. CASE \E p \in Periods \cup {NoPeriod}, hasIssue \in BOOLEAN : ReportProgress(p, hasIssue)
  BY <1>15 DEF ReportProgress, MayReport
<1>16. CASE \E isBlocker \in BOOLEAN : CreateIssue(isBlocker)
  BY <1>16 DEF CreateIssue, MayRaiseIssue
<1>17. CASE \E after \in { "none", "unclosed", "blocker" }, settles \in BOOLEAN :
             TransitionIssue(after, settles)
  BY <1>17 DEF TransitionIssue
<1>18. CASE SubmitCompletion
  <2>1. ~archive
    BY <1>18 DEF SubmitCompletion, ReviewInv, RoundInv, MaySubmit
  <2> QED
    BY <1>18, <2>1 DEF SubmitCompletion, ReviewInv, RoundInv, ReviewIsDecidable,
       CompletionWasApproved, SubmittedReview, MaySubmit
<1>19. CASE ApproveCompletion
  BY <1>19 DEF ApproveCompletion, Review, ReviewInv, RoundInv, ReviewIsDecidable,
     CompletionWasApproved, MayApprove
<1>20. CASE \E rework \in { "none", "wanted" } : RejectCompletion(rework)
  <2> PICK rework \in { "none", "wanted" } : RejectCompletion(rework)
    BY <1>20
  <2>1. review'.status = "rejected" /\ task'.status = "in_progress" /\ ~archive'
    BY DEF RejectCompletion, Review, ReviewInv, ReviewIsDecidable, MayReject
  <2> QED
    BY <2>1 DEF ReviewInv, RoundInv, ReviewIsDecidable, CompletionWasApproved, Judged
<1>21. CASE CancelTask
  BY <1>21, LifecycleReview DEF CancelTask
<1>22. CASE WithdrawTask
  BY <1>22, LifecycleReview DEF WithdrawTask
<1>23. CASE CloseTask
  BY <1>23, LifecycleReview DEF CloseTask
<1>24. CASE ArchiveTask
  BY <1>24, LifecycleReview DEF ArchiveTask
<1>25. CASE \E a \in Assignees : ReassignTask(a)
  BY <1>25 DEF ReassignTask, ReassignableFrom, MayReassign
<1>26. CASE RestoreTask
  <2>1. CASE task.status = "archived"
    BY <1>26, <2>1 DEF RestoreTask, RestoreTo, ReviewInv, RoundInv, ReviewIsDecidable,
       CompletionWasApproved
  <2>2. CASE task.status # "archived"
    BY <1>26, <2>2 DEF RestoreTask, RestoreTo, MayRestore
  <2> QED
    BY <2>1, <2>2
<1>27. CASE MergeTask
  BY <1>27 DEF MergeTask
<1> QED
  BY <1>1, <1>2, <1>3, <1>4, <1>5, <1>6, <1>7, <1>8, <1>9, <1>10, <1>11, <1>12, <1>13,
     <1>14, <1>15, <1>16, <1>17, <1>18, <1>19, <1>20, <1>21, <1>22, <1>23, <1>24, <1>25,
     <1>26, <1>27 DEF UserStep

LEMMA StepReview == IInv /\ ReviewInv /\ [Next]_vars => ReviewInv'
<1> SUFFICES ASSUME IInv, ReviewInv, [Next]_vars PROVE ReviewInv'
  OBVIOUS
<1>0. task \in Task
  BY DEF IInv, CoreInv, TypeOK
<1> USE DEF Task, OpenToWork, OfferedStatus, ExecutionStatus
<1>1. CASE UserStep
  BY <1>1, UserStepReview
<1>2. CASE ExecuteStep
  BY <1>0, <1>2, AsideKeeps DEF ExecuteStep, Execute, CurrentAttempt, Aside
<1>3. CASE CallStep \/ CrashStep
  <2> PICK c \in calls : Continue(c) \/ WorkerCrash(c)
    BY <1>3 DEF CallStep, CrashStep
  <2>1. CASE CompleteResult(c)
    <3>1. review.status \notin Judged /\ ~archive
      BY <2>1 DEF CompleteResult, CurrentAttempt, ReviewInv, RoundInv
    <3>2. task'.status = "in_progress" /\ UNCHANGED << review, archive >>
      BY <1>0, <2>1 DEF CompleteResult, Settle
    <3> QED
      BY <3>1, <3>2 DEF ReviewInv, RoundInv, ReviewIsDecidable, CompletionWasApproved
  <2>2. CASE FailAttempt(c)
    BY <1>0, <2>2, AsideKeeps DEF FailAttempt, CurrentAttempt, Settle, Aside
  <2>3. CASE CallRaises(c) \/ FailRefused(c) \/ WorkerCrash(c)
    BY <2>3 DEF CallRaises, FailRefused, WorkerCrash, ReviewInv, RoundInv, ReviewIsDecidable,
       CompletionWasApproved, SubmittedReview
  <2> QED
    BY <2>1, <2>2, <2>3 DEF Continue
<1>4. CASE UNCHANGED vars
  BY <1>4 DEF vars, ReviewInv, RoundInv, ReviewIsDecidable, CompletionWasApproved,
     SubmittedReview
<1> QED
  BY <1>1, <1>2, <1>3, <1>4 DEF Next

LEMMA ReviewInductive == Spec => []ReviewInv
<1>1. Init => ReviewInv
  <2> SUFFICES ASSUME Init PROVE ReviewInv
    OBVIOUS
  <2>1. task.status = "draft" /\ review.status = "none" /\ archive = FALSE
    BY DEF Init
  <2> QED
    BY <2>1 DEF ReviewInv, RoundInv, ReviewIsDecidable, CompletionWasApproved, Judged
<1> QED
  BY <1>1, Inductive, StepReview, PTL DEF Spec

LEMMA InvariantIsSound == ReviewInv => ReviewIsSound
BY DEF ReviewInv, RoundInv, ReviewIsSound, NoSubmittedRoundInExecution, Judged, OpenToWork

\* submit, approve and reject of a completion with everything that may come between:
\* a review asked for can be decided, no submitted round is left when work goes on, and
\* only an approval completes a task, restores and closures included.
THEOREM ReviewCanBeDecided == Spec => []ReviewIsSound
BY ReviewInductive, InvariantIsSound, PTL

-----------------------------------------------------------------------------
(* The menu *)

\* The statuses in which somebody holds the task or is asked to.
HeldStatus ==
  ExecutionStatus \cup { "pending_acceptance", "decomposing", "decomposition_failed",
                         "pending_review" }

\* An assignee can be cleared only where none is needed, and is asked for on every way back.
AssigneeInv == task.status \in HeldStatus => Assigned

\* The step leaves the task on no hands, in the hands it was in, or gives it to somebody.
Handed ==
  \/ task'.status \notin HeldStatus
  \/ task'.assignee = task.assignee /\ (Assigned \/ task.status \in HeldStatus)
  \/ task'.assignee \in Assignees

LEMMA HandedKeeps ==
  ASSUME AssigneeInv, Handed
  PROVE  AssigneeInv'
BY NobodyIsNoAssignee DEF AssigneeInv, Handed, Assigned

LEMMA UserStepHanded ==
  ASSUME TypeOK, ChangeDecidedInExecution, UserStep
  PROVE  Handed
<1>0. task \in Task
  BY DEF TypeOK
<1> USE <1>0 DEF Handed, HeldStatus, ExecutionStatus, Task, Commit
<1>1. CASE \E a \in Assignees \cup {Nobody}, r \in BOOLEAN : UpdateDraft(a, r)
  BY <1>1 DEF UpdateDraft, EditableStatus
<1>2. CASE SubmitForConfirmation \/ ConfirmAndSend
  BY <1>2 DEF SubmitForConfirmation, ConfirmAndSend, SendReady
<1>3. CASE ReturnTask \/ ResendTask
  BY <1>3 DEF ReturnTask, ResendTask, MayResend
<1>4. CASE AcceptTask \/ RetryDecomposition
  BY <1>4 DEF AcceptTask, RetryDecomposition, StartAttempt, MayAccept
<1>5. CASE CreateChange \/ DropChange
  BY <1>5 DEF CreateChange, DropChange, ChangeDecidedInExecution, MayRequestChange
<1>6. CASE \E p \in { "none", "open", "done" }, r \in BOOLEAN : ApproveChange(p, r)
  BY <1>6 DEF ApproveChange, ChangeDecidedInExecution
<1>7. CASE \E p \in { "open", "done" } : NodeWrite(p)
  BY <1>7 DEF NodeWrite
<1>8. CASE AnswerAssignment \/ ReopenNode \/ ConfirmTaskPlan
  BY <1>8 DEF AnswerAssignment, ReopenNode, ConfirmTaskPlan
<1>9. CASE \E p \in Periods \cup {NoPeriod}, hasIssue \in BOOLEAN : ReportProgress(p, hasIssue)
  BY <1>9 DEF ReportProgress, MayReport
<1>10. CASE \E isBlocker \in BOOLEAN : CreateIssue(isBlocker)
  BY <1>10 DEF CreateIssue, MayRaiseIssue
<1>11. CASE \E after \in { "none", "unclosed", "blocker" }, settles \in BOOLEAN :
              TransitionIssue(after, settles)
  BY <1>11 DEF TransitionIssue
<1>12. CASE SubmitCompletion \/ ApproveCompletion
  BY <1>12 DEF SubmitCompletion, ApproveCompletion, MaySubmit
<1>13. CASE \E rework \in { "none", "wanted" } : RejectCompletion(rework)
  BY <1>13 DEF RejectCompletion, MayReject
<1>14. CASE CancelTask \/ WithdrawTask \/ CloseTask \/ ArchiveTask
  BY <1>14 DEF CancelTask, WithdrawTask, CloseTask, ArchiveTask, LifecycleTransition
<1>15. CASE \E a \in Assignees : ReassignTask(a)
  BY <1>15 DEF ReassignTask
<1>16. CASE RestoreTask \/ MergeTask
  BY <1>16 DEF RestoreTask, RestoreTo, MayRestore, MergeTask
<1> QED
  BY <1>1, <1>2, <1>3, <1>4, <1>5, <1>6, <1>7, <1>8, <1>9, <1>10, <1>11, <1>12, <1>13,
     <1>14, <1>15, <1>16 DEF UserStep

LEMMA StepAssignee == IInv /\ AssigneeInv /\ [Next]_vars => AssigneeInv'
<1> SUFFICES ASSUME IInv, AssigneeInv, [Next]_vars PROVE AssigneeInv'
  OBVIOUS
<1>0. TypeOK /\ task \in Task /\ ChangeDecidedInExecution
  BY DEF IInv, CoreInv, ChangeInv, TypeOK
<1>1. CASE UserStep
  BY <1>0, <1>1, UserStepHanded, HandedKeeps
<1>2. CASE ExecuteStep
  BY <1>0, <1>2 DEF ExecuteStep, Execute, AssigneeInv, Assigned, Task
<1>3. CASE CallStep \/ CrashStep
  <2> PICK c \in calls : Continue(c) \/ WorkerCrash(c)
    BY <1>3 DEF CallStep, CrashStep
  <2>1. CASE CompleteResult(c) \/ FailAttempt(c)
    <3>1. task.status = "decomposing" /\ task'.assignee = task.assignee
      BY <1>0, <2>1 DEF CompleteResult, FailAttempt, CurrentAttempt, Settle, Task
    <3> QED
      BY <3>1, HandedKeeps DEF Handed, HeldStatus
  <2>2. CASE CallRaises(c) \/ FailRefused(c) \/ WorkerCrash(c)
    BY <2>2 DEF CallRaises, FailRefused, WorkerCrash, AssigneeInv, Assigned
  <2> QED
    BY <2>1, <2>2 DEF Continue
<1>4. CASE UNCHANGED vars
  BY <1>4 DEF vars, AssigneeInv, Assigned
<1> QED
  BY <1>1, <1>2, <1>3, <1>4 DEF Next

LEMMA AssigneeInductive == Spec => []AssigneeInv
<1>1. Init => AssigneeInv
  BY DEF Init, AssigneeInv, HeldStatus, ExecutionStatus
<1> QED
  BY <1>1, Inductive, StepAssignee, PTL DEF Spec

\* What sending, execution and the review offer.
LEMMA WorkOffersAccepted ==
  ASSUME IInv, AssigneeInv, ReviewIsSound, NEW role,
         NEW a \in SendingActions(role) \cup ExecutionActions(role)
                     \cup CompletionReviewActions(role),
         ~Premature(a)
  PROVE  Accepted(a)
<1> USE DEF Accepted, ChangeVerdicts
<1>1. CASE a \in SendingActions(role)
  <2>1. task.status = "pending_acceptance" => NoActiveAttempt /\ Assigned
    BY DEF IInv, CoreInv, AttemptInv, NoAttemptOutlivesDecomposing, AssigneeInv, HeldStatus
  <2> QED
    BY <1>1, <2>1 DEF SendingActions, Premature, MayResend, MayAccept, MayReturn
<1>2. CASE a \in ExecutionActions(role)
  <2>1. task.status \in ExecutionStatus /\ review.status # "submitted"
    BY <1>2 DEF ExecutionActions, ReviewIsSound, NoSubmittedRoundInExecution
  <2> QED
    BY <1>2, <2>1 DEF ExecutionActions, AwaitsRework, MayReport, MayRaiseIssue, MaySubmit
<1>3. CASE a \in CompletionReviewActions(role)
  <2>1. task.status = "pending_review" /\ ReviewIsDecidable
    BY <1>3 DEF CompletionReviewActions, ReviewIsSound
  <2> QED
    BY <1>3, <2>1 DEF CompletionReviewActions, ReviewIsDecidable, MayApprove, MayReject
<1> QED
  BY <1>1, <1>2, <1>3

\* What the change request and the lifecycle offer, the verdicts excepted.
LEMMA LifecycleOffersAccepted ==
  ASSUME AssigneeInv, NEW role, NEW a \in ChangeActions(role) \cup LifecycleActions(role),
         a \notin ChangeVerdicts, ~Premature(a)
  PROVE  Accepted(a)
<1> USE DEF Accepted, ChangeVerdicts, OfferedStatus, ExecutionStatus
<1>1. CASE a \in ChangeActions(role)
  BY <1>1 DEF ChangeActions, MayRequestChange
<1>2. CASE a = "cancel_task" /\ task.status \in MenuCancellable
  BY <1>2 DEF MenuCancellable, MayLeave, CancellableFrom
<1>3. CASE a = "withdraw_task" /\ task.status \in MenuMovable
  BY <1>3 DEF MenuMovable, MayLeave, WithdrawableFrom
<1>4. CASE a = "reassign_task" /\ task.status \in MenuMovable
  <2>1. Assigned
    BY <1>4 DEF MenuMovable, AssigneeInv, HeldStatus, Premature
  <2> QED
    BY <1>4, <2>1 DEF MenuMovable, MayReassign, ReassignableFrom
<1>5. CASE a = "close_task" /\ MenuClosable
  BY <1>5 DEF MenuClosable, NoOpenIssues, MayLeave, ClosableFrom
<1>6. CASE a = "archive_task" /\ task.status = "completed"
  BY <1>6 DEF MayLeave
<1>7. CASE a = "restore_task"
             /\ task.status \in { "cancelled", "closed", "withdrawn", "archived" }
  BY <1>7 DEF MayRestore, RestoreTo
<1>8. CASE a = "merge_task"
             /\ task.status \notin { "archived", "cancelled", "withdrawn", "merged" }
  BY <1>8 DEF MayMerge, UnmergeableStatus
<1> QED
  BY <1>1, <1>2, <1>3, <1>4, <1>5, <1>6, <1>7, <1>8 DEF LifecycleActions

\* What available-actions offers, the handlers accept: no history of assignees, reviews,
\* attempts, issues and restores brings the menu's own conditions apart from the handlers',
\* but for a draft that lacks something and a period that already has its report.
THEOREM MenuIsHonest == Spec => []OfferIsAccepted
<1>1. IInv /\ ReviewInv /\ AssigneeInv => OfferIsAccepted
  BY InvariantIsSound, WorkOffersAccepted, LifecycleOffersAccepted DEF OfferIsAccepted,
     AllowedActions
<1> QED
  BY <1>1, Inductive, ReviewInductive, AssigneeInductive, PTL

-----------------------------------------------------------------------------
(* Versions and the log *)

\* The step leaves all that a client decides upon, or advances the version, and then it
\* logs the status if it moved.
Visible ==
  \/ UNCHANGED << task, plan, issues, review >>
  \/ /\ task'.version # task.version
     /\ task'.status # task.status => log' = [ to |-> task'.status, version |-> task'.version ]

LEMMA LifecycleVisible ==
  ASSUME TypeOK, NEW from, NEW to, LifecycleTransition(from, to)
  PROVE  Visible
<1>1. task \in Task
  BY DEF TypeOK
<1>2. CASE task.status = "decomposing"
  <2>1. Commit([ task EXCEPT !.status = to, !.effective = FALSE, !.decomposition = "invalidated" ])
    BY <1>2 DEF LifecycleTransition
  <2> QED
    BY <1>1, <2>1 DEF Commit, Visible, Task
<1>3. CASE task.status # "decomposing"
  <2>1. Commit([ task EXCEPT !.status = to ])
    BY <1>3 DEF LifecycleTransition
  <2> QED
    BY <1>1, <2>1 DEF Commit, Visible, Task
<1> QED
  BY <1>2, <1>3

LEMMA UserStepVisible ==
  ASSUME TypeOK, UserStep
  PROVE  Visible
<1>0. task \in Task
  BY DEF TypeOK
<1> USE <1>0 DEF Visible, Task, Commit
<1>1. CASE \E a \in Assignees \cup {Nobody}, r \in BOOLEAN : UpdateDraft(a, r)
  BY <1>1 DEF UpdateDraft
<1>2. CASE SubmitForConfirmation
  BY <1>2 DEF SubmitForConfirmation
<1>3. CASE ConfirmAndSend
  BY <1>3 DEF ConfirmAndSend
<1>4. CASE ReturnTask
  BY <1>4 DEF ReturnTask
<1>5. CASE ResendTask
  BY <1>5 DEF ResendTask
<1>6. CASE AcceptTask
  BY <1>6 DEF AcceptTask, StartAttempt
<1>7. CASE RetryDecomposition
  BY <1>7 DEF RetryDecomposition, StartAttempt
<1>8. CASE CreateChange
  BY <1>8 DEF CreateChange
<1>9. CASE \E p \in { "none", "open", "done" }, r \in BOOLEAN : ApproveChange(p, r)
  BY <1>9 DEF ApproveChange
<1>10. CASE DropChange
  BY <1>10 DEF DropChange
<1>11. CASE \E p \in { "open", "done" } : NodeWrite(p)
  BY <1>11 DEF NodeWrite
<1>12. CASE AnswerAssignment
  BY <1>12 DEF AnswerAssignment
<1>13. CASE ReopenNode
  BY <1>13 DEF ReopenNode
<1>14. CASE ConfirmTaskPlan
  BY <1>14 DEF ConfirmTaskPlan
<1>15. CASE \E p \in Periods \cup {NoPeriod}, hasIssue \in BOOLEAN : ReportProgress(p, hasIssue)
  BY <1>15 DEF ReportProgress
<1>16. CASE \E isBlocker \in BOOLEAN : CreateIssue(isBlocker)
  BY <1>16 DEF CreateIssue
<1>17. CASE \E after \in { "none", "unclosed", "blocker" }, settles \in BOOLEAN :
             TransitionIssue(after, settles)
  BY <1>17 DEF TransitionIssue
<1>18. CASE SubmitCompletion
  BY <1>18 DEF SubmitCompletion
<1>19. CASE ApproveCompletion
  BY <1>19 DEF ApproveCompletion
<1>20. CASE \E rework \in { "none", "wanted" } : RejectCompletion(rework)
  BY <1>20 DEF RejectCompletion
<1>21. CASE CancelTask
  BY <1>21, LifecycleVisible DEF CancelTask
<1>22. CASE WithdrawTask
  BY <1>22, LifecycleVisible DEF WithdrawTask
<1>23. CASE CloseTask
  BY <1>23, LifecycleVisible DEF CloseTask
<1>24. CASE ArchiveTask
  BY <1>24, LifecycleVisible DEF ArchiveTask
<1>25. CASE \E a \in Assignees : ReassignTask(a)
  BY <1>25 DEF ReassignTask
<1>26. CASE RestoreTask
  BY <1>26 DEF RestoreTask
<1>27. CASE MergeTask
  BY <1>27 DEF MergeTask
<1> QED
  BY <1>1, <1>2, <1>3, <1>4, <1>5, <1>6, <1>7, <1>8, <1>9, <1>10, <1>11, <1>12, <1>13,
     <1>14, <1>15, <1>16, <1>17, <1>18, <1>19, <1>20, <1>21, <1>22, <1>23, <1>24, <1>25,
     <1>26, <1>27 DEF UserStep

\* Only execute's first transaction writes the row without a version, and what it writes
\* nobody decides upon.
LEMMA StepVisible ==
  ASSUME IInv, [Next]_vars
  PROVE  Visible \/ ( /\ UNCHANGED << plan, issues, review >>
                      /\ task' = [ task EXCEPT !.decomposition = "running" ] )
<1>0. task \in Task
  BY DEF IInv, CoreInv, TypeOK
<1>1. CASE UserStep
  BY <1>1, UserStepVisible DEF IInv, CoreInv
<1>2. CASE ExecuteStep
  BY <1>2 DEF ExecuteStep, Execute
<1>3. CASE CallStep \/ CrashStep
  <2> PICK c \in calls : Continue(c) \/ WorkerCrash(c)
    BY <1>3 DEF CallStep, CrashStep
  <2>1. CASE CompleteResult(c) \/ FailAttempt(c)
    <3>1. PICK outcome \in { "succeeded", "failed" } : Settle(c, outcome, SettledRow(outcome))
      BY <2>1 DEF CompleteResult, FailAttempt, SettledRow
    <3>2. /\ SettledRow(outcome).version = task.version
          /\ task'.version = task.version + 1
          /\ task'.status = SettledRow(outcome).status
      BY <1>0, <3>1 DEF Settle, SettledRow, Task
    <3>3. log' = [ to |-> task'.status, version |-> task'.version ]
      BY <3>1, <3>2 DEF Settle
    <3> QED
      BY <1>0, <3>2, <3>3 DEF Visible, Task
  <2>2. CASE CallRaises(c) \/ FailRefused(c) \/ WorkerCrash(c)
    BY <2>2 DEF CallRaises, FailRefused, WorkerCrash, Visible
  <2> QED
    BY <2>1, <2>2 DEF Continue
<1>4. CASE UNCHANGED vars
  BY <1>4 DEF vars, Visible
<1> QED
  BY <1>1, <1>2, <1>3, <1>4 DEF Next

\* A client that compares task_version decides on what it saw, and the status log tells
\* every status the task had, whichever of the handlers wrote it.
THEOREM EveryDecisionIsVisible == Spec => DecisionsAreVisible
<1>1. IInv /\ [Next]_vars =>
        [ task'.version = task.version =>
            /\ task'.status = task.status
            /\ task'.assignee = task.assignee
            /\ task'.effective = task.effective
            /\ << plan, issues, review >>' = << plan, issues, review >> ]_vars
  BY StepVisible DEF Visible, IInv, CoreInv, TypeOK, Task
<1>2. IInv /\ [Next]_vars =>
        [ task'.status # task.status =>
            log' = [ to |-> task'.status, version |-> task'.version ] ]_vars
  BY StepVisible DEF Visible, IInv, CoreInv, TypeOK, Task
<1>3. Spec => VersionGuardsEveryDecision
  BY <1>1, Inductive, PTL DEF Spec, VersionGuardsEveryDecision
<1>4. Spec => StatusChangeIsLogged
  BY <1>2, Inductive, PTL DEF Spec, StatusChangeIsLogged
<1> QED
  BY <1>3, <1>4 DEF DecisionsAreVisible

-----------------------------------------------------------------------------
(* Nodes *)

\* No call is in flight for an attempt that nobody claimed.
Claimed == \A c \in calls : attempts[c.attempt].status # "pending"

LEMMA StepClaimed ==
  ASSUME CoreInv, Claimed, [Next]_vars
  PROVE  Claimed'
<1>0. /\ attempts \in Seq(Attempt)
      /\ \A c \in calls : c \in Call /\ c.attempt \in DOMAIN attempts
  BY DEF CoreInv, TypeOK, AttemptInv
<1>1. \A a \in DOMAIN attempts : attempts[a].status # "pending" => attempts'[a].status # "pending"
  <2>1. ASSUME NEW a \in DOMAIN attempts, ~Active(a)
        PROVE  attempts'[a] = attempts[a]
    BY <2>1, SettledStep
  <2>2. ASSUME NEW a \in DOMAIN attempts, attempts[a].status = "running"
        PROVE  attempts'[a].status # "pending"
    <3>1. CASE UserStep
      <4>1. Quiet \/ Started \/ TakenAway \/ Lapsed
        BY <3>1, UserStepKinds DEF CoreInv, EffectInv, EffectInv
      <4>2. ~NoActiveAttempt
        BY <2>2 DEF NoActiveAttempt, Active, ActiveStatus
      <4>3. attempts[a] \in Attempt
        BY <1>0, LenProperties
      <4> QED
        BY <2>2, <4>1, <4>2, <4>3 DEF Quiet, Started, StartAttempt, TakenAway, Lapsed,
           InvalidateActive, Active, ActiveStatus, Attempt
    <3>2. CASE ExecuteStep
      BY <2>2, <3>2 DEF ExecuteStep, Execute
    <3>3. CASE CallStep \/ CrashStep
      <4> PICK c \in calls : Continue(c) \/ WorkerCrash(c)
        BY <3>3 DEF CallStep, CrashStep
      <4>1. CASE CompleteResult(c) \/ FailAttempt(c)
        <5>1. PICK outcome \in { "succeeded", "failed" } :
                attempts' = [ attempts EXCEPT ![c.attempt].status = outcome ]
          BY <4>1 DEF CompleteResult, FailAttempt, Settle
        <5>2. attempts[a] \in Attempt
          BY <1>0, LenProperties
        <5> QED
          BY <2>2, <5>1, <5>2 DEF Attempt
      <4>2. CASE CallRaises(c) \/ FailRefused(c) \/ WorkerCrash(c)
        BY <2>2, <4>2 DEF CallRaises, FailRefused, WorkerCrash
      <4> QED
        BY <4>1, <4>2 DEF Continue
    <3>4. CASE UNCHANGED vars
      BY <2>2, <3>4 DEF vars
    <3> QED
      BY <3>1, <3>2, <3>3, <3>4 DEF Next
  <2> QED
    BY <2>1, <2>2 DEF Active, ActiveStatus
<1>2. CASE UserStep
  <2>1. calls' = calls
    BY <1>2, UserStepKinds DEF CoreInv, EffectInv, Quiet, Started, TakenAway, Lapsed
  <2> QED
    BY <1>0, <1>1, <2>1 DEF Claimed
<1>3. CASE ExecuteStep
  <2> PICK a \in DOMAIN attempts, u \in Assignees : Execute(a, u)
    BY <1>3 DEF ExecuteStep
  <2>1. attempts[a] \in Attempt
    BY <1>0, LenProperties
  <2>2. attempts'[a].status = "running"
    BY <2>1 DEF Execute, Attempt
  <2> QED
    BY <1>0, <1>1, <2>2 DEF Execute, Claimed
<1>4. CASE CallStep \/ CrashStep
  <2> PICK c \in calls : Continue(c) \/ WorkerCrash(c)
    BY <1>4 DEF CallStep, CrashStep
  <2>1. \A d \in calls' : d \in calls \/ d.attempt = c.attempt
    BY <1>0 DEF Continue, CallRaises, CompleteResult, FailAttempt, FailRefused, WorkerCrash,
       Settle, Call
  <2> QED
    BY <1>0, <1>1, <2>1 DEF Claimed
<1>5. CASE UNCHANGED vars
  BY <1>5 DEF vars, Claimed
<1> QED
  BY <1>2, <1>3, <1>4, <1>5 DEF Next

\* No handler brings nodes to a task that has none.
LEMMA UserStepPlan ==
  ASSUME CoreInv, UserStep, plan = "none"
  PROVE  plan' = "none"
<1>0. task.status \notin ExecutionStatus
  BY DEF CoreInv, EffectInv, ExecutionIsEffective
<1> USE <1>0 DEF ExecutionStatus
<1>1. CASE \E a \in Assignees \cup {Nobody}, r \in BOOLEAN : UpdateDraft(a, r)
  BY <1>1 DEF UpdateDraft
<1>2. CASE SubmitForConfirmation
  BY <1>2 DEF SubmitForConfirmation
<1>3. CASE ConfirmAndSend
  BY <1>3 DEF ConfirmAndSend
<1>4. CASE ReturnTask
  BY <1>4 DEF ReturnTask
<1>5. CASE ResendTask
  BY <1>5 DEF ResendTask
<1>6. CASE AcceptTask
  BY <1>6 DEF AcceptTask, StartAttempt
<1>7. CASE RetryDecomposition
  BY <1>7 DEF RetryDecomposition, StartAttempt
<1>8. CASE CreateChange
  BY <1>8 DEF CreateChange
<1>9. CASE \E p \in { "none", "open", "done" }, r \in BOOLEAN : ApproveChange(p, r)
  BY <1>9 DEF ApproveChange, PendingOnCurrentVersion, CoreInv, PendingInv
<1>10. CASE DropChange
  BY <1>10 DEF DropChange
<1>11. CASE \E p \in { "open", "done" } : NodeWrite(p)
  BY <1>11 DEF NodeWrite
<1>12. CASE AnswerAssignment
  BY <1>12 DEF AnswerAssignment
<1>13. CASE ReopenNode
  BY <1>13 DEF ReopenNode
<1>14. CASE ConfirmTaskPlan
  BY <1>14 DEF ConfirmTaskPlan
<1>15. CASE \E p \in Periods \cup {NoPeriod}, hasIssue \in BOOLEAN : ReportProgress(p, hasIssue)
  BY <1>15 DEF ReportProgress
<1>16. CASE \E isBlocker \in BOOLEAN : CreateIssue(isBlocker)
  BY <1>16 DEF CreateIssue
<1>17. CASE \E after \in { "none", "unclosed", "blocker" }, settles \in BOOLEAN :
             TransitionIssue(after, settles)
  BY <1>17 DEF TransitionIssue
<1>18. CASE SubmitCompletion
  BY <1>18 DEF SubmitCompletion
<1>19. CASE ApproveCompletion
  BY <1>19 DEF ApproveCompletion
<1>20. CASE \E rework \in { "none", "wanted" } : RejectCompletion(rework)
  BY <1>20 DEF RejectCompletion
<1>21. CASE CancelTask
  BY <1>21 DEF CancelTask, LifecycleTransition
<1>22. CASE WithdrawTask
  BY <1>22 DEF WithdrawTask, LifecycleTransition
<1>23. CASE CloseTask
  BY <1>23 DEF CloseTask, LifecycleTransition
<1>24. CASE ArchiveTask
  BY <1>24 DEF ArchiveTask, LifecycleTransition
<1>25. CASE \E a \in Assignees : ReassignTask(a)
  BY <1>25 DEF ReassignTask
<1>26. CASE RestoreTask
  BY <1>26 DEF RestoreTask
<1>27. CASE MergeTask
  BY <1>27 DEF MergeTask
<1> QED
  BY <1>1, <1>2, <1>3, <1>4, <1>5, <1>6, <1>7, <1>8, <1>9, <1>10, <1>11, <1>12, <1>13,
     <1>14, <1>15, <1>16, <1>17, <1>18, <1>19, <1>20, <1>21, <1>22, <1>23, <1>24, <1>25,
     <1>26, <1>27 DEF UserStep

Delivery ==
  (~task.effective /\ task'.effective) \/ (plan = "none" /\ plan' # "none") =>
    /\ task.status = "decomposing"
    /\ attempts[task.latest].status = "running"
    /\ attempts'[task.latest].status = "succeeded"
    /\ attempts[task.latest].by = task'.assignee

LEMMA StepDelivers ==
  ASSUME CoreInv, Claimed, [Next]_vars
  PROVE  Delivery
<1>0. task \in Task /\ task.effective \in BOOLEAN
  BY DEF CoreInv, TypeOK, Task
<1>1. CASE UserStep
  <2>1. task'.effective => task.effective
    BY <1>0, <1>1, UserStepKinds DEF CoreInv, EffectInv, Quiet, Started, StartAttempt,
       Commit, TakenAway, Lapsed, Task
  <2> QED
    BY <1>1, <2>1, UserStepPlan DEF Delivery
<1>2. CASE ExecuteStep
  BY <1>0, <1>2 DEF ExecuteStep, Execute, Delivery, Task
<1>3. CASE CallStep \/ CrashStep
  <2> PICK c \in calls : Continue(c) \/ WorkerCrash(c)
    BY <1>3 DEF CallStep, CrashStep
  <2>1. CASE CompleteResult(c)
    <3>1. /\ CurrentAttempt(c.attempt)
          /\ Settle(c, "succeeded", [ task EXCEPT !.status = "in_progress", !.effective = TRUE ])
      BY <2>1 DEF CompleteResult
    <3>2. attempts'[c.attempt].status = "succeeded" /\ Active(c.attempt)
      BY <3>1, SettleEnds
    <3>3. task.status = "decomposing" /\ task.latest = c.attempt /\ task'.assignee = task.assignee
      BY <1>0, <3>1 DEF CurrentAttempt, Settle, Task
    <3>4. attempts[c.attempt].status = "running"
      BY <3>2 DEF Claimed, Active, ActiveStatus
    <3>5. attempts[c.attempt].by = task.assignee
      BY <3>3 DEF CoreInv, AttemptInv, DecomposingHasCurrentAttempt
    <3> QED
      BY <3>2, <3>3, <3>4, <3>5 DEF Delivery
  <2>2. CASE FailAttempt(c)
    BY <1>0, <2>2 DEF FailAttempt, Settle, Delivery, Task
  <2>3. CASE CallRaises(c) \/ FailRefused(c) \/ WorkerCrash(c)
    BY <2>3 DEF CallRaises, FailRefused, WorkerCrash, Delivery
  <2> QED
    BY <2>1, <2>2, <2>3 DEF Continue
<1>4. CASE UNCHANGED vars
  BY <1>4 DEF vars, Delivery
<1> QED
  BY <1>1, <1>2, <1>3, <1>4 DEF Next

\* effective_at and the first nodes come from complete_result alone, for the attempt that
\* was claimed, and for the person who still holds the task.
THEOREM NodesComeFromDelivery == Spec => LateResultIgnored
<1>1. Init => Claimed
  BY DEF Init, Claimed
<1>2. IInv /\ Claimed /\ [Next]_vars => Claimed'
  BY StepClaimed DEF IInv
<1>3. IInv /\ Claimed /\ [Next]_vars =>
        [ (~task.effective /\ task'.effective) \/ (plan = "none" /\ plan' # "none") =>
            /\ task.status = "decomposing"
            /\ attempts[task.latest].status = "running"
            /\ attempts'[task.latest].status = "succeeded"
            /\ attempts[task.latest].by = task'.assignee ]_vars
  BY StepDelivers DEF IInv, Delivery
<1> QED
  BY <1>1, <1>2, <1>3, Inductive, PTL DEF Spec, LateResultIgnored

-----------------------------------------------------------------------------
(* The archive-snapshot endpoint *)

\* What the request read is a version, however old.
EndpointInv == CoreInv /\ Claimed /\ reading \in Reading

\* The stale write takes the task to "archived" under any version; attempts, calls, nodes and
\* the pending request it leaves alone.
LEMMA WriteKeeps ==
  ASSUME EndpointInv, WriteArchive
  PROVE  CoreInv' /\ Claimed'
<1>1. /\ UNCHANGED << attempts, calls, change, review, plan, issues, log >>
      /\ archive' = TRUE
      /\ task \in Task
  BY DEF WriteArchive, EndpointInv, CoreInv, TypeOK
<1>2. CASE ~reading.moves
  <2>1. task' = task
    BY <1>2 DEF WriteArchive
  <2> QED
    BY <1>1, <2>1 DEF EndpointInv, CoreInv, TypeOK, PendingInv, AttemptInv, OneActiveAttempt,
       DecomposingHasCurrentAttempt, CurrentAttempt, ProjectionMatchesAttempt, Active, EffectInv,
       OfferedIsIneffective, ExecutionIsEffective, Claimed
<1>3. CASE reading.moves
  <2>1. reading.version + 1 \in Nat
    BY DEF EndpointInv, Reading
  <2>2. /\ task' \in Task
        /\ task'.status = "archived"
        /\ task'.latest = task.latest
        /\ task'.decomposition = task.decomposition
        /\ task'.effective = task.effective
    BY <1>1, <1>3, <2>1 DEF WriteArchive, Task, Status
  <2>3. TypeOK' /\ PendingInv' /\ EffectInv' /\ Claimed'
    BY <1>1, <2>2 DEF EndpointInv, CoreInv, TypeOK, PendingInv, EffectInv, OfferedIsIneffective,
       ExecutionIsEffective, OfferedStatus, ExecutionStatus, Claimed
  <2>4. AttemptInv'
    BY <1>1, <2>2 DEF EndpointInv, CoreInv, AttemptInv, OneActiveAttempt,
       DecomposingHasCurrentAttempt, ProjectionMatchesAttempt, Active
  <2> QED
    BY <2>3, <2>4 DEF CoreInv
<1> QED
  BY <1>2, <1>3

LEMMA StepEndpoint == EndpointInv /\ [EndpointNext]_endpointVars => EndpointInv'
<1> SUFFICES ASSUME EndpointInv, [EndpointNext]_endpointVars
             PROVE  EndpointInv'
  OBVIOUS
<1>1. reading' \in Reading
  <2>1. CASE ReadTask
    <3>1. task.version \in Nat
      BY DEF EndpointInv, CoreInv, TypeOK, Task
    <3>2. (task.status \notin TerminalStatus \ { "completed" }) \in BOOLEAN
      OBVIOUS
    <3> QED
      BY <2>1, <3>1, <3>2 DEF ReadTask, Reading
  <2>2. CASE WriteArchive \/ ArchiveRefused
    <3>1. reading' = Idle
      BY <2>2 DEF WriteArchive, ArchiveRefused
    <3> QED
      BY <3>1 DEF Idle, Reading
  <2>3. CASE UNCHANGED reading
    BY <2>3 DEF EndpointInv
  <2> QED
    BY <2>1, <2>2, <2>3 DEF EndpointNext, endpointVars
<1>2. [Next]_vars \/ WriteArchive
  BY DEF EndpointNext, ReadTask, ArchiveRefused, endpointVars
<1> QED
  BY <1>1, <1>2, WriteKeeps, StepCore, StepClaimed DEF EndpointInv

LEMMA EndpointInductive == EndpointSpec => []EndpointInv
<1>1. Idle \in Reading
  BY DEF Idle, Reading
<1>2. Init => CoreInv
  BY InitIInv DEF IInv
<1>3. Init => Claimed
  BY DEF Init, Claimed
<1>4. EndpointInit => EndpointInv
  BY <1>1, <1>2, <1>3 DEF EndpointInit, EndpointInv
<1> QED
  BY <1>4, StepEndpoint, PTL DEF EndpointSpec

\* A step next to the endpoint is one of the handlers', or the stale write.
LEMMA EndpointSteps ==
  ASSUME [EndpointNext]_endpointVars
  PROVE  [Next]_vars \/ WriteArchive
BY DEF EndpointNext, ReadTask, ArchiveRefused, endpointVars

\* The archive-snapshot endpoint, which locks nothing and takes the version back, does not
\* bring a task into execution that was not delivered to its holder.
THEOREM EndpointKeepsExecution == EndpointSpec => []ExecutionIsEffective
BY EndpointInductive, PTL DEF EndpointInv, CoreInv, EffectInv

\* Next to the endpoint, too, a late answer changes nothing.
THEOREM EndpointKeepsAnswers == EndpointSpec => SettledAttemptStays
<1>1. EndpointInv /\ [EndpointNext]_endpointVars =>
        [ \A a \in DOMAIN attempts : ~Active(a) => attempts'[a] = attempts[a] ]_vars
  BY EndpointSteps, SettledStep DEF EndpointInv, WriteArchive
<1> QED
  BY <1>1, EndpointInductive, PTL DEF EndpointSpec, SettledAttemptStays

\* Next to the endpoint, too, nodes and effectiveness come from the attempt in flight only.
THEOREM EndpointKeepsDelivery == EndpointSpec => LateResultIgnored
<1>1. ASSUME EndpointInv, WriteArchive
      PROVE  Delivery
  BY <1>1 DEF EndpointInv, CoreInv, TypeOK, Task, WriteArchive, Delivery
<1>2. EndpointInv /\ [EndpointNext]_endpointVars =>
        [ (~task.effective /\ task'.effective) \/ (plan = "none" /\ plan' # "none") =>
            /\ task.status = "decomposing"
            /\ attempts[task.latest].status = "running"
            /\ attempts'[task.latest].status = "succeeded"
            /\ attempts[task.latest].by = task'.assignee ]_vars
  BY <1>1, EndpointSteps, StepDelivers DEF EndpointInv, Delivery
<1> QED
  BY <1>2, EndpointInductive, PTL DEF EndpointSpec, LateResultIgnored

\* The stale write revokes a decomposition at most: the activation contract holds with it.
THEOREM EndpointKeepsContract == EndpointSpec => ImplementsActivation
<1>1. ASSUME EndpointInv, WriteArchive
      PROVE  [Activation!Next]_(Activation!contractVars)
  <2>1. /\ attempts' = attempts
        /\ task'.latest = task.latest
        /\ task'.effective = task.effective
        /\ task'.status = task.status \/ task'.status = "archived"
    BY <1>1 DEF EndpointInv, CoreInv, TypeOK, Task, WriteArchive
  <2>2. CASE task.status = "decomposing" /\ task'.status = "archived"
    <3>1. task \in Task /\ attempts \in Seq(Attempt)
      BY <1>1 DEF EndpointInv, CoreInv, TypeOK
    <3>2. DOMAIN attempts = 1 .. Len(attempts)
      BY <3>1, LenProperties
    <3>3. task.latest \in DOMAIN attempts /\ Active(task.latest)
      BY <1>1, <2>2 DEF EndpointInv, CoreInv, AttemptInv, DecomposingHasCurrentAttempt
    <3>4. task.latest # 0
      BY <3>2, <3>3
    <3>5. task.effective = FALSE
      BY <1>1, <2>2, <3>1 DEF EndpointInv, CoreInv, EffectInv, OfferedIsIneffective,
         OfferedStatus, Task
    <3> QED
      BY <2>1, <2>2, <3>3, <3>4, <3>5 DEF Activation!Next, Activation!Revoke
  <2>3. CASE task.status # "decomposing" \/ task'.status = task.status
    BY <2>1, <2>3 DEF Activation!contractVars
  <2> QED
    BY <2>1, <2>2, <2>3
<1>2. EndpointInv /\ EndpointInv' /\ [EndpointNext]_endpointVars
        => [Activation!Next]_(Activation!contractVars)
  BY <1>1, EndpointSteps, ActivationStep DEF EndpointInv
<1>3. EndpointInit => Activation!Init
  BY InitActivation DEF EndpointInit
<1> QED
  BY <1>2, <1>3, EndpointInductive, PTL DEF EndpointSpec, ImplementsActivation, Activation!Spec

=============================================================================
