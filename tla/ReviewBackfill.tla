--------------------------- MODULE ReviewBackfill ---------------------------
(***************************************************************************)
(* The data half of revision c31f8e7a4d02: from the status log of a task   *)
(* written before completion reviews had a table, it imports one review    *)
(* per submission, or refuses the upgrade in a preflight.                  *)
(*                                                                         *)
(* A history is what the log holds of the completion of one task, by       *)
(* task_version.  Versions order it: every handler logs under a version of *)
(* its own, so ties by created_at and by id do not arise.                  *)
(***************************************************************************)
EXTENDS Naturals, FiniteSets, FiniteSetsExt

CONSTANTS
  Reviewer,    \* target_employee_no of the submissions
  Other,       \* somebody else
  Nobody,      \* NULL
  MaxLogged    \* bound: the versions a history spans

ASSUME BoundIsNatural == MaxLogged \in Nat

Versions == 1..MaxLogged

\* created_at is kept relative to the submissions, which all carry 1.
NoEntry == [ action |-> "none", by |-> Nobody, at |-> 0 ]
Submission(by) == [ action |-> "completion_submitted", by |-> by, at |-> 1 ]
Approval(by, at) == [ action |-> "completion_approved", by |-> by, at |-> at ]

\* by is the operator of an approval, and of a submission its operator and its target,
\* which the preflight refuses alike when they are NULL.
Entry ==
  {NoEntry}
    \cup { Submission(p) : p \in { Reviewer, Nobody } }
    \cup { Approval(p, t) : p \in { Reviewer, Other, Nobody }, t \in 0..1 }

Histories == [ Versions -> Entry ]
NoHistory == [ v \in Versions |-> NoEntry ]

-----------------------------------------------------------------------------
(* The window functions and lateral joins of both statements *)

Submitted(h) == { v \in Versions : h[v].action = "completion_submitted" }
Approved(h)  == { v \in Versions : h[v].action = "completion_approved" }

\* Before the next submission, where lead() finds one.
InRound(h, s, v) == v > s /\ ~ \E n \in Submitted(h) : s < n /\ n <= v

ApprovalsOf(h, s) == { v \in Approved(h) : InRound(h, s, v) }

Unresolved(h) == { s \in Submitted(h) : ApprovalsOf(h, s) = {} }

-----------------------------------------------------------------------------
(* The preflight: seven reasons to refuse *)

LacksSubmission(status, h) ==
  status \in { "pending_review", "completed" } /\ Submitted(h) = {}

NullActor(h) == \E v \in Submitted(h) \cup Approved(h) : h[v].by = Nobody

ApprovalLacksSubmission(h) ==
  \E a \in Approved(h) : \A s \in Submitted(h) : s >= a

\* Mutant: anybody may have approved.
UntimelyApproval(h) ==
  \E s \in Submitted(h) :
    \/ Cardinality(ApprovalsOf(h, s)) > 1
    \/ \E a \in ApprovalsOf(h, s) : h[a].at < h[s].at

InconsistentApproval(h) ==
  \E s \in Submitted(h) :
    \/ Cardinality(ApprovalsOf(h, s)) > 1
    \/ \E a \in ApprovalsOf(h, s) : h[a].by # h[s].by \/ h[a].at < h[s].at

SeveralUnresolved(h) == Cardinality(Unresolved(h)) > 1

StaleUnresolved(status, h) ==
  \E s \in Unresolved(h) : status = "completed" \/ \E n \in Submitted(h) : n > s

ConflictsWithStatus(status, h) ==
  Submitted(h) # {} /\ status \notin { "pending_review", "completed" }

LatestConflicts(status, h) ==
  \E s \in Submitted(h) :
    /\ \A n \in Submitted(h) : n <= s
    /\ \/ status = "pending_review" /\ \E a \in Approved(h) : a > s
       \/ status = "completed" /\ ~ \E a \in Approved(h) : a > s

Refused(status, h) ==
  \/ LacksSubmission(status, h)
  \/ NullActor(h)
  \/ ApprovalLacksSubmission(h)
  \/ InconsistentApproval(h)
  \/ SeveralUnresolved(h)
  \/ StaleUnresolved(status, h)
  \/ ConflictsWithStatus(status, h)
  \/ LatestConflicts(status, h)

-----------------------------------------------------------------------------
(* The import, and what the table asks of its rows *)

\* The first approval of the round decides it; 0 stands for NULL.
DecisionOf(h, s) == IF ApprovalsOf(h, s) = {} THEN 0 ELSE Min(ApprovalsOf(h, s))

Imported(h, s) ==
  LET a == DecisionOf(h, s)
  IN  [ round     |-> Cardinality({ n \in Submitted(h) : n <= s }),
        status    |-> IF a = 0 THEN "submitted" ELSE "approved",
        reviewer  |-> h[s].by,
        decider   |-> IF a = 0 THEN Nobody ELSE h[a].by,
        submitted |-> s,
        reviewed  |-> a,
        inOrder   |-> a = 0 \/ h[a].at >= h[s].at ]

Backfill(h) == { Imported(h, s) : s \in Submitted(h) }

\* NOT NULL, ck_..._lifecycle_fields, uq_..._task_round, uq_..._one_submitted_per_task.
Admissible(rows) ==
  /\ \A r \in rows :
       /\ r.reviewer # Nobody
       /\ r.status = "approved" => r.reviewed > r.submitted /\ r.inOrder
  /\ \A r, q \in rows : r.round = q.round => r = q
  /\ Cardinality({ r \in rows : r.status = "submitted" }) <= 1

\* The rows tell the history of a task in that status as the review handlers would have
\* stored it: numbered from 1, decided by the reviewer after the submission, and the last
\* one open exactly while the task waits for review.
TellsHistory(status, rows) ==
  LET last == { r \in rows : \A q \in rows : q.round <= r.round }
  IN  rows # {} =>
        /\ { r.round : r \in rows } = 1..Cardinality(rows)
        /\ \A r \in rows :
             r.status = "approved" => r.decider = r.reviewer /\ r.reviewed > r.submitted
        /\ \A r \in rows \ last : r.status = "approved"
        /\ \A r \in last :
             status = IF r.status = "submitted" THEN "pending_review" ELSE "completed"

=============================================================================
