------------------------- MODULE ActivationContract --------------------------
(***************************************************************************)
(* What the decomposition of a task promises to the rest of the board: a   *)
(* task becomes effective only through the attempt that holds the lease,   *)
(* an attempt that lost the lease delivers nothing, and no attempt         *)
(* delivers twice.  TaskLifecycle implements it.                           *)
(***************************************************************************)
EXTENDS Naturals

VARIABLES
  lease,      \* the attempt whose answer would be taken, 0 when there is none
  issued,     \* how many attempts were ever started
  delivered,  \* the attempts whose answer was taken
  effective   \* the task may be executed

contractVars == << lease, issued, delivered, effective >>

Init == lease = 0 /\ issued = 0 /\ delivered = {} /\ effective = FALSE

\* A new attempt takes the lease; until it delivers the task is not effective.
Grant ==
  /\ lease = 0
  /\ issued' = issued + 1
  /\ lease' = issued'
  /\ effective' = FALSE
  /\ UNCHANGED delivered

Deliver ==
  /\ lease # 0
  /\ lease \notin delivered
  /\ delivered' = delivered \cup { lease }
  /\ lease' = 0
  /\ effective' = TRUE
  /\ UNCHANGED issued

\* The attempt failed, or a user took the task away from it.
Revoke ==
  /\ lease # 0
  /\ lease' = 0
  /\ effective' = FALSE
  /\ UNCHANGED << issued, delivered >>

\* Another assignee: what was accepted before no longer counts.
Lapse ==
  /\ lease = 0
  /\ effective' = FALSE
  /\ UNCHANGED << lease, issued, delivered >>

Next == Grant \/ Deliver \/ Revoke \/ Lapse

Spec == Init /\ [][Next]_contractVars

=============================================================================
