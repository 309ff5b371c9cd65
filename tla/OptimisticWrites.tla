-------------------------- MODULE OptimisticWrites --------------------------
(***************************************************************************)
(* How what a user intends becomes one commit on a task, when requests and *)
(* answers are lost and the client sends again.                            *)
(*                                                                         *)
(* A page reads task_version and sends it with an Idempotency-Key derived  *)
(* from the action, its object and that version, but not from the payload: *)
(* a report that was edited, or another assignee, is sent under the key of *)
(* the one before it.  The server first looks the key up in                *)
(* operation_logs, without a lock and without comparing payloads, and      *)
(* answers a key it knows with success.  Otherwise it locks the task row, compares the version,   *)
(* and commits the effect together with the operation_logs row.  Lookup    *)
(* and commit are two steps: other requests commit in between.             *)
(*                                                                         *)
(* A change request does not advance task_version, neither when it is      *)
(* filed nor when it is rejected; it does when it is approved.             *)
(***************************************************************************)
EXTENDS Naturals, Sequences, FiniteSets

CONSTANTS
  Actions,     \* who writes to the task, and by which action
  Payloads,    \* what such a write may say: another assignee, an edited report
  Proposals,   \* the change requests the main assignee intends to file
  Approvals,   \* the creator's intentions to approve the pending change request
  Rejections,  \* and to reject it
  MaxSends,    \* bound: how often a page sends one intention
  MaxRetried   \* bound: how many intentions are sent more than once

Writes == Actions \X Payloads
Intents == Writes \cup Proposals \cup Approvals \cup Rejections
Verdicts == Approvals \cup Rejections

ASSUME IntentsAreDisjoint ==
  /\ Writes \cap (Proposals \cup Verdicts) = {}
  /\ Proposals \cap Verdicts = {}
  /\ Approvals \cap Rejections = {}
ASSUME MaxSendsIsNat == MaxSends \in Nat

VARIABLES
  row,       \* the task: its version and its pending change request
  logs,      \* operation_logs of the task, oldest first
  page,      \* what the client holds of each intention
  requests   \* the requests not yet answered; one that is lost stays here for ever

vars == << row, logs, page, requests >>

-----------------------------------------------------------------------------
(* Rows *)

\* A change request is named by the place of its log row; 0 is none.
Row == [ version : Nat, pending : Nat, base : Nat ]

\* The version is the one the page read, as in the key.
LogRow == [ intent : Intents, version : Nat, target : Nat ]

Page ==
  [ state   : { "unused", "open", "done", "refused" },
    version : Nat,      \* task_version as the page read it
    target  : Nat,      \* the change request it decides
    sends   : Nat,
    late    : BOOLEAN ] \* the intention was committed when it was last sent

Request == [ intent : Intents, copy : Nat, missed : BOOLEAN ]

TypeOK ==
  /\ row \in Row
  /\ row.pending \in 0..Len(logs)
  /\ logs \in Seq(LogRow)
  /\ page \in [ Intents -> Page ]
  /\ requests \subseteq Request

Init ==
  /\ row = [ version |-> 1, pending |-> 0, base |-> 0 ]
  /\ logs = << >>
  /\ page = [ i \in Intents |-> [ state |-> "unused", version |-> 0, target |-> 0,
                                  sends |-> 0, late |-> FALSE ] ]
  /\ requests = {}

Applied(i) == \E n \in DOMAIN logs : logs[n].intent = i

\* The intentions that differ in their payload only.
OneAction ==
  { {a} \X Payloads : a \in Actions } \cup { Proposals, Approvals, Rejections }

SameAction(i, j) == \E A \in OneAction : {i, j} \subseteq A

-----------------------------------------------------------------------------
(* The client *)

\* A page reads the task and its user decides; who changes his mind about the payload
\* after a time-out has begun twice.  One person files change requests, one at a time
\* while none is pending; a verdict is on the one the page shows.
Begin(i) ==
  /\ page[i].state = "unused"
  /\ i \in Proposals =>
       row.pending = 0 /\ \A j \in Proposals : page[j].state # "open"
  /\ i \in Verdicts => row.pending # 0
  /\ page' = [ page EXCEPT ![i].state = "open", ![i].version = row.version,
                           ![i].target = IF i \in Verdicts THEN row.pending ELSE 0 ]
  /\ UNCHANGED << row, logs, requests >>

\* Sent, and sent again after a time-out: same version, same key.
Send(i) ==
  /\ page[i].state = "open"
  /\ page[i].sends < MaxSends
  /\ page[i].sends = 1 =>
       Cardinality({ j \in Intents : page[j].sends > 1 }) < MaxRetried
  /\ page' = [ page EXCEPT ![i].sends = @ + 1, ![i].late = Applied(i) ]
  /\ requests' = requests \cup { [ intent |-> i, copy |-> page[i].sends + 1,
                                   missed |-> FALSE ] }
  /\ UNCHANGED << row, logs >>

\* An answer closes the page if it is the answer to its last request and is not lost.
Answer(m, result) ==
  /\ requests' = requests \ {m}
  /\ \/ UNCHANGED page
     \/ /\ page[m.intent].state = "open"
        /\ page[m.intent].sends = m.copy
        /\ page' = [ page EXCEPT ![m.intent].state = result ]

-----------------------------------------------------------------------------
(* The server *)

\* Mutant: the action is not part of the key.
KeyOfVersion(n, i) == logs[n].version = page[i].version

\* The keys are equal: the action, the version the page read and the action's object.
SameKey(n, i) ==
  /\ SameAction(logs[n].intent, i)
  /\ logs[n].version = page[i].version
  /\ logs[n].target = page[i].target

\* Mutant: the key is never looked up.
MissKey(m) ==
  /\ ~m.missed
  /\ requests' = (requests \ {m}) \cup { [ m EXCEPT !.missed = TRUE ] }
  /\ UNCHANGED << row, logs, page >>

\* find_idempotent_task and its like: a known key is answered with success.
LookUpKey(m) ==
  /\ ~m.missed
  /\ IF \E n \in DOMAIN logs : SameKey(n, m.intent)
       THEN Answer(m, "done")
       ELSE /\ requests' = (requests \ {m}) \cup { [ m EXCEPT !.missed = TRUE ] }
            /\ UNCHANGED page
  /\ UNCHANGED << row, logs >>

\* Mutant: the handler does not compare task_version.
AllowedAnyVersion(i) ==
  /\ i \in Proposals => row.pending = 0
  /\ i \in Verdicts =>
       row.pending # 0 /\ row.pending = page[i].target /\ row.base = row.version

\* Mutant: the base version of the change request is not compared.
AllowedAnyBase(i) ==
  /\ page[i].version = row.version
  /\ i \in Proposals => row.pending = 0
  /\ i \in Verdicts => row.pending # 0 /\ row.pending = page[i].target

\* What the handler checks under the row lock, the status guards left out.
Allowed(i) ==
  /\ page[i].version = row.version
  /\ i \in Proposals => row.pending = 0
  /\ i \in Verdicts =>
       row.pending # 0 /\ row.pending = page[i].target /\ row.base = row.version

Advances(i) == i \in Writes \cup Approvals

\* Mutant: the change request is numbered by the log row after its own.
EffectOffByOne(i, n) ==
  [ version |-> IF Advances(i) THEN row.version + 1 ELSE row.version,
    pending |-> IF i \in Proposals THEN n + 1 ELSE IF i \in Verdicts THEN 0 ELSE row.pending,
    base    |-> IF i \in Proposals THEN row.version
                ELSE IF i \in Verdicts THEN 0 ELSE row.base ]

\* The effect of the intention on the row: n is the place of its log row.
Effect(i, n) ==
  [ version |-> IF Advances(i) THEN row.version + 1 ELSE row.version,
    pending |-> IF i \in Proposals THEN n ELSE IF i \in Verdicts THEN 0 ELSE row.pending,
    base    |-> IF i \in Proposals THEN row.version
                ELSE IF i \in Verdicts THEN 0 ELSE row.base ]

\* Lock, check, write, log and commit, or refuse: nothing commits in between.
Serve(m) ==
  /\ m.missed
  /\ IF Allowed(m.intent)
       THEN /\ row' = Effect(m.intent, Len(logs) + 1)
            /\ logs' = Append(logs, [ intent  |-> m.intent,
                                      version |-> page[m.intent].version,
                                      target  |-> page[m.intent].target ])
            /\ Answer(m, "done")
       ELSE /\ Answer(m, "refused")
            /\ UNCHANGED << row, logs >>

ClientStep == \E i \in Intents : Begin(i) \/ Send(i)

ServerStep == \E m \in requests : LookUpKey(m) \/ Serve(m)

Next == ClientStep \/ ServerStep

Spec == Init /\ [][Next]_vars

-----------------------------------------------------------------------------
(* Safety *)

\* However often it is sent, and whichever copy the server looks up or serves first,
\* an intention to write or to decide is committed at most once.
AppliedOnce ==
  \A m, n \in DOMAIN logs :
    logs[m].intent = logs[n].intent /\ logs[m].intent \notin Proposals => m = n

\* No lost update: of all the users who read one version, one advances it.
OneAdvancePerVersion ==
  \A m, n \in DOMAIN logs :
    /\ Advances(logs[m].intent)
    /\ Advances(logs[n].intent)
    /\ logs[m].version = logs[n].version
    => m = n

\* Success is never reported for an action that was not taken.  What was committed is
\* the intention itself or one the same user formed on the version he saw, for the same
\* action on the same object: the payload of the two may differ, and nothing else.
DoneIsApplied ==
  \A i \in Intents :
    page[i].state = "done" =>
      \E j \in Intents :
        /\ SameAction(i, j)
        /\ page[j].version = page[i].version
        /\ page[j].target = page[i].target
        /\ Applied(j)

\* An intention already committed when its last copy was sent is never reported as
\* refused: the lookup comes before the version check that would now fail.
LateResendSucceeds ==
  \A i \in Intents : page[i].state = "refused" => ~page[i].late

\* A change request is approved only on the version it was filed for.
ApprovedOnItsBase ==
  \A n \in DOMAIN logs :
    logs[n].intent \in Approvals =>
      /\ logs[n].target \in 1..(n - 1)
      /\ logs[logs[n].target].intent \in Proposals
      /\ logs[logs[n].target].version = logs[n].version

\* A change request is decided once, by one of the verdicts racing for it.
DecidedOnce ==
  \A m, n \in DOMAIN logs :
    /\ logs[m].intent \in Verdicts
    /\ logs[n].intent \in Verdicts
    /\ logs[m].target = logs[n].target
    => m = n

\* No copy, no race of two users and no second verdict has an effect of its own.
OneEffect == AppliedOnce /\ OneAdvancePerVersion /\ DecidedOnce

\* "No fake success": the assignee is told that a change request was filed only if it was.
DoneIsFiled ==
  \A i \in Proposals : page[i].state = "done" => Applied(i)

=============================================================================
