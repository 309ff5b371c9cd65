---------------------------- MODULE ReminderOutbox ----------------------------
(***************************************************************************)
(* ReminderNotificationService: reminder rules written by scans and by the *)
(* node handlers, notifications made from the rules that are due, and the  *)
(* delivery of the notifications by requests that overlap.  One object and *)
(* its rules are followed at a time: a task with a deadline, a report      *)
(* period, a node, an issue, or the events that are announced directly.    *)
(***************************************************************************)
EXTENDS Naturals, FiniteSets

CONSTANTS
  People,      \* employees
  Main,        \* main assignee of the task
  Creator,     \* creator of the task
  Workers,     \* requests of POST /notifications/send-pending
  Overlapping, \* kinds of objects of which several requests are followed (bound)
  Plans,       \* << start, due_soon, deadline >> of a task, report or node, in ticks
  Horizon,     \* last tick of the clock (bound)
  Limit,       \* rows one request claims
  Sent,        \* kinds of objects whose notifications are followed until they are sent (bound)
  MaxCrashes,  \* requests that die (bound)
  None

ASSUME MainIsAPerson == Main \in People /\ Creator \in People
ASSUME LimitIsPositive == Limit \in Nat \ {0}

VARIABLES
  now,      \* the clock, in thirds of a day
  object,   \* what the rules are about
  stage,    \* "running": in_progress, blocked or pending_report
  rules,    \* reminder_rules by dedupe_key: << kind, day or time, person >>, each to somebody,
            \* at a tick, armed (is_active) and fired (last_triggered_at)
  outbox,   \* notifications by dedupe_key and recipient: status, tries, whether the retry
            \* waits, and how often the provider got it, also of requests that died (lost)
  workers,  \* what each request has in memory
  crashes

vars == << now, object, stage, rules, outbox, workers, crashes >>

-----------------------------------------------------------------------------
(* Rows *)

\* Three ticks a day; the business time zone is one tick ahead of UTC.
UtcDay(t) == t \div 3
LocalDay(t) == (t + 1) \div 3
DueSoonWindow == 9

MaxTries == 4

Ticks == 0..Horizon
Start == object.plan[1]
DueSoon == object.plan[2]
Deadline == object.plan[3]

\* A new row of notifications, not sent yet.
NewNote == [ status |-> "pending", tries |-> 0, waits |-> FALSE, got |-> 0, lost |-> 0 ]

\* outbox with new rows, for those of new that it has none for.
Inserted(new) ==
  [ n \in DOMAIN outbox \cup new |-> IF n \in DOMAIN outbox THEN outbox[n] ELSE NewNote ]

Emitted(kind, to) == [ key |-> << kind, None, None >>, at |-> None, to |-> to ]

Armed(to, at) == [ to |-> to, at |-> at, armed |-> TRUE, fired |-> FALSE ]

-----------------------------------------------------------------------------
(* Rules written by the node handlers *)

\* schedule_node_execution_reminders: start, due soon unless it coincides, and due.
Schedule(owner) ==
  [ k \in { << kind, None, None >> :
              kind \in { "start", "due" } \cup (IF DueSoon = Start THEN {} ELSE { "due_soon" }) } |->
      Armed(owner, CASE k[1] = "start" -> Start
                     [] k[1] = "due_soon" -> DueSoon
                     [] k[1] = "due" -> Deadline) ]

\* complete_result: the owner's rules, or the collaborator is asked.
Init ==
  /\ now = 0
  /\ stage = "running"
  /\ \E kind \in { "task", "report", "node", "issue", "event" },
        owner \in People, plan \in Plans \cup {None} :
       /\ kind # "node" => owner = Main
       /\ plan = None <=> kind \in { "issue", "event" }
       /\ object = [ kind |-> kind, owner |-> owner, plan |-> plan, live |-> TRUE,
                     assignment |-> IF owner = Main THEN "accepted" ELSE "pending" ]
  /\ rules = IF object.kind = "node" /\ object.owner = Main THEN Schedule(Main) ELSE << >>
  /\ outbox = IF object.kind = "node" /\ object.owner # Main
                THEN [ n \in { Emitted("assignment", object.owner) } |-> NewNote ] ELSE << >>
  /\ workers = [ w \in Workers |-> [ at |-> "idle", batch |-> {} ] ]
  /\ crashes = 0

AcceptNodeAssignment ==
  /\ object.kind = "node" /\ stage = "running" /\ object.assignment = "pending"
  /\ object' = [ object EXCEPT !.assignment = "accepted" ]
  /\ LET written == IF object.live THEN Schedule(object.owner) ELSE << >>
     IN  rules' = [ k \in DOMAIN written \cup DOMAIN rules |->
                      IF k \in DOMAIN written THEN written[k] ELSE rules[k] ]
  /\ UNCHANGED << now, stage, outbox, workers, crashes >>

RejectNodeAssignment ==
  /\ object.kind = "node" /\ stage = "running" /\ object.assignment = "pending"
  /\ object' = [ object EXCEPT !.assignment = "rejected" ]
  /\ outbox' = Inserted({ Emitted("rejected", Main) })
  /\ UNCHANGED << now, stage, rules, workers, crashes >>

\* confirm_task_plan or an applied change request gives the node away; its rules stay.
\* Not on the last day of the clock, after which no new day's rule would come.
Handover(p) ==
  /\ object.kind = "node" /\ stage = "running" /\ object.live
  /\ LocalDay(now) < LocalDay(Horizon)
  /\ object' = [ object EXCEPT !.owner = p ]
  /\ UNCHANGED << now, stage, rules, outbox, workers, crashes >>

\* complete_node, an issue resolved, a report filed; and reopen_node, an issue processed again.
Settle(live) ==
  /\ object.kind \in { "node", "report", "issue" } /\ stage = "running"
  /\ object.kind = "node" => object.assignment = "accepted"
  /\ object.kind = "report" => ~live
  /\ object' = [ object EXCEPT !.live = live ]
  /\ UNCHANGED << now, stage, rules, outbox, workers, crashes >>

\* submit_completion, reject_completion, and the ends of a task.
Move(to) ==
  /\ object.kind # "event"
  /\ << stage, to >> \in { << "running", "reviewed" >>, << "reviewed", "running" >>,
                           << "running", "ended" >>, << "reviewed", "ended" >> }
  /\ stage' = to
  /\ UNCHANGED << now, object, rules, outbox, workers, crashes >>

\* The handlers that add a notification themselves, in their own transaction.
Announce(p) ==
  /\ object.kind = "event"
  /\ Emitted("event", p) \notin DOMAIN outbox
  /\ outbox' = Inserted({ Emitted("event", p) })
  /\ UNCHANGED << now, object, stage, rules, workers, crashes >>

-----------------------------------------------------------------------------
(* scan_reminders *)

Want(kind, day, who, to) == [ key |-> << kind, day, who >>, to |-> to ]

\* _task_rules, the deadline: overdue, due today or due soon, in this order.
DeadlineRules ==
  IF object.kind # "task" \/ stage # "running" THEN {}
  ELSE IF Deadline < now THEN { Want("overdue", LocalDay(now), None, object.owner) }
  ELSE IF UtcDay(Deadline) = UtcDay(now) THEN { Want("due_today", LocalDay(now), None, object.owner) }
  ELSE IF Deadline <= now + DueSoonWindow THEN { Want("due_soon", None, None, object.owner) }
  ELSE {}

\* _task_rules, the report of a period that ended without one.
ReportRules ==
  IF object.kind = "report" /\ stage = "running" /\ object.live /\ Deadline <= now
    THEN { Want(IF Deadline + 3 <= now THEN "no_response" ELSE "pending_report", UtcDay(Deadline),
                None, object.owner) }
    ELSE {}

\* _node_overdue_rules
NodeRules ==
  IF object.kind = "node" /\ stage = "running" /\ object.live
     /\ object.assignment = "accepted" /\ Deadline < now
    THEN { Want("overdue", LocalDay(now), None, object.owner) }
    ELSE {}

\* _issue_rules: whatever the task is doing.
IssueRules ==
  IF object.kind = "issue" /\ object.live
    THEN { Want("issue_blocker", LocalDay(now), p, p) : p \in { object.owner, Creator } }
    ELSE {}

Wanted == DeadlineRules \cup ReportRules \cup NodeRules \cup IssueRules

\* Mutant: a rule that was put aside is not taken up again.
UpsertOnce(want) ==
  IF want.key \in DOMAIN rules THEN rules[want.key] ELSE Armed(want.to, now)

\* _upsert_rule: a rule that fired stays; another is armed again, for whom it was.
Upserted(want) ==
  IF want.key \notin DOMAIN rules THEN Armed(want.to, now)
  ELSE IF rules[want.key].fired THEN rules[want.key]
  ELSE [ rules[want.key] EXCEPT !.armed = TRUE, !.at = now ]

ScanReminders ==
  /\ LET keys == { want.key : want \in Wanted }
     IN  rules' = [ k \in DOMAIN rules \cup keys |->
                      IF k \in keys THEN Upserted(CHOOSE want \in Wanted : want.key = k)
                      ELSE rules[k] ]
  /\ UNCHANGED << now, object, stage, outbox, workers, crashes >>

-----------------------------------------------------------------------------
(* create_due_notifications *)

\* _rule_actionable
Actionable(key) ==
  /\ stage # "ended"
  /\ object.kind = "node" =>
       /\ stage = "running"
       /\ object.live
       /\ object.assignment = "accepted"
       /\ object.owner = rules[key].to
  /\ object.kind = "issue" => object.live

\* The request reads the due rules and what they are about, without a lock.
LoadDueRules(w) ==
  /\ object.kind \in Overlapping \/ w = (CHOOSE v \in Workers : TRUE)
  /\ workers[w].at = "idle"
  /\ LET due == { k \in DOMAIN rules : rules[k].armed /\ rules[k].at <= now }
     IN  workers' = [ workers EXCEPT ![w] =
                        [ at |-> "creating",
                          batch |-> { [ id |-> [ key |-> k, at |-> rules[k].at, to |-> rules[k].to ],
                                        fires |-> Actionable(k) ] : k \in due } ] ]
  /\ UNCHANGED << now, object, stage, rules, outbox, crashes >>

Fires(w) == { x.id : x \in { y \in workers[w].batch : y.fires } }

\* Another request committed one of these occurrences after this one looked for it: the unique
\* key refuses the insertion and the request ends with an error.
CreationConflict(w) ==
  /\ workers[w].at = "creating"
  /\ Fires(w) \cap DOMAIN outbox # {}
  /\ workers' = [ workers EXCEPT ![w] = [ at |-> "idle", batch |-> {} ] ]
  /\ UNCHANGED << now, object, stage, rules, outbox, crashes >>

\* An occurrence that the request finds in outbox, committed before or meanwhile, stays as it is.
CreateDueNotifications(w) ==
  /\ workers[w].at = "creating"
  /\ outbox' = Inserted(Fires(w))
  /\ rules' = [ k \in DOMAIN rules |->
                  IF k \in { x.id.key : x \in workers[w].batch }
                    THEN [ rules[k] EXCEPT !.armed = FALSE,
                                           !.fired = @ \/ k \in { n.key : n \in Fires(w) } ]
                    ELSE rules[k] ]
  /\ workers' = [ workers EXCEPT ![w] =
                    [ at |-> IF object.kind \in Sent THEN "created" ELSE "idle", batch |-> {} ] ]
  /\ UNCHANGED << now, object, stage, crashes >>

-----------------------------------------------------------------------------
(* send_pending *)

Claimed == { x.id : x \in UNION { workers[w].batch : w \in { v \in Workers : workers[v].at = "sending" } } }

\* What the query of send_pending selects.
Retriable(n) ==
  /\ outbox[n].status \in { "pending", "failed" }
  /\ ~outbox[n].waits
  /\ outbox[n].tries < MaxTries

\* Mutant: rows are read without FOR UPDATE SKIP LOCKED.
Unlocked == { n \in DOMAIN outbox : Retriable(n) }

Claimable == { n \in DOMAIN outbox : Retriable(n) /\ n \notin Claimed }

\* Rows that nobody has locked, as many as the limit; which are the oldest is left open.
ClaimPending(w) ==
  /\ workers[w].at = "created"
  /\ \E batch \in SUBSET Claimable :
       /\ Cardinality(batch) <= Limit
       /\ Cardinality(batch) < Limit => batch = Claimable
       /\ workers' = [ workers EXCEPT ![w] =
                         [ at |-> "sending",
                           batch |-> { [ id |-> n, result |-> "todo" ] : n \in batch } ] ]
  /\ UNCHANGED << now, object, stage, rules, outbox, crashes >>

\* The provider is called inside the transaction: what it did is not undone by a rollback.
CallProvider(w, x, result) ==
  /\ workers[w].at = "sending"
  /\ x.result = "todo"
  /\ workers' = [ workers EXCEPT ![w].batch =
                    (@ \ {x}) \cup { [ id |-> x.id, result |-> result ] } ]
  /\ outbox' = [ outbox EXCEPT ![x.id].got = IF result = "sent" THEN @ + 1 ELSE @ ]
  /\ UNCHANGED << now, object, stage, rules, crashes >>

\* Mutant: the failed attempt is not counted.
FailedUncounted(note) == [ note EXCEPT !.status = "failed", !.waits = TRUE ]

\* 5, 10 and 20 minutes later, and after the fourth attempt never.
Failed(note) ==
  [ note EXCEPT !.status = "failed", !.tries = @ + 1, !.waits = note.tries + 1 < MaxTries ]

CommitSending(w) ==
  /\ workers[w].at = "sending"
  /\ \A x \in workers[w].batch : x.result # "todo"
  /\ outbox' = [ n \in DOMAIN outbox |->
                   IF [ id |-> n, result |-> "sent" ] \in workers[w].batch
                     THEN [ outbox[n] EXCEPT !.status = "sent", !.waits = FALSE ]
                   ELSE IF [ id |-> n, result |-> "failed" ] \in workers[w].batch
                     THEN Failed(outbox[n])
                   ELSE outbox[n] ]
  /\ workers' = [ workers EXCEPT ![w] = [ at |-> "idle", batch |-> {} ] ]
  /\ UNCHANGED << now, object, stage, rules, crashes >>

\* The request dies before it commits: its rows are unlocked as they were.
Crash(w) ==
  /\ crashes < MaxCrashes
  /\ workers[w].at = "sending"
  /\ crashes' = crashes + 1
  /\ outbox' = [ n \in DOMAIN outbox |->
                   IF [ id |-> n, result |-> "sent" ] \in workers[w].batch
                     THEN [ outbox[n] EXCEPT !.lost = @ + 1 ] ELSE outbox[n] ]
  /\ workers' = [ workers EXCEPT ![w] = [ at |-> "idle", batch |-> {} ] ]
  /\ UNCHANGED << now, object, stage, rules >>

-----------------------------------------------------------------------------
(* Time *)

Tick ==
  /\ now < Horizon
  /\ object.kind # "event"
  /\ now' = now + 1
  /\ UNCHANGED << object, stage, rules, outbox, workers, crashes >>

\* retry_next_at is reached.
RetryFallsDue(n) ==
  /\ outbox[n].waits
  /\ n \notin Claimed
  /\ outbox' = [ outbox EXCEPT ![n].waits = FALSE ]
  /\ UNCHANGED << now, object, stage, rules, workers, crashes >>

-----------------------------------------------------------------------------
Handlers ==
  \/ AcceptNodeAssignment
  \/ RejectNodeAssignment
  \/ \E p \in People : Handover(p) \/ Announce(p)
  \/ \E live \in BOOLEAN : Settle(live)
  \/ \E to \in { "running", "reviewed", "ended" } : Move(to)

Request(w) ==
  \/ LoadDueRules(w)
  \/ CreationConflict(w)
  \/ CreateDueNotifications(w)
  \/ ClaimPending(w)
  \/ \E x \in workers[w].batch, result \in { "sent", "failed" } : CallProvider(w, x, result)
  \/ CommitSending(w)

Retry == \E n \in DOMAIN outbox : RetryFallsDue(n)

Next ==
  \/ Handlers
  \/ ScanReminders
  \/ \E w \in Workers : Request(w) \/ Crash(w)
  \/ Retry
  \/ Tick

\* The scheduler outside the program keeps calling, and time passes.
Fairness ==
  /\ WF_vars(ScanReminders)
  /\ \A w \in Workers : WF_vars(Request(w))
  /\ WF_vars(Retry)
  /\ WF_vars(Tick)

Spec == Init /\ [][Next]_vars /\ Fairness

-----------------------------------------------------------------------------
(* Properties *)

\* However many requests overlap and die, the provider got a notification once for the
\* row that says sent, once for the request that still holds it, and once for each
\* request that died after the call.
DeliveredOnce ==
  \A n \in DOMAIN outbox :
    LET held == { w \in Workers : [ id |-> n, result |-> "sent" ] \in workers[w].batch }
    IN  outbox[n].got =
          outbox[n].lost + Cardinality(held) + (IF outbox[n].status = "sent" THEN 1 ELSE 0)

\* p has something overdue to do.
Owes(p) ==
  \/ /\ object.kind = "node" /\ object.assignment = "accepted" /\ object.live
     /\ stage = "running" /\ object.owner = p /\ Deadline < now
  \/ object.kind = "task" /\ stage = "running" /\ object.owner = p /\ Deadline < now
  \/ object.kind = "issue" /\ stage # "ended" /\ object.live /\ p \in { object.owner, Creator }
  \/ object.kind = "report" /\ stage = "running" /\ object.live /\ object.owner = p /\ Deadline <= now

Told(p) ==
  \E n \in DOMAIN outbox :
    n.to = p /\ n.key[1] \in { "overdue", "issue_blocker", "no_response", "pending_report" }

\* Whoever is left with overdue work is told of it, whatever handovers, reviews and
\* overlapping requests put the rule aside before.
OverdueIsTold == \A p \in People : <>[]Owes(p) => <>Told(p)

Settled(n) == outbox[n].status = "sent" \/ outbox[n].tries = MaxTries

\* Every notification is sent in the end, or tried four times.
EveryNotificationSettles ==
  object.kind \in Sent => <>[](\A n \in DOMAIN outbox : Settled(n))

=============================================================================
