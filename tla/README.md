# Smart Task Board in TLA+

The board is a FastAPI service over PostgreSQL (`src/app`), used by a WeChat
mini-program and a web client. What a person says becomes a draft by AI extraction;
its creator sends it to a main assignee; accepting it starts an AI decomposition; the
result makes the task *effective* and gives it nodes, which the assignee and
collaborators execute; the creator reviews the result and archives it. Reminders go
out meanwhile. These modules model that life of a task, at the level of database
transactions, and prove or check what it promises.

- [System](#system) · [Modules](#modules) · [Runs](#runs) · [Fairness](#fairness)
- [Proofs](#proofs) · [Disagreements found](#disagreements-found)
- [Not modelled](#not-modelled) · [Plan](#plan)

To check one run or one module of proofs:

    tlc -workers 2 -config MCTaskLifecycle.cfg MCTaskLifecycle
    tlapm TaskLifecycleProofs.tla

`PROJECT.json` lists the runs, the source lines of every definition, a mutant
for every property (a plausible bug that makes the run fail) and the hazards
the properties are for.

## System

| Component (`src/app/services/` if not said) | State it keeps | Operations | What must hold |
|---|---|---|---|
| `business_capabilities.py`: AI intake | `task_inputs`, `ai_extraction_records` | register, submit, clarify, retry, confirm | an input is stored once, with the extraction of its submission; a confirmation is answered |
| `task_workflow.py`: creation, sending, lifecycle | `tasks` (status, version, assignee, effective_at), `task_status_logs` | draft, update, submit, send, return, resend, cancel, withdraw, reassign, close, archive, restore, merge | every decision moves the version and is logged; execution rests on an accepted, delivered decomposition |
| `features/task_decomposition/service.py` | `task_decomposition_records` and their projection on the task | accept, retry, execute, complete, fail, invalidate | one attempt in flight; late answers change nothing; a claimed attempt ends |
| `task_node_workflow.py`, `dependency_graph.py` | `task_nodes`, `task_node_dependencies` | start, progress, complete, accept/reject assignment, reopen | work follows an acyclic plan; a node to rework can be reopened |
| `progress_report.py`, `task_issue.py` | `task_progress_reports`, `task_issues` | report, file, move an issue | a blocked task is never stranded |
| `task_workflow.py`: change requests | `task_change_requests` | file, approve, reject, cancel | decided once, on the version they were filed for, while the task is executed |
| `task_workflow.py`: completion | `task_completion_reviews`, `task_archives` | submit, approve, reject | only complete work is reviewed; a review can always be decided |
| `shared/idempotency.py`, `db/unit_of_work.py` | `operation_logs` | look up a key, lock, commit | at most one effect per intention; a copy sent late is not an error; success never stands for an action not taken |
| `business_capabilities.py`: archive snapshots | `task_archives` | archive a task from a snapshot | as for the lifecycle |
| `business_capabilities.py`, `features/notifications/` | `notifications`, `reminder_rules` | schedule, scan, create, claim, send, retry | who is left with overdue work is told; nothing is sent twice without a crash; every notification is sent or given up |
| `authentication.py`, `wecom_authentication.py`, mini-program `utils/api.js` | `auth_refresh_tokens`, the stored session | issue, rotate, revoke, recover | the client never comes with a token it already exchanged; every request ends |
| `task_board_query.py` | none | action menus of a task and a node, inbox | the menu offers what the handlers accept; somebody is always asked |
| `alembic/` | the schema | upgrade, downgrade, review import | every command works on the rows it meets, or names them; legacy reviews are told as they happened |

Components meet in the database only. Every handler of the workflow opens a unit
of work, locks the task row (`SELECT ... FOR UPDATE`), compares `task_version`
with the one the client read, writes, and commits; so handlers on one task are
serialised and each is an atomic action here. The behaviours that are hard are
those outside this rule:

- **execute()** commits, calls the AI provider outside any transaction and settles
  the attempt in a transaction of its own: users may do anything in between, two
  workers may run, and a process may die there. **Intake** calls the provider before
  it stores anything.
- **Idempotency keys** are looked up before the lock.
- **The archive-snapshot endpoint** takes no lock and no version; **confirming an
  extraction** takes no lock on it.
- **Notifications** are sent inside a transaction that may be rolled back.
- **Sessions** are renewed by several requests of one page at a time.
- **The session does not flush before a query** (`autoflush=False`), so a handler
  that asks the database about what it just changed is told the old state.
- **Change requests** do not advance the version when they are filed or rejected.
- **Long sequences** of legal calls: rejections, rework, plan changes, cancellation
  and restore bring rows together that no handler wrote together, and **migrations**
  meet whatever rows there are.

`PROJECT.json` lists each of these under `hazards` with its line.

## Modules

| Module | What it is |
|---|---|
| `TaskIntake` | inputs, extraction rounds and confirmations, by overlapping calls |
| `TaskStatus` | the status column and the sets of statuses that the handlers test |
| `TaskLifecycle` | one task: its row, attempts, provider calls in flight, pending change request, newest review, archive row and status log |
| `ActivationContract` | what decomposition promises: leases, deliveries, effectiveness; `TaskLifecycle` implements it |
| `ActionMenu` | the actions a task page offers, next to the handlers of `TaskLifecycle` |
| `ArchiveEndpoint` | `TaskLifecycle` composed with the archive-snapshot endpoint, whose read and write are two steps |
| `NodeExecution` | one effective task row by row: nodes, edges, assignments, issues, plan changes and review |
| `ExecutionContract` | what execution promises the reviewer; `NodeExecution` implements it |
| `ExecutedTask` | what the handlers of `NodeExecution` write to the task's row, its log and its review; each of their steps is one of `TaskLifecycle` |
| `NodeMenu` | the inbox: what it asks of whom, next to the handlers of `NodeExecution` |
| `PlanGraph`, `DependencyGraph` | what an acyclic plan is, and `validate_dependency_graph` as the algorithm that decides it |
| `OptimisticWrites` | clients, lost and repeated requests, the key lookup and the locked commit |
| `ReminderOutbox` | reminder rules, the scan, due notifications and their delivery |
| `SessionTokens` | the mini-program's session and the server's refresh tokens |
| `SchemaStatements`, `ReviewBackfill`, `SchemaMigrations` | what a DDL statement does, the import of legacy reviews, the ten revisions and the commands that run them |
| `*Proofs` | the theorems |
| `MC*` | constants for TLC |

### TaskIntake

`calls` carries one call per request through its steps: a read of the rows
(`Register`, `SubmitInput`, `Extract`, `Confirm`), the provider, and a transaction
(`CommitInput`, `CommitExtraction`, `CommitDraft`), with other calls in between. All
calls are those of the submitter; others are refused by a comparison with a fixed
column. What the provider says is any set of the critical fields, and what it is told of
earlier rounds does not bind it, so the content of rounds is not kept. `NewId` is
any id not in use: only the existence of a round is read, never the order of ids. A task id that a client names belongs to one extraction.

### TaskLifecycle

`task` is the row of `tasks`; `attempts` the rows of
`task_decomposition_records` in order; `calls` the executions of `execute()`
between their first and last transaction (`calling`, or `failing` once an
exception is on its way to `fail_attempt`). A worker's death removes its call and
leaves the rows. The actions carry the names of the handlers. `Commit` is what
they share: store the row, version + 1, and the status log. A request refused by
a guard, or with a stale version, is a stuttering step, so versions sent by
clients are not enumerated; `OptimisticWrites` is about them. Nodes appear as
`plan` (none, some unfinished, all done) and issues as `issues` (none, an active
blocker, unclosed but none that blocks).

`UnmergeableStatus` and the like keep the code's sets as they are, also where
they look odd. `pending_report` is tested by many handlers and stored by none,
so it is no status.

`task.assignee` may be `Nobody`: a draft names its assignee late, and the draft PATCH may
clear him again, also on a returned task (`MayName`). What reads the participant row of the
assignee (`Assigned`) refuses such a task. One PATCH cannot put one person in another's
place: the new participant is inserted before the old one is deleted, against
`uq_task_participants_one_primary_assignee`. `task.fulfilled` are the reporting periods that
have their report: a second one is refused unless it corrects the first. A task without a
cycle, a node's report and a correction fulfil none (`NoPeriod`).

### ActionMenu and NodeMenu

Both restate the conditions of the menu as `task_board_query.py` writes them and
compare them with what the handlers require. That has a name of its own in the modules of the
handlers (`MayAccept`, `MaySubmit`, ...); what an action says besides are assignments and the
bounds. `OfferIsAccepted` is about every offer but the verdicts on a change request,
which have a run of their own. It names what the menu does not look at (`Premature`): the fields
of a draft that sending asks for, and the assignee that `resend` and `reassign_task` of a
returned task require. An offer to report stands for a report in any period not fulfilled
yet; the menu does not look at the period either. Everywhere else what the menu tests and
what the handlers keep true together imply what the handlers test, the assignee of an offered
or executed task included. The node menu offers more than is accepted: to start and complete to a main
assignee who does not own the node and to a collaborator who has not accepted it.
So of nodes only the other direction is claimed, `SomebodyIsAsked`: of what the inbox
asks, something is always accepted. It assumes `Workable`: a collaborator who neither
accepts nor refuses, or a patch that completes a node at less than 100 percent,
needs another plan first.

### NodeExecution

Begins where `complete_result` ends. `nodes` holds state, progress, owner and
assignment of each node id; an `absent` row is not in the table. `change` is the
pending change request, `stale` once a handler has advanced the version. `rework`
and `reopened` are the node the latest rejection names and whether a
`node_reopened` log refers to it. `cited` are the nodes that issues and reviews
hold foreign keys to, which restrict deletion. `patched` is a history variable.

Abstractions: progress counts to `Full` instead of 100; a change request edits one
node or the set of edges, and does not edit `assignment_status`; a node without
an owner belongs to the main assignee; participants other than the owner name
only further readers or owners and are left out; cancellation, reassignment and
the like end the execution and are left to `TaskLifecycle`.

### ExecutedTask

`TaskLifecycle` sees nodes and issues as `plan` and `issues`; `NodeExecution` sees no version, no
log and of the review only the rework. `ExecutedTask` gives each handler of `NodeExecution` both: it
adds `version`, `base` (the version a change request was written for), `review` and `log`, and what
the handler writes to them. `Board` maps the rows back: `PlanSeen`, `IssuesSeen`, one succeeded
attempt, no call in flight. `StepsOfTheBoard` says that every step is then a step of `TaskLifecycle`
or invisible there. So the guesses of `TaskLifecycle` (a report blocks, settling an issue may
release, completing a node may finish the plan, a rework is owed until it is reopened) are what
the rows do. It starts with what `complete_result` commits, not with a draft, so it is the steps that are
related and not whole behaviours; earlier failed attempts, which execution never reads, are left out.

### OptimisticWrites

An *intention* is what a user decides on a page: to write (a handler that advances
the version), to file a change request, or to approve or reject the pending one.
The page remembers the version it read and sends the intention up to `MaxSends`
times. A request is looked up (`LookUpKey`, unlocked) and later served (`Serve`,
locked and committed); a request that stays in `requests` for ever is lost, and so
is an answer that leaves the page as it was. Keys are equal as the mini-program
builds them: action, object, version. A person files one change request at a time.

A write is a user's action with a payload (`Actions`, `Payloads`), and the payload is not in the
key: an edited report, or another assignee after a time-out, is looked up as a copy of the first.
So `DoneIsApplied` does not say that what was reported done is what was asked for last, which is
false; it says that the same user's same action, on the same object and version, was committed. For a
verdict, or an action without a payload, that is the same.

### ReminderOutbox

`object` is what the rules are about: a task, its report, a node, an issue, or a plain
event. `rules` and `outbox` are the two tables by their unique keys. Time is `now`, three
ticks a day with the business time zone one tick ahead of UTC, because some keys carry the
local day and some the UTC day. `LoadDueRules`, `CreateDueNotifications`,
`ClaimPending`, `CallProvider` and `CommitSending` are the steps of one request, which may
die while it sends. The provider is called inside the transaction: `got` counts what it
received, `lost` what a rolled-back request had sent. The wait of a retry is a flag, the
order by `created_at` is left open, a scan is one step. Issues and events have no deadline, so
they have no `plan`.

### SessionTokens

The client side is `request`, `recoverSession` and their shared promises in
`utils/api.js`; the server side issue, rotate and `revoke_employee`, each up to its lock
and its commit. A renewal that is refused clears the session and fails its request, and
the next request logs in. A request answered with 401 after another has renewed the
session drops the new access token and causes one renewal more than needed.

### SchemaStatements, ReviewBackfill, SchemaMigrations

A schema is a set of objects (tables, references, columns, checks, not-nulls); a
statement needs some to exist or not, refuses some kinds of rows, and adds or removes
objects; a revision is a sequence of statements, and a command runs revisions, statement by
statement (`Migrate`), on its own view of the database and commits or rolls back
(`alembic/env.py`). The application
writes rows between commands. `ReviewBackfill` computes the import of `c31f8e7a4d02` over
every history of a legacy status log. Indexes are left out, but for the unique ones that
an import could meet.

### DependencyGraph

`validate_dependency_graph` is sequential, but walks sets and dicts whose order Python
does not promise: the queue is a set here, and a step visits any node of it, so that
the verdict is shown for every order. `seen` is `seen_edges` and with it `adjacency`,
`at` the place in the list, `rank` a history variable that notes when a node was
visited. `Acyclic` (module `PlanGraph`) is what `NodeExecution` puts in the place of a
call of this function.

### ArchiveEndpoint

`ReadTask` and `WriteArchive` are the SELECTs and the UPDATE of
`ArchiveReuseService.archive_task`; every step of `TaskLifecycle` may come
between. The unique archive row serialises it against `approve_completion` only.

## Runs

| Run | Asks | Instance | Distinct states |
|---|---|---|---|
| `task_lifecycle` | the task with its attempts, change request, review and log; the activation contract; the menu; that a decomposition ends | 2 assignees or nobody, 1 reporting period, versions to 12, 3 attempts | 359,878 |
| `archive_endpoint` | what of it survives the archive-snapshot endpoint | 2 assignees or nobody, 1 reporting period, versions to 11, 2 attempts | about 1.8 million |
| `node_execution` | plan, nodes, issues, changes and review of one task; the execution contract; the inbox | 2 nodes, 1 issue, 2 persons, progress none or full | 869,323 |
| `dependency_graph` | the verdict of the cycle check for every order of its queue, and that it comes | 3 nodes and a foreign one, up to 4 edges | 177,547 |
| `optimistic_writes` | at most one effect, no conflict for what was committed, no success for an action not taken | 1 action with 2 payloads, 1 change request, 1 approval, 1 rejection, two of them sent twice | 2,354,994 |
| `reminder_outbox` | who hears what, and how often | 2 persons, 2 workers of 1 row each, 5 ticks, 1 death | 435,285 |
| `refresh_tokens` | the mini-program's session | 2 requests, 4 tokens, 2 lapses, 1 loss, 1 logout | 101,846 |
| `task_intake` | inputs, rounds and confirmations | 1 input, 2 extractions, 2 requests, 1 critical field, 1 loss | 1,212,352 |
| `schema_migrations` | the ten revisions up and down | review histories of up to 3 versions, 3 kinds of rows that constraints refuse | 313,445 |
| `unflushed_release`, `menu_offers_stale_change`, `change_request_lost` | violations: see [Disagreements found](#disagreements-found) | | |

Every property of a passing run has a mutant in `PROJECT.json`: an edit of one
definition, as a plausible bug would be, under which the same run fails.

Why the bounds are enough:

- **Versions.** The bound stops users, never the system: `Settle` commits a result past it.
  Eleven versions lead from a draft through a rejected review, or through a cancellation and
  a restore, to a second acceptance. Three attempts are a failed one, an invalidated one and
  a running one at once.
- **Assignees** are compared for equality only, so the second one is every other person.
  There is no symmetry in `task_lifecycle`, which checks liveness.
- **One period** is fulfilled or not, and a report outside any period (`NoPeriod`) is always
  there; which day is in which period does not matter to the handlers.
- **Two nodes** make every situation of an edge, of its end points and of a rework;
  **three**, in `dependency_graph`, a cycle entered from outside and one that two
  predecessors lead to. `DecidesAcyclicity` is proved for every number.
- **Two copies** of a request give every overlap of a lookup and a commit: a third
  copy finds what the second found. Two payloads are the first and the edited one, an approval
  is a write under another key. At most two intentions are sent again in one behaviour
  (`MaxRetried`): what can collide, two payloads, two verdicts, or a write and a verdict, is a pair.
  The theorems have no such bounds.
- **Five ticks** are a day and two thirds, in two calendars that change day a tick
  apart: a deadline passes, its day ends in each calendar, and the next day's rule comes.
  Requests overlap for issues (several recipients) and events; other objects have one
  row at a time. Batches of one row make every other row one that somebody else may claim.
- **Two requests** are the one that renews a session and the one that waits for it, or
  comes late. **Four tokens** are a login, two rotations and a second login.
- **Two extractions** are the first and one that is newer when the first is confirmed.
- **Three versions** of a completion review are those that a predecessor, the row and a
  successor need; every list of log rows over them is tried.

`CHECK_DEADLOCK FALSE` everywhere, because every system here rightly stops: a task is
archived or at the bound, a function has returned, all requests were answered.

## Fairness

Nothing a person does is fair, except where this list says so.

- `TaskLifecycle` (`DecompositionEnds`): calls in flight go on, because the provider call has a
  timeout (`src/app/ai/providers.py:207`) and the rest is the handler's own code. A worker may
  die at any time, and nothing in the program looks for an attempt left behind; the property
  says "unless it died".
- `DependencyGraph` (`GetsVerdict`): the function goes on.
- `ReminderOutbox`: time passes, and a scheduler keeps calling the scan, the creation and the
  sending. **This is an assumption on the deployment**: no code of the repository calls the
  three routes (`src/app/api/v1/business.py:517-533`).
- `SessionTokens` (`EveryRequestEnds`): the page's event loop, the server and the database go on; not
  logouts, lapses or losses.
- `TaskIntake` (`ConfirmationIsAnswered`): servers answer, and the person who got no answer asks
  again. Without that last assumption the property would be about a person who gave up.

## Proofs

`tlapm` checks all of these, for every value of the constants that satisfies the named
assumptions of the modules (the sets of persons, nodes and requests are any sets, a version bound
is a natural number).

**`TaskLifecycleProofs`.** The safety properties are not inductive: that a late answer changes
nothing needs that no attempt older than the newest is active; that needs that a call in flight
belongs to an attempt claimed at a version not later than the task's; and that a task in execution
is effective, has a plan and its assignee. `AssigneeInv` adds that somebody is named from the moment a
task is offered: what may clear the assignee is left behind by then, or refused. `CoreInv` is the conjunction of these, as far as no
write of the row can break them; `IInv` adds what rests on the locks: that a pending change request on the
current version means execution, and that only a merge leaves an attempt behind. `UserStepKinds`
groups the forty handlers by what they change of the attempts, so that each part is
proved for a few groups and not for forty actions. From it: `TypeCorrect`, `DecompositionIsServed`,
`EffectRestsOnDelivery`, `ChangeIsDecidedInExecution`, `ExecutionRestsOnDelivery`,
`LateAnswersChangeNothing`, and `KeepsActivationContract`: `TaskLifecycle` implements
`ActivationContract`.

- *Review.* A round that is submitted or approved, and an archive row, stand on finished work in
  a status from which no handler leads back to work (`RoundInv`). Hence `ReviewCanBeDecided`.
- *The menu.* `MenuIsHonest` takes what these invariants say of each status that the menu looks at, and
  finds the handler's requirement in it, but for the exceptions that `OfferIsAccepted` names. That
  `accept` and `return` are accepted rests on `AssigneeInv`, and that on the refusals of a task
  whose assignee was cleared.
- *Versions and nodes.* `EveryDecisionIsVisible`; and, because every call under way belongs to a claimed
  attempt, `NodesComeFromDelivery`.
- *The archive-snapshot endpoint.* Its stale write takes the task to `archived` under any version and leaves
  the other tables alone. `CoreInv` survives that, `IInv` does not. Hence what the endpoint
  does not break (`EndpointKeepsExecution`, `EndpointKeepsAnswers`, `EndpointKeepsDelivery`), and
  `EndpointKeepsContract`: with the endpoint in use the task still implements `ActivationContract`.

**`OptimisticWritesProofs`.** A row of `operation_logs` that advanced the version carries one less
than a later version of its object, and a second copy of a request therefore fails the comparison,
unless it is a change request, which is refused because one is pending. And every row says what its
page asked for, so that a key that is found belongs to an intention of the same action, object and version. This invariant gives
`EffectIsUnique`, `SuccessIsReal`, `ResendSucceeds`, `ApprovalOnBase` and `TypeCorrect`, for any number of users, payloads, requests and copies.

**`NodeExecutionProofs`.** `IInv` adds to the checked invariants that a pending change request at the
current version exists only while the task is executed, and that the review that sent work back still names a
node that exists. From it: only complete work is reviewed, work starts in order of the edges, edges
stay acyclic, a blocked task has an issue to move, and the implementation of
`ExecutionContract`. `WorkIsNeverStuck`: an unfinished plan has, because its edges are acyclic, an
unfinished node of least rank; nothing precedes it that is unfinished, so its owner is asked for a step that the
handler accepts. A finished plan is asked to be submitted, unless a rework or an issue is open, which
somebody is asked for.

- *The board.* `ExecutionStepsOnBoard`: handler by handler, the steps of `ExecutedTask` are steps of
  `TaskLifecycle` (`StepsOfTheBoard`). `BoardInv` adds to `IInv` that the latest review owes a rework exactly
  when the rows do, that a review under decision is at the task's version, and that a current change
  request is based on it. The board decides from `issues` alone whether settling an issue releases the task;
  `IssuesAfterTransition` shows that this is the verdict of the query in the code. No standing run asks this:
  TLC found no violation for one node and one issue to version 13 (1.2 million states), and none in the
  first 5 million states for two nodes, before the proof was begun.

**`SessionTokensProofs`.** One renewal at most is under way; a renewal carries the client's
refresh token, which is unspent unless that renewal has rotated it; and the token a renewal brings
back is new. `SpentTokensAreNeverUsed` follows for any number of requests, lapses, losses and logouts.

**`TaskIntakeProofs`.** The row of an input and the first row of its extractions come in one commit, which the
primary key of the input admits once: hence `SubmissionsAreStoredOnce`.

**`ReminderOutboxProofs`.** A row that a request has locked was not sent, is locked by nobody else, and appears
in that request's batch once; `got` is then `lost` plus one for a committed or a held delivery. Hence
`DeliveriesAreCounted`, for any number of people, requests, rows, failures and deaths.

**`SchemaMigrationsProofs`.** `PreflightSuffices` and `PreflightTells` are about the SQL of the import alone:
for a log of any length that the preflight accepts, the rows it makes violate no constraint, have
consecutive rounds and tell of the decisions as they were made. `IInv` says at which statement of
which revision the table of reviews exists and is filled; the other 80 statements are sorted by their
form, and leave the reviews, the log and the status alone. Hence `LegacyReviewsAreTold` for any sequence of
commands, failures and deaths.

- *The schema.* Along the upgrades the 28 tables are a stack: each is created on those it refers to
  (`CreationOrder`), so that the objects of the lowest `k` tables are `Stack(k)`, and the table on top can be
  dropped because none below it refers to it. Columns, checks and the references between a task and its attempts,
  which point both ways, are extras that belong to a table of the stack and come and go by themselves. `UpPaths`
  and `DownPaths` give the schema before and after each statement; `UpsFollow` and `DownsFollow` show that every
  statement goes from its schema to the next, and `UpsLead` and `DownsLead` that a downgrade ends at the schema
  its upgrade began at.
- *The rows.* What a schema refuses depends on its history: the way back from revision 9 asks for node reminders only
  because none can be there before. `Fitting` says from which revision on a kind of row may be there, and
  `UpsFollow` and `DownsFollow` also show that no script constrains rows without looking for them first.
- `SInv` says that the database and the command are where these paths say, with rows that fit. It is inductive
  together with `IInv`, which knows that the preflight has let the log through when the import runs. TLC,
  asked for both with histories of up to 2 versions (46,497 states), finds no violation. `BuiltIs` evaluates
  the reference definition `Built`, the upgrades run on an empty database, to the same schemas. Hence
  `MigrationsAlwaysWork`: `SchemaOfRevision`, `FailsOverRowsOnly` and `RowsFit` for any kinds of rows, histories and
  commands. For this proof `Run` is a recursive function: what a fold makes of a sequence is
  out of the provers' reach.

**`DependencyGraphProofs`.** In-degrees count the predecessors not visited yet, `visited` counts the
visited, the queue holds the unvisited nodes without predecessors, and `rank` climbs along every edge.
When the queue is empty and not everything was visited, every node left has a predecessor that is left, so no
ranking exists; otherwise `rank` is one. Hence `VerdictIsAcyclicity`: `Acyclic`, which `NodeExecution` uses
for a call of this function, rests on the function's code. `VerdictComesInTime` bounds the call: `StepsLeft`
starts at the edges and nodes of the plan plus two, every step lowers it, and it is never negative. What of
`GetsVerdict` is left to TLC is that a step can be taken as long as there is no verdict.

Every safety invariant and action property that a run checks is stated by a theorem. Model-checked only is
liveness (`DecompositionEnds`, `GetsVerdict`, `OverdueIsTold`, `EveryNotificationSettles`, `EveryRequestEnds`,
`ConfirmationIsAnswered`): it rests on fairness and ENABLED, which these provers do not treat.

## Disagreements found

With a run that shows it:

- `unflushed_release`: solving the last blocker leaves the task blocked
  (`src/app/services/task_issue.py:190`), where `docs/DEVELOPMENT_PLAN_V1.1.md:841` has the status
  follow.
- `menu_offers_stale_change`: the menu offers verdicts on a change request that every handler
  refuses, where `docs/FEATURE_16_TEST9_RELEASE_CANDIDATE_REPORT.md:65` promises what the user can do
  now. While such a request is pending no new one can be filed; only a lifecycle
  action ends it.
- `change_request_lost`: the second change request after a rejection is answered with success and
  not stored (`src/wechat-miniprogram/utils/api.js:578`), where
  `wechat-miniprogram/FEATURE_10_ACCEPTANCE.md:14` excludes false success.

Met while reading, without a run of their own:

- *The menu.* The draft PATCH clears the assignee of a returned task (`task_workflow.py:2149`), and the menu
  goes on offering `resend` and `reassign_task`, which the handlers refuse (`task_workflow.py:252-262`,
  1617); it offers `submit_progress_report` in a period that is fulfilled (`progress_report.py:146`). Both are against
  `docs/FEATURE_16_TEST9_RELEASE_CANDIDATE_REPORT.md:65` again.
- *The draft.* Replacing the assignee in one PATCH violates `uq_task_participants_one_primary_assignee`
  (`task_workflow.py:2160-2173`: the deletion is not flushed before the insertion).
- *Keys.* A report that is edited after a time-out, or another assignee chosen then, has the key of the first
  (`utils/api.js:574`, 584), and no payload is compared (`idempotency.py:27-36`): if the first was committed, the
  page shows success and the edit is lost, against `FEATURE_10_ACCEPTANCE.md:14` again.
- *Keys.* Two copies of a change request that overlap are kept apart by the pending row and not by the
  key (`docs/ACCEPTANCE_STANDARDS.md`). A draft posted by the mini-program ignores its
  `Idempotency-Key`: the repeat after a lost reply is refused with 422 for ever.
- *Archive snapshot.* The endpoint takes no lock and writes no `task_status_logs`, so `DecisionsAreVisible` does not hold of it.
- *Nodes.* A node given to somebody else keeps its assignment status, so a new owner is never asked
  (`_apply_task_plan`, `task_workflow.py:3128-3165`; `docs/FEATURE_13_ACCEPTANCE.md`) and gets
  rules before he accepts. A node with reminder rules cannot be deleted (`RESTRICT`). Changed times do not
  move the rules of a node. A restored task that has nodes can never be sent again
  (`task_workflow.py:300-303`), though the menu offers it.
- *Reminders.* The scan looks for a status `pending_accept`, which no task has
  (`business_capabilities.py:2931`). "Due today" compares UTC days and its key carries the local day
  (3106-3112). Two overlapping requests with a scan between them can make two notifications of one
  rule. `send_pending` does not ask again whether a notification still matters. The overdue rule of
  a node that changed hands stays with its old owner for that day. `reminder_rule_id` is read before the
  flush and is NULL (`features/notifications/rules.py:230`).
- *Intake.* Two overlapping confirmations of one extraction can make two drafts, as neither locks it
  (`task_workflow.py:2092`, "idempotent" at `business.py:338`). The "latest" extraction of rows of
  equal time is decided by a random id.
- *Sessions.* A renewal whose reply arrives after a logout restores the session, and a rotation that overlaps
  `revoke_employee` survives it (`docs/FEATURE_16_REAL_WECOM_E2E.md:68`).
- *Migrations.* Downgrades drop tables with business records without asking, except that of the reviews
  (`docs/DEVELOPMENT_PLAN_V1.1.md:917`). `f8a1b2c3d4e5` does not fill `effective_at` for tasks
  already in execution.

## Not modelled

- **The days of a report period and corrections** (`progress_report.py`): `TaskLifecycle` knows only
  whether a period is fulfilled; which it is is calendar arithmetic, and the chain of corrections is read by no
  other component.
- **Merging two tasks** is modelled for the source only. Its target, and the order in which
  two merges lock their rows (they sort the ids), are not.
- **Planning analytics, matching, scoring, dashboard**: pure reads and sums, in floating point.
- **System parameters, authorised scopes, employee profiles**: upserts of single rows.
- **Queries** other than the menus and the inbox: projections that change nothing. **Archive search and copy** only read
  other tasks.
- **Routes, schemas, configuration**: one call of one service each.
- **The web client's token store, the revocation of one token, the WeCom cache, the prototype login**.
- **The chat cloud function**: a service of its own in front of task creation.
- **Scripts and deployment**: run by hand. That old containers serve while an upgrade runs is a hazard
  that no module covers.
- **Access rights** appear where a handler's outcome depends on who calls (assignee, creator, node
  owner); the rest are comparisons with fixed columns.

## Plan

Done: the lifecycle with its contract and menu, optimistic writes, the archive endpoint,
nodes with their contract and inbox, the graph check, intake, reminders, sessions and
migrations. What is left, in this order:

1. `TaskMerge`: two tasks, two merges and the handlers of the target.
2. `ReportPeriod`: the period of an instant in a time zone against a definition by days.
