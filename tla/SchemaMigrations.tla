-------------------------- MODULE SchemaMigrations --------------------------
(***************************************************************************)
(* The ten Alembic revisions and the commands that run them, over a        *)
(* database with rows in it.                                               *)
(*                                                                         *)
(* alembic/env.py wraps a whole command, of however many revisions, in one *)
(* transaction, and PostgreSQL rolls DDL back with it: a command that      *)
(* fails or is killed leaves the database it found.                        *)
(***************************************************************************)
EXTENDS Integers, SchemaStatements

CONSTANT Watched   \* bound: the kinds of rows the application writes

ASSUME WatchedAreKinds == Watched \subseteq Kinds

VARIABLES
  db,      \* the committed database, with the revision in alembic_version
  command  \* the command running: its direction, its target and its view of the database

vars == << db, command >>

-----------------------------------------------------------------------------
(* 17f69ea12754: initial schema *)

Departments          == Create("departments", { "departments" })
Users                == Create("users", { "departments", "users" })
TaskInputs           == Create("task_inputs", { "users" })
Tasks                == Create("tasks", { "departments", "tasks", "users" })
AiExtractionRecords  == Create("ai_extraction_records", { "task_inputs", "tasks" })
TaskNodes            == Create("task_nodes", { "tasks", "users" })
TaskParticipants     == Create("task_participants", { "tasks", "users" })
TaskStatusLogs       == Create("task_status_logs", { "tasks", "users" })
TaskNodeDependencies == Create("task_node_dependencies", { "task_nodes", "tasks" })
TaskNodeParticipants == Create("task_node_participants", { "task_nodes", "tasks", "users" })

UpInitial ==
  << Departments, Users, TaskInputs, Tasks, AiExtractionRecords, TaskNodes, TaskParticipants,
     TaskStatusLogs, TaskNodeDependencies, TaskNodeParticipants >>

DownInitial ==
  << DropTable("task_node_participants"), DropTable("task_node_dependencies"),
     DropTable("task_status_logs"), DropTable("task_participants"), DropTable("task_nodes"),
     DropTable("ai_extraction_records"), DropTable("tasks"), DropTable("task_inputs"),
     DropTable("users"), DropTable("departments") >>

\* 576787492bd1: progress reports and issues.
ReportCyclePreflight == RefuseIf({ "free_cycles" })
ReportCycleFormat    == AddCheck("tasks", "report_cycle_format", { "free_cycles" })
TaskProgressReports  ==
  Create("task_progress_reports", { "task_nodes", "task_progress_reports", "tasks", "users" })
TaskIssues           ==
  Create("task_issues", { "task_nodes", "task_progress_reports", "tasks", "users" })

UpReports   == << ReportCyclePreflight, ReportCycleFormat, TaskProgressReports, TaskIssues >>
DownReports ==
  << DropTable("task_issues"), DropTable("task_progress_reports"),
     DropCheck("tasks", "report_cycle_format") >>

\* c31f8e7a4d02: completion reviews.
TaskCompletionReviews == Create("task_completion_reviews", { "task_nodes", "tasks", "users" })

UpReviews   == << Preflight, TaskCompletionReviews, ImportReviews >>
DownReviews == << KeepReviews, DropTable("task_completion_reviews") >>

\* d4a8e53b7c19: change requests.
TaskChangeRequests == Create("task_change_requests", { "tasks", "users" })

UpChanges   == << TaskChangeRequests >>
DownChanges == << DropTable("task_change_requests") >>

-----------------------------------------------------------------------------
(* e6f1a2b3c4d5: the remaining business tables *)

EmployeeProfiles       == Create("employee_profiles", { "users" })
PerformanceMetrics     == Create("performance_metrics", {})
TaskPerformanceMatches ==
  Create("task_performance_matches", { "performance_metrics", "tasks", "users" })
WorkloadSnapshots      == Create("workload_snapshots", { "users" })
TaskPriorityScores     == Create("task_priority_scores", { "tasks" })
TaskConflicts          == Create("task_conflicts", { "task_nodes", "tasks", "users" })
ReminderRules          ==
  Create("reminder_rules", { "task_issues", "task_nodes", "tasks", "users" })
ReminderTypes          == AddCheck("reminder_rules", "task reminder types", {})
Notifications          ==
  Create("notifications", { "reminder_rules", "task_issues", "tasks", "users" })
TaskArchives           == Create("task_archives", { "tasks", "users" })
SnapshotRequired       ==
  Alter({ Table("task_archives") }, { NotNull("task_archives", "archive_snapshot") }, {}, {})
OperationLogs          == Create("operation_logs", { "users" })
UserAuthorizedScopes   == Create("user_authorized_scopes", { "users" })
SystemParameters       == Create("system_parameters", { "users" })

UpBusiness ==
  << EmployeeProfiles, PerformanceMetrics, TaskPerformanceMatches, WorkloadSnapshots,
     TaskPriorityScores, TaskConflicts, ReminderRules, ReminderTypes, Notifications,
     TaskArchives, SnapshotRequired, OperationLogs, UserAuthorizedScopes, SystemParameters >>

\* Mutant: the rules are dropped before the notifications that refer to them.
DownBusinessRulesFirst ==
  << DropTable("system_parameters"), DropTable("user_authorized_scopes"),
     DropTable("operation_logs"), DropTable("task_archives"), DropTable("reminder_rules"),
     DropTable("notifications"), DropTable("task_conflicts"),
     DropTable("task_priority_scores"), DropTable("workload_snapshots"),
     DropTable("task_performance_matches"), DropTable("performance_metrics"),
     DropTable("employee_profiles") >>

DownBusiness ==
  << DropTable("system_parameters"), DropTable("user_authorized_scopes"),
     DropTable("operation_logs"), DropTable("task_archives"), DropTable("notifications"),
     DropTable("reminder_rules"), DropTable("task_conflicts"),
     DropTable("task_priority_scores"), DropTable("workload_snapshots"),
     DropTable("task_performance_matches"), DropTable("performance_metrics"),
     DropTable("employee_profiles") >>

-----------------------------------------------------------------------------
(* f7b8c9d0e1f2 to c2d3e4f5a6b7 *)

\* f7b8c9d0e1f2: refresh tokens.
AuthRefreshTokens == Create("auth_refresh_tokens", { "auth_refresh_tokens", "users" })

UpTokens   == << AuthRefreshTokens >>
DownTokens == << DropTable("auth_refresh_tokens") >>

\* f8a1b2c3d4e5: the decomposition lifecycle; tasks and attempts refer to each other.
TaskDecompositionRecords == Create("task_decomposition_records", { "tasks", "users" })
DecomposedTask           == { "effective_at", "decomposition_status", "latest_decomposition_id" }
DecomposedNode           == { "decomposition_id", "source_type", "blocked_reason" }

UpDecomposition ==
  << TaskDecompositionRecords,
     AddColumns("tasks", DecomposedTask),
     AddReference("tasks", "task_decomposition_records"),
     AddColumns("task_nodes", DecomposedNode),
     AddReference("task_nodes", "task_decomposition_records") >>

DownDecomposition ==
  << DropReference("task_nodes", "task_decomposition_records"),
     DropColumns("task_nodes", DecomposedNode),
     DropReference("tasks", "task_decomposition_records"),
     DropColumns("tasks", DecomposedTask),
     DropTable("task_decomposition_records") >>

\* a9c4e7f1b2d3: archives may go without a snapshot; the way back writes an empty one.
UpArchives   == << Alter({}, {}, { NotNull("task_archives", "archive_snapshot") }, {}) >>
DownArchives ==
  << Rewrite("bare_archives", "archives"),
     Alter({}, { NotNull("task_archives", "archive_snapshot") }, {}, { "bare_archives" }) >>

\* b1c2d3e4f5a6: node assignments and the reminders of nodes.
AssignedNode == { "assignment_status", "assignment_responded_at", "assignment_reject_reason" }

UpAssignments ==
  << AddColumns("task_nodes", AssignedNode),
     AddCheck("task_nodes", "assignment_status", {}),
     DropCheck("reminder_rules", "task reminder types"),
     AddCheck("reminder_rules", "task and node reminder types", {}) >>

DownAssignments ==
  << DropCheck("reminder_rules", "task and node reminder types"),
     AddCheck("reminder_rules", "task reminder types", { "node_reminders" }),
     DropCheck("task_nodes", "assignment_status"),
     DropColumns("task_nodes", AssignedNode) >>

\* c2d3e4f5a6b7: the external id of a department.
UpDepartments   == << AddColumns("departments", { "wecom_department_id" }) >>
DownDepartments == << DropColumns("departments", { "wecom_department_id" }) >>

-----------------------------------------------------------------------------
(* The chain of revisions *)

Upgrades ==
  << UpInitial, UpReports, UpReviews, UpChanges, UpBusiness, UpTokens, UpDecomposition,
     UpArchives, UpAssignments, UpDepartments >>

Downgrades ==
  << DownInitial, DownReports, DownReviews, DownChanges, DownBusiness, DownTokens,
     DownDecomposition, DownArchives, DownAssignments, DownDepartments >>

Newest == Len(Upgrades)
Revisions == 0..Newest

\* A database before its first revision.
Empty == [ schema |-> {}, rows |-> {}, status |-> "in_progress",
           log |-> NoHistory, reviews |-> {}, outcome |-> "ok" ]

-----------------------------------------------------------------------------
(* Commands and the application *)

Idle == [ direction |-> "none" ]

Init ==
  /\ db = [ revision |-> 0, state |-> Empty ]
  /\ command = Idle

\* alembic upgrade, alembic downgrade
Begin(direction, target) ==
  /\ command = Idle
  /\ IF direction = "up" THEN target > db.revision ELSE target < db.revision
  /\ command' = [ direction |-> direction, target |-> target, revision |-> db.revision,
                  next |-> 1, state |-> db.state ]
  /\ UNCHANGED db

\* The statements of the revision that the command is at.
Script ==
  IF command.direction = "up" THEN Upgrades[command.revision + 1]
                              ELSE Downgrades[command.revision]

\* One statement inside the transaction; the last of a revision goes on to the next one.
Migrate ==
  /\ command # Idle
  /\ command.revision # command.target
  /\ command.state.outcome = "ok"
  /\ LET done == Execute(command.state, Script[command.next])
         step == IF command.direction = "up" THEN 1 ELSE -1
     IN  command' = IF command.next < Len(Script)
                      THEN [ command EXCEPT !.next = @ + 1, !.state = done ]
                      ELSE [ command EXCEPT !.next = 1, !.state = done, !.revision = @ + step ]
  /\ UNCHANGED db

CommitCommand ==
  /\ command # Idle
  /\ command.revision = command.target
  /\ command.state.outcome = "ok"
  /\ db' = [ revision |-> command.revision, state |-> command.state ]
  /\ command' = Idle

\* Mutant: no transaction around the command, so that what was executed stays.
StayHalfway ==
  /\ command # Idle
  /\ db' = [ revision |-> command.revision, state |-> command.state ]
  /\ command' = Idle

\* A statement failed, or the process that runs the command died.
Rollback ==
  /\ command # Idle
  /\ command' = Idle
  /\ UNCHANGED db

\* The application of the present revision writes a row, as far as the schema lets it.
Storable(k) ==
  /\ Table(TableOf[k]) \in db.state.schema
  /\ k = "free_cycles" => Check("tasks", "report_cycle_format") \notin db.state.schema
  /\ k = "bare_archives" => NotNull("task_archives", "archive_snapshot") \notin db.state.schema
  /\ k = "node_reminders" =>
       Check("reminder_rules", "task and node reminder types") \in db.state.schema

Write(k) ==
  /\ command = Idle
  /\ Storable(k)
  /\ db' = [ db EXCEPT !.state.rows = @ \cup {k} ]
  /\ UNCHANGED command

\* Before reviews had a table, a task was submitted and approved in the log only.
WriteHistory(status, h) ==
  /\ command = Idle
  /\ Table("task_status_logs") \in db.state.schema
  /\ Table("task_completion_reviews") \notin db.state.schema
  /\ db.state.log = NoHistory
  /\ db' = [ db EXCEPT !.state.status = status, !.state.log = h ]
  /\ UNCHANGED command

Next ==
  \/ \E r \in Revisions : Begin("up", r) \/ Begin("down", r)
  \/ Migrate
  \/ CommitCommand
  \/ Rollback
  \/ \E k \in Watched : Write(k)
  \/ \E s \in { "in_progress", "pending_review", "completed" }, h \in Histories : WriteHistory(s, h)

Spec == Init /\ [][Next]_vars

-----------------------------------------------------------------------------
(* Properties *)

TypeOK ==
  /\ db.revision \in Revisions
  /\ db.state.rows \subseteq Kinds
  /\ db.state.outcome = "ok"
  /\ \A o \in db.state.schema : o[1] \in { "table", "reference", "column", "check", "not null" }
  /\ command # Idle =>
       /\ command.revision \in Revisions /\ command.target \in Revisions
       /\ command.state.outcome \in { "ok", "refused", "broken" }

\* What an empty database becomes after so many revisions.
Built[r \in Revisions] == IF r = 0 THEN Empty ELSE Run(Built[r - 1], Upgrades[r])

\* However commands go up and down, fail and die, the schema is that of its revision, as
\* an empty database gets it: every downgrade takes back what its upgrade did.
SchemaOfRevision == db.state.schema = Built[db.revision].schema

\* A command fails over rows, when a preflight or a constraint names them, and never over
\* its own statements: tables are created after and dropped before those they refer to,
\* and what the preflight lets through fits the table of reviews.
FailsOverRowsOnly == command # Idle => command.state.outcome # "broken"

\* No row is left that the schema would not take.
RowsFit == \A k \in db.state.rows : Storable(k)

\* Upgrades and downgrades work on a database with rows in it.
MigrationsWork == SchemaOfRevision /\ FailsOverRowsOnly /\ RowsFit

\* The imported rounds tell what happened to the task.
HistoryIsImported == TellsHistory(db.state.status, db.state.reviews)

\* A task that waits for review, or was completed, at the upgrade has its reviews after it.
ReviewsAreImported ==
  /\ HistoryIsImported
  /\ /\ db.state.status \in { "pending_review", "completed" }
     /\ Table("task_completion_reviews") \in db.state.schema
     => db.state.reviews # {}

=============================================================================
