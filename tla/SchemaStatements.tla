-------------------------- MODULE SchemaStatements --------------------------
(***************************************************************************)
(* What the migrations ask of PostgreSQL: a schema is a set of objects, a  *)
(* statement changes it or fails, because of the schema or of the rows.    *)
(***************************************************************************)
EXTENDS Sequences, ReviewBackfill

\* The objects of a schema.  The second component is the table they belong to.
Table(t)        == << "table", t >>
Reference(t, u) == << "reference", t, u >>
Column(t, c)    == << "column", t, c >>
Check(t, c)     == << "check", t, c >>
NotNull(t, c)   == << "not null", t, c >>

\* The tables that rows of a kind the migrations care about are stored in.
TableOf ==
  [ free_cycles     |-> "tasks",                       \* report_cycle in no known format
    progress        |-> "task_progress_reports",
    reviews         |-> "task_completion_reviews",     \* written by the application
    change_requests |-> "task_change_requests",
    node_reminders  |-> "reminder_rules",              \* of types node_start, node_due
    archives        |-> "task_archives",               \* with their snapshot
    bare_archives   |-> "task_archives",               \* without one
    operation_logs  |-> "operation_logs",
    decompositions  |-> "task_decomposition_records" ]

Kinds == DOMAIN TableOf

-----------------------------------------------------------------------------
(* Statements *)

\* What it needs, adds and takes away, and the kinds of rows it fails on.
Alter(needs, adds, takes, bars) ==
  [ does |-> "alter", needs |-> needs, adds |-> adds, takes |-> takes, bars |-> bars ]

Create(t, refs) ==
  Alter({ Table(u) : u \in refs \ {t} }, { Table(t) } \cup { Reference(t, u) : u \in refs },
        {}, {})

DropTable(t) == [ does |-> "drop", table |-> t ]

AddColumns(t, cols)  == Alter({ Table(t) }, { Column(t, c) : c \in cols }, {}, {})
DropColumns(t, cols) == Alter({}, {}, { Column(t, c) : c \in cols }, {})
AddReference(t, u)   == Alter({ Table(t), Table(u) }, { Reference(t, u) }, {}, {})
DropReference(t, u)  == Alter({}, {}, { Reference(t, u) }, {})
AddCheck(t, c, bars) == Alter({ Table(t) }, { Check(t, c) }, {}, bars)
DropCheck(t, c)      == Alter({}, {}, { Check(t, c) }, {})

\* RAISE EXCEPTION when such rows exist.
RefuseIf(bars) == Alter({}, {}, {}, bars)

\* UPDATE
Rewrite(from, to) == [ does |-> "rewrite", from |-> from, to |-> to ]

Preflight     == [ does |-> "preflight" ]
ImportReviews == [ does |-> "import" ]
KeepReviews   == [ does |-> "keep" ]

-----------------------------------------------------------------------------
(* Execution: on a state of the transaction, which is "ok" until something fails *)

Broken(st)  == [ st EXCEPT !.outcome = "broken" ]
Refusal(st) == [ st EXCEPT !.outcome = "refused" ]

ExecuteAlter(st, s) ==
  IF ~(s.needs \cup s.takes \subseteq st.schema) \/ s.adds \cap st.schema # {}
    THEN Broken(st)
  ELSE IF s.bars \cap st.rows # {}
    THEN Refusal(st)
  ELSE [ st EXCEPT !.schema = (@ \ s.takes) \cup s.adds ]

\* A table goes with its rows and all that belongs to it; no other may refer to it.
ExecuteDrop(st, s) ==
  IF \/ Table(s.table) \notin st.schema
     \/ \E o \in st.schema : o[1] = "reference" /\ o[3] = s.table /\ o[2] # s.table
    THEN Broken(st)
    ELSE [ st EXCEPT !.schema  = { o \in @ : o[2] # s.table },
                     !.rows    = { k \in @ : TableOf[k] # s.table },
                     !.reviews = IF s.table = "task_completion_reviews" THEN {} ELSE @,
                     !.log     = IF s.table = "task_status_logs" THEN NoHistory ELSE @,
                     !.status  = IF s.table = "tasks" THEN "in_progress" ELSE @ ]

ExecuteRewrite(st, s) ==
  IF s.from \in st.rows THEN [ st EXCEPT !.rows = (@ \ {s.from}) \cup {s.to} ] ELSE st

\* The import fails as a statement when a row violates a constraint of its table.
ExecuteImport(st) ==
  IF Admissible(Backfill(st.log)) THEN [ st EXCEPT !.reviews = Backfill(st.log) ] ELSE Broken(st)

Execute(st, s) ==
  IF st.outcome # "ok" THEN st ELSE
  CASE s.does = "alter"     -> ExecuteAlter(st, s)
    [] s.does = "drop"      -> ExecuteDrop(st, s)
    [] s.does = "rewrite"   -> ExecuteRewrite(st, s)
    [] s.does = "preflight" -> IF Refused(st.status, st.log) THEN Refusal(st) ELSE st
    [] s.does = "import"    -> ExecuteImport(st)
    [] s.does = "keep"      ->
         IF st.reviews # {} \/ "reviews" \in st.rows THEN Refusal(st) ELSE st

\* What a script makes of a state.
Run(st, statements) ==
  LET after[n \in 0..Len(statements)] ==
        IF n = 0 THEN st ELSE Execute(after[n - 1], statements[n])
  IN  after[Len(statements)]

=============================================================================
