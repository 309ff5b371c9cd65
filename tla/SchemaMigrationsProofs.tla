----------------------- MODULE SchemaMigrationsProofs ------------------------
(***************************************************************************)
(* What the import of legacy reviews does to a task, for histories of any  *)
(* length, and how the migrations around it leave it alone; and that the   *)
(* migrations work: along the upgrades the tables are a stack, to which    *)
(* the downgrades are the way back.                                        *)
(***************************************************************************)
EXTENDS SchemaMigrations, FiniteSetTheorems, NaturalsInduction, TLAPS

-----------------------------------------------------------------------------
(* Least and greatest submissions *)

LEMMA LeastVersion ==
  ASSUME NEW T \in SUBSET Nat, T # {}
  PROVE  Min(T) \in T /\ \A y \in T : Min(T) <= y
<1> DEFINE R == OpToRel(<, Nat)
<1>1. IsWellFoundedOn(R, Nat)
  BY NatLessThanWellFounded
<1>2. PICK x \in T : \A y \in T : ~ (<< y, x >> \in R)
  BY <1>1, WFMin
<1>3. \A y \in T : ~(y < x)
  BY <1>2 DEF OpToRel
<1>4. \A y \in T : x <= y
  BY <1>3
<1> QED
  BY <1>4 DEF Min

LEMMA SubmissionsAreFinite ==
  ASSUME NEW h
  PROVE  /\ Submitted(h) \in SUBSET Nat
         /\ IsFiniteSet(Submitted(h))
         /\ Cardinality(Submitted(h)) \in Nat
<1>1. Versions \in SUBSET Nat /\ IsFiniteSet(Versions)
  BY BoundIsNatural, FS_Interval DEF Versions
<1> QED
  BY <1>1, FS_Subset, FS_CardinalityType DEF Submitted

\* row_number(): how many submissions there were up to this one.
RoundOf(h, s) == Cardinality({ n \in Submitted(h) : n <= s })

LEMMA RoundType ==
  ASSUME NEW h, NEW s \in Submitted(h)
  PROVE  RoundOf(h, s) \in 1..Cardinality(Submitted(h))
<1> DEFINE upTo == { n \in Submitted(h) : n <= s }
<1>1. IsFiniteSet(upTo) /\ Cardinality(upTo) <= Cardinality(Submitted(h))
  BY SubmissionsAreFinite, FS_Subset
<1>2. s \in upTo
  BY SubmissionsAreFinite
<1>3. Cardinality(upTo) \in Nat /\ Cardinality(upTo) # 0
  BY <1>1, <1>2, FS_CardinalityType, FS_EmptySet
<1> QED
  BY <1>1, <1>3, SubmissionsAreFinite DEF RoundOf

\* Rounds follow the order of the submissions.
LEMMA RoundOrder ==
  ASSUME NEW h, NEW s \in Submitted(h), NEW t \in Submitted(h), s < t
  PROVE  RoundOf(h, s) < RoundOf(h, t)
<1> DEFINE upTo(v) == { n \in Submitted(h) : n <= v }
<1>1. s \in Nat /\ t \in Nat /\ Submitted(h) \in SUBSET Nat
  BY SubmissionsAreFinite
<1>2. IsFiniteSet(upTo(t)) /\ upTo(s) \in SUBSET upTo(t)
  BY <1>1, SubmissionsAreFinite, FS_Subset
<1>3. t \in upTo(t) /\ t \notin upTo(s)
  BY <1>1
<1>4. /\ IsFiniteSet(upTo(s))
      /\ Cardinality(upTo(s)) <= Cardinality(upTo(t))
      /\ Cardinality(upTo(s)) # Cardinality(upTo(t))
  BY <1>2, <1>3, FS_Subset
<1>5. Cardinality(upTo(s)) \in Nat /\ Cardinality(upTo(t)) \in Nat
  BY <1>2, <1>4, FS_CardinalityType
<1> QED
  BY <1>4, <1>5 DEF RoundOf

LEMMA RoundIsUnique ==
  ASSUME NEW h, NEW s \in Submitted(h), NEW t \in Submitted(h), RoundOf(h, s) = RoundOf(h, t)
  PROVE  s = t
<1>1. s \in Nat /\ t \in Nat /\ RoundOf(h, s) \in Nat
  BY SubmissionsAreFinite, RoundType
<1>2. s < t \/ t < s \/ s = t
  BY <1>1
<1> QED
  BY <1>1, <1>2, RoundOrder

\* Every number up to that of the last submission is the round of one.
LEMMA RoundsAreConsecutive ==
  ASSUME NEW h
  PROVE  { RoundOf(h, s) : s \in Submitted(h) } = 1..Cardinality(Submitted(h))
<1> DEFINE S == Submitted(h)
           N == Cardinality(S)
           f == [ s \in S |-> RoundOf(h, s) ]
<1>1. N \in Nat /\ IsFiniteSet(S)
  BY SubmissionsAreFinite
<1>2. IsFiniteSet(1..N) /\ Cardinality(1..N) = N
  BY <1>1, FS_Interval
<1>3. f \in Injection(S, 1..N)
  BY RoundType, RoundIsUnique DEF Injection, IsInjective
<1>4. Cardinality(S) = Cardinality(1..N)
  BY <1>2
<1>5. f \in Surjection(S, 1..N)
  <2> HIDE DEF f, N, S
  <2> QED
    BY <1>2, <1>3, <1>4, FS_Injection
<1> QED
  BY <1>5, RoundType DEF Surjection

-----------------------------------------------------------------------------
(* What the preflight lets through *)

LEMMA ApprovalsAreVersions ==
  ASSUME NEW h, NEW s \in Submitted(h)
  PROVE  ApprovalsOf(h, s) \in SUBSET Nat /\ \A a \in ApprovalsOf(h, s) : a > s /\ a # 0
BY BoundIsNatural DEF ApprovalsOf, Approved, Submitted, InRound, Versions

\* The decision on a round is one of its approvals, or 0 when it has none.
LEMMA DecisionIsAnApproval ==
  ASSUME NEW h, NEW s \in Submitted(h)
  PROVE  /\ ApprovalsOf(h, s) = {} => DecisionOf(h, s) = 0
         /\ ApprovalsOf(h, s) # {} =>
              DecisionOf(h, s) \in ApprovalsOf(h, s) /\ DecisionOf(h, s) # 0
BY ApprovalsAreVersions, LeastVersion DEF DecisionOf

LEMMA AtMostOne ==
  ASSUME NEW T
  PROVE  /\ IsFiniteSet(T) /\ Cardinality(T) <= 1 => \A x, y \in T : x = y
         /\ (\A x, y \in T : x = y) => Cardinality(T) <= 1
<1>1. ASSUME IsFiniteSet(T), Cardinality(T) <= 1, NEW x \in T, NEW y \in T, x # y
      PROVE  FALSE
  <2>1. IsFiniteSet(T \ {x}) /\ Cardinality(T \ {x}) = Cardinality(T) - 1
    BY <1>1, FS_RemoveElement
  <2>2. y \in T \ {x}
    BY <1>1
  <2>3. Cardinality(T \ {x}) # 0 /\ Cardinality(T \ {x}) \in Nat /\ Cardinality(T) \in Nat
    BY <1>1, <2>1, <2>2, FS_EmptySet, FS_CardinalityType
  <2> QED
    BY <1>1, <2>1, <2>3
<1>2. ASSUME \A x, y \in T : x = y
      PROVE  Cardinality(T) <= 1
  <2>1. CASE T = {}
    BY <2>1, FS_EmptySet
  <2>2. CASE T # {}
    <3>1. PICK x \in T : T = {x}
      BY <1>2, <2>2
    <3>2. Cardinality({x}) = 1
      BY FS_Singleton
    <3> QED
      BY <3>1, <3>2
  <2> QED
    BY <2>1, <2>2
<1> QED
  BY <1>1, <1>2

\* An imported row, field by field.
LEMMA RowOf ==
  ASSUME NEW h, NEW s \in Submitted(h)
  PROVE  LET r == Imported(h, s) IN
         /\ r.round = RoundOf(h, s)
         /\ r.reviewer = h[s].by
         /\ r.submitted = s
         /\ ApprovalsOf(h, s) = {} => r.status = "submitted"
         /\ ApprovalsOf(h, s) # {} =>
              /\ r.status = "approved"
              /\ r.reviewed \in ApprovalsOf(h, s)
              /\ r.decider = h[r.reviewed].by
              /\ r.inOrder = (h[r.reviewed].at >= h[s].at)
<1> DEFINE a == DecisionOf(h, s)
<1>1. /\ ApprovalsOf(h, s) = {} => a = 0
      /\ ApprovalsOf(h, s) # {} => a \in ApprovalsOf(h, s) /\ a # 0
  BY DecisionIsAnApproval
<1> HIDE DEF a
<1>2. Imported(h, s) =
        [ round     |-> RoundOf(h, s),
          status    |-> IF a = 0 THEN "submitted" ELSE "approved",
          reviewer  |-> h[s].by,
          decider   |-> IF a = 0 THEN Nobody ELSE h[a].by,
          submitted |-> s,
          reviewed  |-> a,
          inOrder   |-> a = 0 \/ h[a].at >= h[s].at ]
  BY DEF Imported, RoundOf, a
<1> QED
  BY <1>1, <1>2

\* Whatever the preflight accepts, the reviewer approved what he approved, and in time.
LEMMA ApprovalsAreSound ==
  ASSUME NEW status, NEW h \in Histories, ~Refused(status, h),
         NEW s \in Submitted(h), NEW a \in ApprovalsOf(h, s)
  PROVE  h[a].by = h[s].by /\ h[a].at >= h[s].at /\ a > s
<1>1. h[a] \in Entry /\ h[s] \in Entry
  BY DEF Histories, Submitted, ApprovalsOf, Approved
<1>2. h[a].at \in Int /\ h[s].at \in Int
  BY <1>1 DEF Entry, NoEntry, Submission, Approval
<1>3. h[a].by = h[s].by /\ ~(h[a].at < h[s].at)
  BY DEF Refused, InconsistentApproval
<1> QED
  BY <1>2, <1>3, ApprovalsAreVersions

\* The table of reviews takes every row that the preflight lets through: the import never
\* fails on a constraint, and so never after the tables of the release were created.
THEOREM PreflightSuffices ==
  ASSUME NEW status, NEW h \in Histories, ~Refused(status, h)
  PROVE  Admissible(Backfill(h))
<1> DEFINE rows == Backfill(h)
           open == { r \in rows : r.status = "submitted" }
<1>1. ASSUME NEW r \in rows
      PROVE  /\ r.reviewer # Nobody
             /\ r.status = "approved" => r.reviewed > r.submitted /\ r.inOrder
  <2>1. PICK s \in Submitted(h) : r = Imported(h, s)
    BY DEF Backfill
  <2>2. h[s].by # Nobody
    BY DEF Refused, NullActor
  <2>3. CASE ApprovalsOf(h, s) = {}
    BY <2>1, <2>2, <2>3, RowOf
  <2>4. CASE ApprovalsOf(h, s) # {}
    <3>1. /\ r.reviewer = h[s].by
          /\ r.submitted = s
          /\ r.reviewed \in ApprovalsOf(h, s)
          /\ r.inOrder = (h[r.reviewed].at >= h[s].at)
      BY <2>1, <2>4, RowOf
    <3>2. h[r.reviewed].at >= h[s].at /\ r.reviewed > s
      BY <3>1, ApprovalsAreSound
    <3> QED
      BY <2>2, <3>1, <3>2
  <2> QED
    BY <2>3, <2>4
<1>2. ASSUME NEW r \in rows, NEW q \in rows, q.round = r.round
      PROVE  r = q
  <2>1. PICK s \in Submitted(h) : r = Imported(h, s)
    BY DEF Backfill
  <2>2. PICK t \in Submitted(h) : q = Imported(h, t)
    BY DEF Backfill
  <2>3. RoundOf(h, s) = RoundOf(h, t)
    BY <1>2, <2>1, <2>2, RowOf
  <2> QED
    BY <2>1, <2>2, <2>3, RoundIsUnique
<1>3. Cardinality(open) <= 1
  <2>1. IsFiniteSet(Unresolved(h)) /\ Cardinality(Unresolved(h)) \in Nat
    BY SubmissionsAreFinite, FS_Subset, FS_CardinalityType DEF Unresolved
  <2>2. \A s, t \in Unresolved(h) : s = t
    BY <2>1, AtMostOne DEF Refused, SeveralUnresolved
  <2>3. \A r \in open : \E s \in Unresolved(h) : r = Imported(h, s)
    BY RowOf DEF Backfill, Unresolved
  <2>4. \A r, q \in open : r = q
    BY <2>2, <2>3
  <2> QED
    BY <2>4, AtMostOne
<1> QED
  BY <1>1, <1>2, <1>3 DEF Admissible

\* And it tells the history: rounds without a gap, decided by their reviewer, and open at
\* the end exactly if the task waits for its review.
THEOREM PreflightTells ==
  ASSUME NEW status, NEW h \in Histories, ~Refused(status, h)
  PROVE  TellsHistory(status, Backfill(h))
<1> DEFINE S == Submitted(h)
           rows == Backfill(h)
           last == { r \in rows : \A q \in rows : q.round <= r.round }
<1>1. { r.round : r \in rows } = 1..Cardinality(rows)
  <2>1. { r.round : r \in rows } = { RoundOf(h, s) : s \in S }
    BY RowOf DEF Backfill
  <2> DEFINE f == [ s \in S |-> Imported(h, s) ]
  <2>2. f \in Injection(S, rows) /\ f \in Surjection(S, rows)
    BY RowOf DEF Backfill, Injection, IsInjective, Surjection
  <2>3. IsFiniteSet(S)
    BY SubmissionsAreFinite
  <2>4. Cardinality(rows) = Cardinality(S)
    <3> HIDE DEF f, rows, S
    <3> QED
      BY <2>2, <2>3, FS_Surjection
  <2> QED
    BY <2>1, <2>4, RoundsAreConsecutive
<1>2. ASSUME NEW r \in rows, r.status = "approved"
      PROVE  r.decider = r.reviewer /\ r.reviewed > r.submitted
  <2>1. PICK s \in S : r = Imported(h, s)
    BY DEF Backfill
  <2>2. /\ r.reviewer = h[s].by
        /\ r.submitted = s
        /\ r.reviewed \in ApprovalsOf(h, s)
        /\ r.decider = h[r.reviewed].by
    BY <1>2, <2>1, RowOf
  <2> QED
    BY <2>2, ApprovalsAreSound
<1>3. ASSUME NEW r \in rows, r.status # "approved"
      PROVE  /\ \A q \in rows : q.round <= r.round
             /\ status = "pending_review" /\ r.status = "submitted"
  <2>1. PICK s \in S : r = Imported(h, s)
    BY DEF Backfill
  <2>2. s \in Unresolved(h) /\ r.status = "submitted"
    BY <1>3, <2>1, RowOf DEF Unresolved
  <2>3. status # "completed" /\ \A n \in S : ~(n > s)
    BY <2>2 DEF Refused, StaleUnresolved
  <2>4. status = "pending_review"
    BY <2>1, <2>3 DEF Refused, ConflictsWithStatus
  <2>5. \A t \in S : RoundOf(h, t) <= RoundOf(h, s)
    <3> SUFFICES ASSUME NEW t \in S
                 PROVE  RoundOf(h, t) <= RoundOf(h, s)
      OBVIOUS
    <3>1. t \in Nat /\ s \in Nat /\ (t = s \/ t < s)
      BY <2>3, SubmissionsAreFinite
    <3>2. RoundOf(h, t) \in Nat /\ RoundOf(h, s) \in Nat
      BY RoundType
    <3> QED
      BY <3>1, <3>2, RoundOrder
  <2>6. \A q \in rows : q.round <= r.round
    BY <2>1, <2>5, RowOf DEF Backfill
  <2> QED
    BY <2>2, <2>4, <2>6
<1>4. ASSUME NEW r \in last
      PROVE  status = IF r.status = "submitted" THEN "pending_review" ELSE "completed"
  <2>1. CASE r.status # "approved"
    BY <1>3, <2>1
  <2>2. CASE r.status = "approved"
    <3>1. PICK s \in S : r = Imported(h, s)
      BY DEF Backfill
    <3>2. \A t \in S : RoundOf(h, t) <= RoundOf(h, s)
      BY <3>1, RowOf DEF Backfill
    <3>3. \A n \in S : n <= s
      <4> SUFFICES ASSUME NEW n \in S
                   PROVE  n <= s
        OBVIOUS
      <4>1. n \in Nat /\ s \in Nat /\ RoundOf(h, n) \in Nat /\ RoundOf(h, s) \in Nat
        BY SubmissionsAreFinite, RoundType
      <4> QED
        BY <3>2, <4>1, RoundOrder
    <3>4. PICK a \in ApprovalsOf(h, s) : a > s
      BY <2>2, <3>1, RowOf, ApprovalsAreVersions
    <3>5. status # "pending_review"
      BY <3>3, <3>4 DEF Refused, LatestConflicts, ApprovalsOf
    <3>6. status = "completed"
      BY <3>1, <3>5 DEF Refused, ConflictsWithStatus
    <3> QED
      BY <2>2, <3>6
  <2> QED
    BY <2>1, <2>2
<1> QED
  BY <1>1, <1>2, <1>3, <1>4 DEF TellsHistory

-----------------------------------------------------------------------------
(* Statements *)

ReviewTable == Table("task_completion_reviews")

ObjectKind == { "table", "reference", "column", "check", "not null" }

Typed(st) ==
  /\ st = [ schema |-> st.schema, rows |-> st.rows, status |-> st.status, log |-> st.log,
            reviews |-> st.reviews, outcome |-> st.outcome ]
  /\ st.rows \subseteq Kinds
  /\ \A o \in st.schema : o[1] \in ObjectKind
  /\ st.log \in Histories
  /\ st.outcome \in { "ok", "refused", "broken" }

\* A statement of one of the known forms, over known objects and kinds.
WellFormed(s) ==
  /\ s.does \in { "alter", "drop", "rewrite", "preflight", "import", "keep" }
  /\ s.does = "alter" => \A o \in s.adds : o[1] \in ObjectKind
  /\ s.does = "rewrite" => s.to \in Kinds

\* It leaves the table of reviews and its rows alone.
Aside(s) ==
  /\ s.does # "import"
  /\ s.does = "alter" => ReviewTable \notin s.adds \cup s.takes
  /\ s.does = "drop" => s.table # "task_completion_reviews"

\* And the log and the status that the rows were imported from.
Distant(s) == Aside(s) /\ (s.does = "drop" => s.table \notin { "task_status_logs", "tasks" })

LEMMA AlterForm ==
  ASSUME NEW needs, NEW adds, NEW takes, NEW bars
  PROVE  LET s == Alter(needs, adds, takes, bars) IN
         /\ s.does = "alter" /\ s.adds = adds /\ s.takes = takes
         /\ (\A o \in adds : o[1] \in ObjectKind) => WellFormed(s)
         /\ ReviewTable \notin adds \cup takes => Distant(s)
BY DEF Alter, WellFormed, Aside, Distant

LEMMA CreateForm ==
  ASSUME NEW t, NEW refs
  PROVE  /\ WellFormed(Create(t, refs))
         /\ t # "task_completion_reviews" => Distant(Create(t, refs))
<1> DEFINE needs == { Table(u) : u \in refs \ {t} }
           adds == { Table(t) } \cup { Reference(t, u) : u \in refs }
<1>1. \A o \in adds : o[1] \in ObjectKind
  <2>1. Table(t)[1] = "table" /\ \A u : Reference(t, u)[1] = "reference"
    BY DEF Table, Reference
  <2> QED
    BY <2>1 DEF ObjectKind
<1>2. t # "task_completion_reviews" => ReviewTable \notin adds \cup {}
  BY DEF Table, Reference, ReviewTable
<1>3. Create(t, refs) = Alter(needs, adds, {}, {})
  BY DEF Create
<1> HIDE DEF needs, adds
<1> QED
  BY <1>1, <1>2, <1>3, AlterForm

LEMMA ColumnForms ==
  ASSUME NEW t, NEW cols
  PROVE  /\ WellFormed(AddColumns(t, cols)) /\ Distant(AddColumns(t, cols))
         /\ WellFormed(DropColumns(t, cols)) /\ Distant(DropColumns(t, cols))
<1> DEFINE columns == { Column(t, c) : c \in cols }
<1>1. \A o \in columns : o[1] \in ObjectKind
  <2>1. \A c : Column(t, c)[1] = "column"
    BY DEF Column
  <2> QED
    BY <2>1 DEF ObjectKind
<1>2. ReviewTable \notin columns
  BY DEF Column, Table, ReviewTable
<1>3. /\ AddColumns(t, cols) = Alter({ Table(t) }, columns, {}, {})
      /\ DropColumns(t, cols) = Alter({}, {}, columns, {})
  BY DEF AddColumns, DropColumns
<1> HIDE DEF columns
<1> QED
  BY <1>1, <1>2, <1>3, AlterForm

LEMMA ConstraintForms ==
  ASSUME NEW t, NEW u, NEW bars
  PROVE  /\ WellFormed(AddReference(t, u)) /\ Distant(AddReference(t, u))
         /\ WellFormed(DropReference(t, u)) /\ Distant(DropReference(t, u))
         /\ WellFormed(AddCheck(t, u, bars)) /\ Distant(AddCheck(t, u, bars))
         /\ WellFormed(DropCheck(t, u)) /\ Distant(DropCheck(t, u))
         /\ WellFormed(RefuseIf(bars)) /\ Distant(RefuseIf(bars))
<1>1. Reference(t, u)[1] \in ObjectKind /\ Check(t, u)[1] \in ObjectKind
  BY DEF Reference, Check, ObjectKind
<1>2. ReviewTable # Reference(t, u) /\ ReviewTable # Check(t, u)
  BY DEF Reference, Check, Table, ReviewTable
<1> QED
  BY <1>1, <1>2, AlterForm DEF AddReference, DropReference, AddCheck, DropCheck, RefuseIf

LEMMA OtherForms ==
  /\ \A t : WellFormed(DropTable(t))
  /\ \A t : t # "task_completion_reviews" => Aside(DropTable(t))
  /\ \A t : t \notin { "task_completion_reviews", "task_status_logs", "tasks" } =>
       Distant(DropTable(t))
  /\ \A from : \A to \in Kinds : WellFormed(Rewrite(from, to)) /\ Distant(Rewrite(from, to))
  /\ WellFormed(Preflight) /\ Distant(Preflight)
  /\ WellFormed(KeepReviews) /\ Distant(KeepReviews)
  /\ WellFormed(ImportReviews)
BY DEF WellFormed, Aside, Distant, DropTable, Rewrite, Preflight, KeepReviews, ImportReviews

-----------------------------------------------------------------------------
(* The effect of a statement *)

LEMMA ExecuteTyped ==
  ASSUME NEW st, Typed(st), NEW s, WellFormed(s)
  PROVE  Typed(Execute(st, s))
<1>1. CASE st.outcome # "ok"
  BY <1>1 DEF Execute
<1>2. CASE st.outcome = "ok" /\ s.does = "alter"
  BY <1>2 DEF Execute, ExecuteAlter, Broken, Refusal, Typed, WellFormed
<1>3. CASE st.outcome = "ok" /\ s.does = "drop"
  <2>1. NoHistory \in Histories
    BY DEF NoHistory, Histories, Entry
  <2> QED
    BY <1>3, <2>1 DEF Execute, ExecuteDrop, Broken, Typed
<1>4. CASE st.outcome = "ok" /\ s.does = "rewrite"
  BY <1>4 DEF Execute, ExecuteRewrite, Typed, WellFormed
<1>5. CASE st.outcome = "ok" /\ s.does \in { "preflight", "keep" }
  BY <1>5 DEF Execute, Refusal, Typed
<1>6. CASE st.outcome = "ok" /\ s.does = "import"
  BY <1>6 DEF Execute, ExecuteImport, Broken, Typed
<1> QED
  BY <1>1, <1>2, <1>3, <1>4, <1>5, <1>6 DEF WellFormed

HasTable(st) == ReviewTable \in st.schema

LEMMA ExecuteAside ==
  ASSUME NEW st, Typed(st), NEW s, WellFormed(s), Aside(s)
  PROVE  LET n == Execute(st, s) IN
         /\ HasTable(n) <=> HasTable(st)
         /\ n.reviews = st.reviews
         /\ Distant(s) => n.log = st.log /\ n.status = st.status
         /\ n.outcome = "ok" => st.outcome = "ok"
<1>1. CASE st.outcome # "ok"
  BY <1>1 DEF Execute
<1>2. CASE st.outcome = "ok" /\ s.does = "alter"
  BY <1>2 DEF Execute, ExecuteAlter, Broken, Refusal, Typed, Aside, HasTable
<1>3. CASE st.outcome = "ok" /\ s.does = "drop"
  <2>1. ReviewTable[2] = "task_completion_reviews"
    BY DEF ReviewTable, Table
  <2> QED
    BY <1>3, <2>1 DEF Execute, ExecuteDrop, Broken, Typed, Aside, Distant, HasTable
<1>4. CASE st.outcome = "ok" /\ s.does = "rewrite"
  BY <1>4 DEF Execute, ExecuteRewrite, Typed, HasTable
<1>5. CASE st.outcome = "ok" /\ s.does \in { "preflight", "keep" }
  BY <1>5 DEF Execute, Refusal, Typed, HasTable
<1> QED
  BY <1>1, <1>2, <1>3, <1>4, <1>5 DEF WellFormed, Aside

LEMMA ExecutePreflight ==
  ASSUME NEW st, Typed(st), Execute(st, Preflight).outcome = "ok"
  PROVE  ~Refused(st.status, st.log)
BY DEF Execute, Preflight, Refusal, Typed

\* The two statements of the upgrade that are about reviews, and the last of the way back.
LEMMA ExecuteImports ==
  ASSUME NEW st, Typed(st)
  PROVE  LET made == Execute(st, TaskCompletionReviews)
             full == Execute(st, ImportReviews)
             gone == Execute(st, DropTable("task_completion_reviews"))
         IN  /\ made.outcome = "ok" =>
                  /\ HasTable(made)
                  /\ made.reviews = st.reviews /\ made.log = st.log /\ made.status = st.status
             /\ full.outcome = "ok" =>
                  /\ HasTable(full) <=> HasTable(st)
                  /\ full.reviews = Backfill(st.log)
                  /\ full.log = st.log /\ full.status = st.status
             /\ gone.outcome = "ok" => ~HasTable(gone) /\ gone.reviews = {}
<1> DEFINE made == Execute(st, TaskCompletionReviews)
           full == Execute(st, ImportReviews)
           gone == Execute(st, DropTable("task_completion_reviews"))
<1>1. ASSUME made.outcome = "ok"
      PROVE  /\ HasTable(made)
             /\ made.reviews = st.reviews /\ made.log = st.log /\ made.status = st.status
  <2>1. /\ TaskCompletionReviews.does = "alter"
        /\ ReviewTable \in TaskCompletionReviews.adds
    BY DEF TaskCompletionReviews, Create, Alter, ReviewTable
  <2> QED
    BY <1>1, <2>1 DEF Execute, ExecuteAlter, Broken, Refusal, Typed, HasTable
<1>2. ASSUME full.outcome = "ok"
      PROVE  /\ HasTable(full) <=> HasTable(st)
             /\ full.reviews = Backfill(st.log)
             /\ full.log = st.log /\ full.status = st.status
  BY <1>2 DEF Execute, ExecuteImport, ImportReviews, Broken, Typed, HasTable
<1>3. ASSUME gone.outcome = "ok"
      PROVE  ~HasTable(gone) /\ gone.reviews = {}
  <2>1. ReviewTable[2] = "task_completion_reviews"
    BY DEF ReviewTable, Table
  <2> QED
    BY <1>3, <2>1 DEF Execute, ExecuteDrop, DropTable, Broken, Typed, HasTable
<1> QED
  BY <1>1, <1>2, <1>3

-----------------------------------------------------------------------------
(* The scripts of the revisions *)

\* Statements that do not touch the reviews or what they were imported from.
Apart(script) ==
  /\ Len(script) \in Nat /\ Len(script) > 0
  /\ \A i \in 1..Len(script) : WellFormed(script[i]) /\ Distant(script[i])

LEMMA InitialScript == Apart(UpInitial)
<1>1. \A s \in { Departments, Users, TaskInputs, Tasks, AiExtractionRecords, TaskNodes,
                 TaskParticipants, TaskStatusLogs, TaskNodeDependencies, TaskNodeParticipants } :
        WellFormed(s) /\ Distant(s)
  BY CreateForm DEF Departments, Users, TaskInputs, Tasks, AiExtractionRecords, TaskNodes,
     TaskParticipants, TaskStatusLogs, TaskNodeDependencies, TaskNodeParticipants
<1>2. Len(UpInitial) = 10
  BY DEF UpInitial
<1> QED
  BY <1>1, <1>2 DEF Apart, UpInitial

LEMMA ReportScripts == Apart(UpReports) /\ Apart(DownReports)
<1>1. \A s \in { ReportCyclePreflight, ReportCycleFormat, TaskProgressReports, TaskIssues } :
        WellFormed(s) /\ Distant(s)
  BY CreateForm, ConstraintForms DEF ReportCyclePreflight, ReportCycleFormat,
     TaskProgressReports, TaskIssues
<1>2. Len(UpReports) = 4 /\ Len(DownReports) = 3
  BY DEF UpReports, DownReports
<1>3. Apart(UpReports)
  BY <1>1, <1>2 DEF Apart, UpReports
<1>4. Apart(DownReports)
  BY <1>2, OtherForms, ConstraintForms DEF Apart, DownReports
<1> QED
  BY <1>3, <1>4

LEMMA ChangeScripts == Apart(UpChanges) /\ Apart(DownChanges)
BY CreateForm, OtherForms DEF Apart, UpChanges, DownChanges, TaskChangeRequests

LEMMA BusinessScripts == Apart(UpBusiness) /\ Apart(DownBusiness)
<1>1. \A s \in { EmployeeProfiles, PerformanceMetrics, TaskPerformanceMatches, WorkloadSnapshots,
                 TaskPriorityScores, TaskConflicts, ReminderRules, Notifications,
                 TaskArchives, OperationLogs, UserAuthorizedScopes, SystemParameters } :
        WellFormed(s) /\ Distant(s)
  BY CreateForm DEF EmployeeProfiles, PerformanceMetrics, TaskPerformanceMatches,
     WorkloadSnapshots, TaskPriorityScores, TaskConflicts, ReminderRules, Notifications,
     TaskArchives, OperationLogs, UserAuthorizedScopes, SystemParameters
<1>2. WellFormed(ReminderTypes) /\ Distant(ReminderTypes)
  BY ConstraintForms DEF ReminderTypes
<1>3. WellFormed(SnapshotRequired) /\ Distant(SnapshotRequired)
  <2> DEFINE o == NotNull("task_archives", "archive_snapshot")
  <2>1. o[1] \in ObjectKind /\ ReviewTable # o
    BY DEF NotNull, Table, ReviewTable, ObjectKind
  <2>2. SnapshotRequired = Alter({ Table("task_archives") }, {o}, {}, {})
    BY DEF SnapshotRequired
  <2> HIDE DEF o
  <2> QED
    BY <2>1, <2>2, AlterForm
<1>4. Len(UpBusiness) = 14 /\ Len(DownBusiness) = 12
  BY DEF UpBusiness, DownBusiness
<1>5. Apart(UpBusiness)
  BY <1>1, <1>2, <1>3, <1>4 DEF Apart, UpBusiness
<1>6. Apart(DownBusiness)
  BY <1>4, OtherForms DEF Apart, DownBusiness
<1> QED
  BY <1>5, <1>6

LEMMA TokenScripts == Apart(UpTokens) /\ Apart(DownTokens)
BY CreateForm, OtherForms DEF Apart, UpTokens, DownTokens, AuthRefreshTokens

LEMMA DecompositionScripts == Apart(UpDecomposition) /\ Apart(DownDecomposition)
<1>1. Len(UpDecomposition) = 5 /\ Len(DownDecomposition) = 5
  BY DEF UpDecomposition, DownDecomposition
<1>2. Apart(UpDecomposition)
  BY <1>1, CreateForm, ColumnForms, ConstraintForms DEF Apart, UpDecomposition,
     TaskDecompositionRecords
<1>3. Apart(DownDecomposition)
  BY <1>1, OtherForms, ColumnForms, ConstraintForms DEF Apart, DownDecomposition
<1> QED
  BY <1>2, <1>3

LEMMA ArchiveScripts == Apart(UpArchives) /\ Apart(DownArchives)
<1> DEFINE o == NotNull("task_archives", "archive_snapshot")
<1>1. o[1] \in ObjectKind /\ ReviewTable # o
  BY DEF NotNull, Table, ReviewTable, ObjectKind
<1>2. "archives" \in Kinds
  BY DEF Kinds, TableOf
<1>3. Len(UpArchives) = 1 /\ Len(DownArchives) = 2
  BY DEF UpArchives, DownArchives
<1> HIDE DEF o
<1>4. \A a, b, bars : a \subseteq {o} /\ b \subseteq {o} =>
        WellFormed(Alter({}, a, b, bars)) /\ Distant(Alter({}, a, b, bars))
  BY <1>1, AlterForm
<1> QED
  BY <1>2, <1>3, <1>4, OtherForms DEF Apart, UpArchives, DownArchives, o

LEMMA AssignmentScripts == Apart(UpAssignments) /\ Apart(DownAssignments)
<1>1. Len(UpAssignments) = 4 /\ Len(DownAssignments) = 4
  BY DEF UpAssignments, DownAssignments
<1>2. \A i \in 1..4 : WellFormed(UpAssignments[i]) /\ Distant(UpAssignments[i])
  <2>1. WellFormed(UpAssignments[1]) /\ Distant(UpAssignments[1])
    BY ColumnForms DEF UpAssignments
  <2>2. WellFormed(UpAssignments[2]) /\ Distant(UpAssignments[2])
    BY ConstraintForms DEF UpAssignments
  <2>3. WellFormed(UpAssignments[3]) /\ Distant(UpAssignments[3])
    BY ConstraintForms DEF UpAssignments
  <2>4. WellFormed(UpAssignments[4]) /\ Distant(UpAssignments[4])
    BY ConstraintForms DEF UpAssignments
  <2> QED
    BY <2>1, <2>2, <2>3, <2>4
<1>3. \A i \in 1..4 : WellFormed(DownAssignments[i]) /\ Distant(DownAssignments[i])
  <2>1. WellFormed(DownAssignments[4]) /\ Distant(DownAssignments[4])
    BY ColumnForms DEF DownAssignments
  <2>2. WellFormed(DownAssignments[1]) /\ Distant(DownAssignments[1])
    BY ConstraintForms DEF DownAssignments
  <2>3. WellFormed(DownAssignments[2]) /\ Distant(DownAssignments[2])
    BY ConstraintForms DEF DownAssignments
  <2>4. WellFormed(DownAssignments[3]) /\ Distant(DownAssignments[3])
    BY ConstraintForms DEF DownAssignments
  <2> QED
    BY <2>1, <2>2, <2>3, <2>4
<1> QED
  BY <1>1, <1>2, <1>3 DEF Apart

LEMMA DepartmentScripts == Apart(UpDepartments) /\ Apart(DownDepartments)
BY ColumnForms DEF Apart, UpDepartments, DownDepartments

\* The first revision drops the log and the task, and the third the reviews.
LEMMA InitialWayBack ==
  /\ Len(DownInitial) = 10
  /\ \A i \in 1..10 : WellFormed(DownInitial[i]) /\ Aside(DownInitial[i])
<1>1. Len(DownInitial) = 10
  BY DEF DownInitial
<1> QED
  BY <1>1, OtherForms DEF DownInitial

LEMMA ReviewScripts ==
  /\ Len(UpReviews) = 3 /\ Len(DownReviews) = 2
  /\ \A i \in 1..3 : WellFormed(UpReviews[i])
  /\ \A i \in 1..2 : WellFormed(DownReviews[i])
<1>1. Len(UpReviews) = 3 /\ Len(DownReviews) = 2
  BY DEF UpReviews, DownReviews
<1>2. WellFormed(TaskCompletionReviews)
  BY CreateForm DEF TaskCompletionReviews
<1> QED
  BY <1>1, <1>2, OtherForms DEF UpReviews, DownReviews

LEMMA Chain ==
  /\ Newest = 10
  /\ \A r \in (1..10) \ {3} : Apart(Upgrades[r])
  /\ \A r \in (1..10) \ {1, 3} : Apart(Downgrades[r])
  /\ Upgrades[3] = UpReviews /\ Downgrades[1] = DownInitial /\ Downgrades[3] = DownReviews
<1>1. Newest = 10
  BY DEF Newest, Upgrades
<1>2. \A r \in (1..10) \ {3} : Apart(Upgrades[r])
  BY InitialScript, ReportScripts, ChangeScripts, BusinessScripts, TokenScripts,
     DecompositionScripts, ArchiveScripts, AssignmentScripts, DepartmentScripts DEF Upgrades
<1>3. \A r \in (1..10) \ {1, 3} : Apart(Downgrades[r])
  BY ReportScripts, ChangeScripts, BusinessScripts, TokenScripts,
     DecompositionScripts, ArchiveScripts, AssignmentScripts, DepartmentScripts DEF Downgrades
<1> QED
  BY <1>1, <1>2, <1>3 DEF Upgrades, Downgrades

LEMMA ScriptsHaveStatements ==
  \A r \in 1..10 : 1 \in 1..Len(Upgrades[r]) /\ 1 \in 1..Len(Downgrades[r])
<1> TAKE r \in 1..10
<1>1. 1 \in 1..Len(Upgrades[r])
  <2>1. CASE r = 3
    BY <2>1, Chain, ReviewScripts
  <2>2. CASE r # 3
    BY <2>2, Chain DEF Apart
  <2> QED
    BY <2>1, <2>2
<1>2. 1 \in 1..Len(Downgrades[r])
  <2>1. CASE r = 1
    BY <2>1, Chain, InitialWayBack
  <2>2. CASE r = 3
    BY <2>2, Chain, ReviewScripts
  <2>3. CASE r \notin { 1, 3 }
    BY <2>3, Chain DEF Apart
  <2> QED
    BY <2>1, <2>2, <2>3
<1> QED
  BY <1>1, <1>2

-----------------------------------------------------------------------------
(* Commands *)

\* The reviews are those of the log, and the preflight let it through.
Filled(st) == st.reviews = Backfill(st.log) /\ ~Refused(st.status, st.log)

\* A state after the first r revisions.
AtRevision(st, r) ==
  /\ r >= 3 => HasTable(st) /\ Filled(st)
  /\ r < 3  => ~HasTable(st) /\ st.reviews = {}

\* Between the preflight and the import.
Importing(c) == c.direction = "up" /\ c.revision = 2 /\ c.next > 1

\* A transaction in which nothing failed yet.
Inside(c) ==
  IF Importing(c)
    THEN /\ ~Refused(c.state.status, c.state.log)
         /\ c.state.reviews = {}
         /\ HasTable(c.state) <=> c.next = 3
    ELSE AtRevision(c.state, c.revision)

DbInv ==
  /\ db = [ revision |-> db.revision, state |-> db.state ]
  /\ db.revision \in 0..10
  /\ Typed(db.state)
  /\ db.state.outcome = "ok"
  /\ AtRevision(db.state, db.revision)

CommandInv ==
  /\ command = [ direction |-> command.direction, target |-> command.target,
                 revision |-> command.revision, next |-> command.next,
                 state |-> command.state ]
  /\ command.target \in 0..10
  /\ command.revision \in 0..10
  /\ \/ command.direction = "up" /\ command.revision <= command.target
     \/ command.direction = "down" /\ command.revision >= command.target
  /\ IF command.revision = command.target THEN command.next = 1
                                          ELSE command.next \in 1..Len(Script)
  /\ Typed(command.state)
  /\ command.state.outcome = "ok" => Inside(command)

IInv == DbInv /\ (command # Idle => CommandInv)

LEMMA ScriptIs ==
  ASSUME CommandInv, command.revision # command.target
  PROVE  /\ Len(Script) \in Nat /\ Len(Script) > 0
         /\ WellFormed(Script[command.next])
         /\ \/ command.direction = "up" /\ command.revision = 2 /\ Script = UpReviews
            \/ command.direction = "down" /\ command.revision = 3 /\ Script = DownReviews
            \/ command.direction = "down" /\ command.revision = 1 /\ Script = DownInitial
            \/ /\ Apart(Script)
               /\ ~Importing(command)
               /\ ~(command.direction = "up" /\ command.revision = 2)
               /\ command.direction = "down" => command.revision \notin { 1, 3 }
<1>1. CASE command.direction = "up"
  <2>1. command.revision + 1 \in 1..10 /\ Script = Upgrades[command.revision + 1]
    BY <1>1 DEF CommandInv, Script
  <2>2. CASE command.revision = 2
    BY <1>1, <2>1, <2>2, Chain, ReviewScripts DEF CommandInv
  <2>3. CASE command.revision # 2
    BY <1>1, <2>1, <2>3, Chain DEF CommandInv, Apart, Importing
  <2> QED
    BY <2>2, <2>3
<1>2. CASE command.direction = "down"
  <2>1. command.revision \in 1..10 /\ Script = Downgrades[command.revision]
    BY <1>2 DEF CommandInv, Script
  <2>2. CASE command.revision = 3
    BY <1>2, <2>1, <2>2, Chain, ReviewScripts DEF CommandInv
  <2>3. CASE command.revision = 1
    BY <1>2, <2>1, <2>3, Chain, InitialWayBack DEF CommandInv
  <2>4. CASE command.revision \notin { 1, 3 }
    BY <1>2, <2>1, <2>4, Chain DEF CommandInv, Apart, Importing
  <2> QED
    BY <2>2, <2>3, <2>4
<1> QED
  BY <1>1, <1>2 DEF CommandInv

\* A statement keeps what the position in the scripts says of the reviews.
LEMMA MigrateInside ==
  ASSUME IInv, Migrate, command'.state.outcome = "ok"
  PROVE  Inside(command')
<1> DEFINE st == command.state
           done == Execute(st, Script[command.next])
<1>1. /\ CommandInv
      /\ command.revision # command.target
      /\ st.outcome = "ok" /\ Typed(st) /\ Inside(command)
      /\ command.next \in 1..Len(Script)
  BY DEF IInv, Migrate, CommandInv
<1>2. /\ command'.state = done
      /\ command'.direction = command.direction
      /\ IF command.next < Len(Script)
           THEN command'.next = command.next + 1 /\ command'.revision = command.revision
           ELSE /\ command'.next = 1
                /\ command'.revision = command.revision
                                         + (IF command.direction = "up" THEN 1 ELSE -1)
  BY <1>1 DEF Migrate, CommandInv
<1>3. CASE command.direction = "up" /\ command.revision = 2 /\ Script = UpReviews
  <2>1. Len(Script) = 3
    BY <1>3, ReviewScripts
  <2>2. CASE command.next = 1
    <3>1. Script[command.next] = Preflight
      BY <1>3, <2>2 DEF UpReviews
    <3>2. ~HasTable(st) /\ st.reviews = {}
      BY <1>1, <1>3, <2>2 DEF Inside, Importing, AtRevision
    <3>3. ~Refused(st.status, st.log)
      BY <1>1, <1>2, <3>1, ExecutePreflight
    <3>4. /\ HasTable(done) <=> HasTable(st)
          /\ done.reviews = st.reviews /\ done.log = st.log /\ done.status = st.status
      BY <1>1, <3>1, OtherForms, ExecuteAside DEF Distant
    <3> QED
      BY <1>2, <1>3, <2>1, <2>2, <3>2, <3>3, <3>4 DEF Inside, Importing
  <2>3. CASE command.next = 2
    <3>1. Script[command.next] = TaskCompletionReviews
      BY <1>3, <2>3 DEF UpReviews
    <3>2. st.reviews = {} /\ ~Refused(st.status, st.log)
      BY <1>1, <1>3, <2>3 DEF Inside, Importing
    <3> QED
      BY <1>1, <1>2, <1>3, <2>1, <2>3, <3>1, <3>2, ExecuteImports DEF Inside, Importing
  <2>4. CASE command.next = 3
    <3>1. Script[command.next] = ImportReviews
      BY <1>3, <2>4 DEF UpReviews
    <3>2. HasTable(st) /\ ~Refused(st.status, st.log)
      BY <1>1, <1>3, <2>4 DEF Inside, Importing
    <3>3. HasTable(done) /\ Filled(done)
      BY <1>1, <1>2, <3>1, <3>2, ExecuteImports DEF Filled
    <3> QED
      BY <1>2, <1>3, <2>1, <2>4, <3>3 DEF Inside, Importing, AtRevision
  <2> QED
    BY <1>1, <2>1, <2>2, <2>3, <2>4
<1>4. CASE command.direction = "down" /\ command.revision = 3 /\ Script = DownReviews
  <2>1. Len(Script) = 2
    BY <1>4, ReviewScripts
  <2>2. HasTable(st) /\ Filled(st)
    BY <1>1, <1>4 DEF Inside, Importing, AtRevision
  <2>3. CASE command.next = 1
    <3>1. Script[command.next] = KeepReviews
      BY <1>4, <2>3 DEF DownReviews
    <3>2. HasTable(done) /\ Filled(done)
      BY <1>1, <2>2, <3>1, OtherForms, ExecuteAside DEF Distant, Filled
    <3> QED
      BY <1>2, <1>4, <2>1, <2>3, <3>2 DEF Inside, Importing, AtRevision
  <2>4. CASE command.next = 2
    <3>1. Script[command.next] = DropTable("task_completion_reviews")
      BY <1>4, <2>4 DEF DownReviews
    <3>2. ~HasTable(done) /\ done.reviews = {}
      BY <1>1, <1>2, <3>1, ExecuteImports
    <3> QED
      BY <1>2, <1>4, <2>1, <2>4, <3>2 DEF Inside, Importing, AtRevision
  <2> QED
    BY <1>1, <2>1, <2>3, <2>4
<1>5. CASE command.direction = "down" /\ command.revision = 1 /\ Script = DownInitial
  <2>1. ~HasTable(st) /\ st.reviews = {}
    BY <1>1, <1>5 DEF Inside, Importing, AtRevision
  <2>2. ~HasTable(done) /\ done.reviews = {}
    BY <1>1, <1>5, <2>1, InitialWayBack, ExecuteAside
  <2> QED
    BY <1>2, <1>5, <2>2 DEF Inside, Importing, AtRevision
<1>6. CASE /\ Apart(Script)
           /\ ~Importing(command)
           /\ ~(command.direction = "up" /\ command.revision = 2)
           /\ command.direction = "down" => command.revision \notin { 1, 3 }
  <2>1. AtRevision(st, command.revision)
    BY <1>1, <1>6 DEF Inside
  <2>2. /\ HasTable(done) <=> HasTable(st)
        /\ done.reviews = st.reviews /\ done.log = st.log /\ done.status = st.status
    BY <1>1, <1>6, ExecuteAside DEF Apart, Distant
  <2>3. AtRevision(done, command.revision)
    BY <2>1, <2>2 DEF AtRevision, Filled
  <2>4. command'.revision >= 3 <=> command.revision >= 3
    BY <1>1, <1>2, <1>6 DEF CommandInv
  <2>5. command'.revision \in Int /\ command.revision \in Int
    BY <1>1, <1>2 DEF CommandInv
  <2>6. AtRevision(done, command'.revision)
    BY <2>3, <2>4, <2>5 DEF AtRevision
  <2>7. ~Importing(command')
    BY <1>1, <1>2, <1>6 DEF Importing
  <2> QED
    BY <1>2, <2>6, <2>7 DEF Inside
<1> QED
  BY <1>1, <1>3, <1>4, <1>5, <1>6, ScriptIs

-----------------------------------------------------------------------------
(* The invariant *)

LEMMA InitIInv == Init => IInv
<1> SUFFICES ASSUME Init PROVE IInv
  OBVIOUS
<1>1. NoHistory \in Histories
  BY DEF NoHistory, Histories, Entry
<1>2. Typed(Empty) /\ Empty.outcome = "ok" /\ ~HasTable(Empty) /\ Empty.reviews = {}
  BY <1>1 DEF Typed, Empty, HasTable
<1> QED
  BY <1>2 DEF Init, IInv, DbInv, AtRevision

LEMMA BeginStep ==
  ASSUME IInv, NEW direction \in { "up", "down" }, NEW target \in Revisions,
         Begin(direction, target)
  PROVE  IInv'
<1>1. /\ db' = db
      /\ command' = [ direction |-> direction, target |-> target, revision |-> db.revision,
                      next |-> 1, state |-> db.state ]
  BY DEF Begin
<1>2. target \in 0..10 /\ db.revision \in 0..10 /\ target # db.revision
  BY Chain DEF Revisions, Begin, IInv, DbInv
<1>3. command'.direction = "up" => db.revision <= target
  BY <1>1, <1>2 DEF Begin
<1>4. command'.direction = "down" => db.revision >= target
  BY <1>1, <1>2 DEF Begin
<1>5. 1 \in 1..Len(Script')
  <2>1. CASE direction = "up"
    <3>1. db.revision + 1 \in 1..10 /\ Script' = Upgrades[db.revision + 1]
      BY <1>1, <1>2, <1>3, <2>1 DEF Script
    <3> QED
      BY <3>1, ScriptsHaveStatements
  <2>2. CASE direction = "down"
    <3>1. db.revision \in 1..10 /\ Script' = Downgrades[db.revision]
      BY <1>1, <1>2, <1>4, <2>2 DEF Script
    <3> QED
      BY <3>1, ScriptsHaveStatements
  <2> QED
    BY <2>1, <2>2
<1>6. Inside(command')
  BY <1>1 DEF Inside, Importing, IInv, DbInv
<1>7. CommandInv'
  BY <1>1, <1>2, <1>3, <1>4, <1>5, <1>6 DEF CommandInv, IInv, DbInv
<1> QED
  BY <1>1, <1>7 DEF IInv, DbInv

LEMMA MigrateStep ==
  ASSUME IInv, Migrate
  PROVE  IInv'
<1> DEFINE done == Execute(command.state, Script[command.next])
<1>1. /\ CommandInv
      /\ command.revision # command.target
      /\ Typed(command.state)
      /\ command.next \in 1..Len(Script)
      /\ db' = db
  BY DEF IInv, Migrate, CommandInv
<1>2. Typed(done) /\ Len(Script) \in Nat
  BY <1>1, ScriptIs, ExecuteTyped
<1>3. /\ command'.state = done
      /\ command'.direction = command.direction
      /\ command'.target = command.target
      /\ command' = [ direction |-> command'.direction, target |-> command'.target,
                      revision |-> command'.revision, next |-> command'.next,
                      state |-> command'.state ]
      /\ IF command.next < Len(Script)
           THEN command'.next = command.next + 1 /\ command'.revision = command.revision
           ELSE /\ command'.next = 1
                /\ command'.revision = command.revision
                                         + (IF command.direction = "up" THEN 1 ELSE -1)
  BY <1>1 DEF Migrate, CommandInv
<1>4. /\ command'.revision \in 0..10
      /\ \/ command.direction = "up" /\ command'.revision <= command.target
         \/ command.direction = "down" /\ command'.revision >= command.target
  BY <1>1, <1>3 DEF CommandInv
<1>5. IF command'.revision = command'.target THEN command'.next = 1
                                             ELSE command'.next \in 1..Len(Script')
  <2>1. CASE command.next < Len(Script)
    <3>1. Script' = Script
      BY <1>3, <2>1 DEF Script
    <3> QED
      BY <1>1, <1>2, <1>3, <2>1, <3>1
  <2>2. CASE ~(command.next < Len(Script)) /\ command'.revision # command.target
    <3>1. CASE command.direction = "up"
      <4>1. command'.revision + 1 \in 1..10 /\ Script' = Upgrades[command'.revision + 1]
        BY <1>1, <1>3, <1>4, <2>2, <3>1 DEF Script, CommandInv
      <4> QED
        BY <1>3, <2>2, <4>1, ScriptsHaveStatements
    <3>2. CASE command.direction = "down"
      <4>1. command'.revision \in 1..10 /\ Script' = Downgrades[command'.revision]
        BY <1>1, <1>3, <1>4, <2>2, <3>2 DEF Script, CommandInv
      <4> QED
        BY <1>3, <2>2, <4>1, ScriptsHaveStatements
    <3> QED
      BY <1>4, <3>1, <3>2
  <2>3. CASE ~(command.next < Len(Script)) /\ command'.revision = command.target
    BY <1>3, <2>3
  <2> QED
    BY <2>1, <2>2, <2>3
<1>6. command'.state.outcome = "ok" => Inside(command')
  BY MigrateInside
<1>7. CommandInv'
  BY <1>1, <1>2, <1>3, <1>4, <1>5, <1>6 DEF CommandInv
<1> QED
  BY <1>1, <1>7 DEF IInv, DbInv

LEMMA CommitStep ==
  ASSUME IInv, CommitCommand
  PROVE  IInv'
<1>1. /\ CommandInv
      /\ command.revision = command.target
      /\ command.state.outcome = "ok"
      /\ db' = [ revision |-> command.revision, state |-> command.state ]
      /\ command' = Idle
  BY DEF IInv, CommitCommand
<1>2. AtRevision(command.state, command.revision)
  BY <1>1 DEF CommandInv, Inside, Importing
<1> QED
  BY <1>1, <1>2 DEF IInv, DbInv, CommandInv

\* The application writes rows, and the log only as long as there is no table of reviews.
LEMMA ApplicationStep ==
  ASSUME IInv,
         \/ \E k \in Watched : Write(k)
         \/ \E s \in { "in_progress", "pending_review", "completed" }, h \in Histories :
              WriteHistory(s, h)
  PROVE  IInv'
<1>1. command = Idle /\ command' = Idle /\ DbInv
  BY DEF Write, WriteHistory, IInv
<1>2. CASE \E k \in Watched : Write(k)
  <2> PICK k \in Watched : Write(k)
    BY <1>2
  <2>1. k \in Kinds
    BY WatchedAreKinds
  <2>2. db' = [ revision |-> db.revision,
                state |-> [ db.state EXCEPT !.rows = db.state.rows \cup {k} ] ]
    BY <1>1 DEF Write, DbInv
  <2> QED
    BY <1>1, <2>1, <2>2 DEF IInv, DbInv, Typed, AtRevision, HasTable, Filled
<1>3. CASE \E s \in { "in_progress", "pending_review", "completed" }, h \in Histories :
             WriteHistory(s, h)
  <2> PICK s \in { "in_progress", "pending_review", "completed" }, h \in Histories :
             WriteHistory(s, h)
    BY <1>3
  <2>1. db' = [ revision |-> db.revision,
                state |-> [ db.state EXCEPT !.status = s, !.log = h ] ]
    BY <1>1 DEF WriteHistory, DbInv
  <2>2. ~HasTable(db.state)
    BY DEF WriteHistory, HasTable, ReviewTable
  <2> QED
    BY <1>1, <2>1, <2>2 DEF IInv, DbInv, Typed, AtRevision, HasTable, Filled
<1> QED
  BY <1>2, <1>3

LEMMA Inductive == Spec => []IInv
<1>1. Init => IInv
  BY InitIInv
<1>2. IInv /\ [Next]_vars => IInv'
  <2> SUFFICES ASSUME IInv, [Next]_vars PROVE IInv'
    OBVIOUS
  <2>1. CASE \E r \in Revisions : Begin("up", r) \/ Begin("down", r)
    BY <2>1, BeginStep
  <2>2. CASE Migrate
    BY <2>2, MigrateStep
  <2>3. CASE CommitCommand
    BY <2>3, CommitStep
  <2>4. CASE Rollback
    BY <2>4 DEF Rollback, IInv, DbInv
  <2>5. CASE \/ \E k \in Watched : Write(k)
             \/ \E s \in { "in_progress", "pending_review", "completed" }, h \in Histories :
                  WriteHistory(s, h)
    BY <2>5, ApplicationStep
  <2>6. CASE UNCHANGED vars
    BY <2>6 DEF vars, IInv, DbInv, CommandInv, Script
  <2> QED
    BY <2>1, <2>2, <2>3, <2>4, <2>5, <2>6 DEF Next
<1> QED
  BY <1>1, <1>2, PTL DEF Spec

-----------------------------------------------------------------------------
(* The stack of tables *)

\* Tables are created one upon the other: each refers to itself and to those below it.
Creations ==
  << Departments, Users, TaskInputs, Tasks, AiExtractionRecords, TaskNodes, TaskParticipants,
     TaskStatusLogs, TaskNodeDependencies, TaskNodeParticipants, TaskProgressReports, TaskIssues,
     TaskCompletionReviews, TaskChangeRequests, EmployeeProfiles, PerformanceMetrics,
     TaskPerformanceMatches, WorkloadSnapshots, TaskPriorityScores, TaskConflicts,
     ReminderRules, Notifications, TaskArchives, OperationLogs, UserAuthorizedScopes,
     SystemParameters, AuthRefreshTokens, TaskDecompositionRecords >>

Order ==
  << "departments", "users", "task_inputs", "tasks", "ai_extraction_records", "task_nodes",
     "task_participants", "task_status_logs", "task_node_dependencies",
     "task_node_participants", "task_progress_reports", "task_issues",
     "task_completion_reviews", "task_change_requests", "employee_profiles",
     "performance_metrics", "task_performance_matches", "workload_snapshots",
     "task_priority_scores", "task_conflicts", "reminder_rules", "notifications",
     "task_archives", "operation_logs", "user_authorized_scopes", "system_parameters",
     "auth_refresh_tokens", "task_decomposition_records" >>

Place ==
  [ departments |-> 1, users |-> 2, task_inputs |-> 3, tasks |-> 4, ai_extraction_records |-> 5,
    task_nodes |-> 6, task_participants |-> 7, task_status_logs |-> 8,
    task_node_dependencies |-> 9, task_node_participants |-> 10, task_progress_reports |-> 11,
    task_issues |-> 12, task_completion_reviews |-> 13, task_change_requests |-> 14,
    employee_profiles |-> 15, performance_metrics |-> 16, task_performance_matches |-> 17,
    workload_snapshots |-> 18, task_priority_scores |-> 19, task_conflicts |-> 20,
    reminder_rules |-> 21, notifications |-> 22, task_archives |-> 23, operation_logs |-> 24,
    user_authorized_scopes |-> 25, system_parameters |-> 26, auth_refresh_tokens |-> 27,
    task_decomposition_records |-> 28 ]

Height == 28

At(t, n) == t = Order[n] /\ Place[t] = n

\* The lowest k tables, as they are created.
Stack(k) == UNION { Creations[n].adds : n \in 1..k }

Creates(s, n) ==
  /\ s.does = "alter" /\ s.takes = {}
  /\ \A o \in s.adds :
       /\ At(o[2], n)
       /\ o[1] = "table" => o = Table(o[2])
       /\ o[1] \in { "table", "reference" }
       /\ o[1] = "reference" => \E m \in 1..n : At(o[3], m)
  /\ \E t : At(t, n) /\ Table(t) \in s.adds
  /\ \A o \in s.needs : \E u : \E m \in 1..(n - 1) : o = Table(u) /\ At(u, m)

LEMMA CreatesAfter ==
  ASSUME NEW n \in 1..Height, NEW t, At(t, n), NEW refs,
         \A u \in refs : u = t \/ \E m \in 1..(n - 1) : At(u, m)
  PROVE  Creates(Create(t, refs), n)
<1> DEFINE needs == { Table(u) : u \in refs \ {t} }
           adds == { Table(t) } \cup { Reference(t, u) : u \in refs }
<1>1. \A o \in needs : \E u : \E m \in 1..(n - 1) : o = Table(u) /\ At(u, m)
  OBVIOUS
<1>2. ASSUME NEW o \in adds
      PROVE  /\ At(o[2], n)
             /\ o[1] = "table" => o = Table(o[2])
             /\ o[1] \in { "table", "reference" }
             /\ o[1] = "reference" => \E m \in 1..n : At(o[3], m)
  <2>1. CASE o = Table(t)
    BY <2>1 DEF Table
  <2>2. ASSUME NEW u \in refs, o = Reference(t, u)
        PROVE  /\ At(o[2], n)
               /\ o[1] = "reference"
               /\ \E m \in 1..n : At(o[3], m)
    <3>1. o[1] = "reference" /\ o[2] = t /\ o[3] = u
      BY <2>2 DEF Reference
    <3> QED
      BY <3>1 DEF Height
  <2> QED
    BY <2>1, <2>2
<1>3. Create(t, refs) = Alter(needs, adds, {}, {})
  BY DEF Create
<1>4. Table(t) \in adds
  OBVIOUS
<1> HIDE DEF needs, adds
<1> QED
  BY <1>1, <1>2, <1>3, <1>4 DEF Creates, Alter

LEMMA CreationOrder ==
  \A n \in 1..Height : Creates(Creations[n], n)
<1> USE CreatesAfter
<1>1. Creates(Creations[1], 1)
  BY DEF At, Order, Place, Height, Creations, Departments
<1>2. Creates(Creations[2], 2)
  BY DEF At, Order, Place, Height, Creations, Users
<1>3. Creates(Creations[3], 3)
  BY DEF At, Order, Place, Height, Creations, TaskInputs
<1>4. Creates(Creations[4], 4)
  BY DEF At, Order, Place, Height, Creations, Tasks
<1>5. Creates(Creations[5], 5)
  BY DEF At, Order, Place, Height, Creations, AiExtractionRecords
<1>6. Creates(Creations[6], 6)
  BY DEF At, Order, Place, Height, Creations, TaskNodes
<1>7. Creates(Creations[7], 7)
  BY DEF At, Order, Place, Height, Creations, TaskParticipants
<1>8. Creates(Creations[8], 8)
  BY DEF At, Order, Place, Height, Creations, TaskStatusLogs
<1>9. Creates(Creations[9], 9)
  BY DEF At, Order, Place, Height, Creations, TaskNodeDependencies
<1>10. Creates(Creations[10], 10)
  BY DEF At, Order, Place, Height, Creations, TaskNodeParticipants
<1>11. Creates(Creations[11], 11)
  BY DEF At, Order, Place, Height, Creations, TaskProgressReports
<1>12. Creates(Creations[12], 12)
  BY DEF At, Order, Place, Height, Creations, TaskIssues
<1>13. Creates(Creations[13], 13)
  BY DEF At, Order, Place, Height, Creations, TaskCompletionReviews
<1>14. Creates(Creations[14], 14)
  BY DEF At, Order, Place, Height, Creations, TaskChangeRequests
<1>15. Creates(Creations[15], 15)
  BY DEF At, Order, Place, Height, Creations, EmployeeProfiles
<1>16. Creates(Creations[16], 16)
  BY DEF At, Order, Place, Height, Creations, PerformanceMetrics
<1>17. Creates(Creations[17], 17)
  BY DEF At, Order, Place, Height, Creations, TaskPerformanceMatches
<1>18. Creates(Creations[18], 18)
  BY DEF At, Order, Place, Height, Creations, WorkloadSnapshots
<1>19. Creates(Creations[19], 19)
  BY DEF At, Order, Place, Height, Creations, TaskPriorityScores
<1>20. Creates(Creations[20], 20)
  BY DEF At, Order, Place, Height, Creations, TaskConflicts
<1>21. Creates(Creations[21], 21)
  BY DEF At, Order, Place, Height, Creations, ReminderRules
<1>22. Creates(Creations[22], 22)
  BY DEF At, Order, Place, Height, Creations, Notifications
<1>23. Creates(Creations[23], 23)
  BY DEF At, Order, Place, Height, Creations, TaskArchives
<1>24. Creates(Creations[24], 24)
  BY DEF At, Order, Place, Height, Creations, OperationLogs
<1>25. Creates(Creations[25], 25)
  BY DEF At, Order, Place, Height, Creations, UserAuthorizedScopes
<1>26. Creates(Creations[26], 26)
  BY DEF At, Order, Place, Height, Creations, SystemParameters
<1>27. Creates(Creations[27], 27)
  BY DEF At, Order, Place, Height, Creations, AuthRefreshTokens
<1>28. Creates(Creations[28], 28)
  BY DEF At, Order, Place, Height, Creations, TaskDecompositionRecords
<1> QED
  BY <1>1, <1>2, <1>3, <1>4, <1>5, <1>6, <1>7, <1>8, <1>9, <1>10, <1>11, <1>12, <1>13, <1>14,
     <1>15, <1>16, <1>17, <1>18, <1>19, <1>20, <1>21, <1>22, <1>23, <1>24, <1>25, <1>26,
     <1>27, <1>28 DEF Height

LEMMA StackObjects ==
  ASSUME NEW k \in 0..Height, NEW o \in Stack(k)
  PROVE  \E n \in 1..k :
           /\ At(o[2], n)
           /\ o \in Creations[n].adds
           /\ o[1] = "table" => o = Table(o[2])
           /\ o[1] \in { "table", "reference" }
           /\ o[1] = "reference" => \E m \in 1..n : At(o[3], m)
<1>1. PICK n \in 1..k : o \in Creations[n].adds
  BY DEF Stack
<1>2. n \in 1..Height
  BY DEF Height
<1> QED
  BY <1>1, <1>2, CreationOrder DEF Creates

\* The tables that are there are those below the top.
LEMMA StackTables ==
  ASSUME NEW k \in 0..Height, NEW t, NEW n \in 1..Height, At(t, n)
  PROVE  Table(t) \in Stack(k) <=> n <= k
<1>1. ASSUME n <= k PROVE Table(t) \in Stack(k)
  <2>1. PICK u : At(u, n) /\ Table(u) \in Creations[n].adds
    BY CreationOrder DEF Creates
  <2> QED
    BY <1>1, <2>1 DEF At, Stack, Height
<1>2. ASSUME Table(t) \in Stack(k) PROVE n <= k
  <2>1. Table(t)[2] = t
    BY DEF Table
  <2> QED
    BY <1>2, <2>1, StackObjects DEF At
<1> QED
  BY <1>1, <1>2

LEMMA StackGrows ==
  ASSUME NEW k \in 0..Height, k # Height
  PROVE  Stack(k + 1) = Stack(k) \cup Creations[k + 1].adds
BY DEF Stack, Height

\* What else belongs to one of these tables: it comes and goes by itself.
Extra(o, k) ==
  \E n \in 1..k :
    /\ At(o[2], n)
    /\ \/ o[1] \in { "column", "check", "not null" }
       \/ o[1] = "reference" /\ \E m \in (n + 1)..k : At(o[3], m)

LEMMA ExtrasAreApart ==
  ASSUME NEW k \in 0..Height, NEW o, Extra(o, k), NEW j \in 0..Height
  PROVE  o \notin Stack(j)
<1> SUFFICES ASSUME o \in Stack(j) PROVE FALSE
  OBVIOUS
<1>1. PICK n \in 1..j : /\ At(o[2], n)
                        /\ o[1] \in { "table", "reference" }
                        /\ o[1] = "reference" => \E m \in 1..n : At(o[3], m)
  BY StackObjects
<1>2. PICK m \in 1..n : At(o[3], m)
  BY <1>1 DEF Extra
<1>3. \E l \in (n + 1)..k : At(o[3], l)
  BY <1>1 DEF Extra, At
<1> QED
  BY <1>2, <1>3 DEF At, Height

\* A statement takes the schema S to the schema T and is not in error over it.
Goes(S, s, T) ==
  \/ /\ s.does = "alter"
     /\ s.needs \cup s.takes \subseteq S
     /\ s.adds \cap S = {}
     /\ T = (S \ s.takes) \cup s.adds
  \/ /\ s.does = "drop"
     /\ Table(s.table) \in S
     /\ ~ \E o \in S : o[1] = "reference" /\ o[3] = s.table /\ o[2] # s.table
     /\ T = { o \in S : o[2] # s.table }
  \/ s.does \in { "rewrite", "preflight", "import", "keep" } /\ T = S

LEMMA CreateGoes ==
  ASSUME NEW k \in 0..Height, k # Height, NEW X, \A o \in X : Extra(o, k)
  PROVE  Goes(Stack(k) \cup X, Creations[k + 1], Stack(k + 1) \cup X)
<1> DEFINE s == Creations[k + 1]
<1>1. k + 1 \in 1..Height
  BY DEF Height
<1>2. Creates(s, k + 1)
  BY <1>1, CreationOrder
<1>3. s.needs \subseteq Stack(k)
  <2> SUFFICES ASSUME NEW o \in s.needs PROVE o \in Stack(k)
    OBVIOUS
  <2>1. PICK u : \E m \in 1..((k + 1) - 1) : o = Table(u) /\ At(u, m)
    BY <1>2 DEF Creates
  <2>2. PICK m \in 1..((k + 1) - 1) : At(u, m)
    BY <2>1
  <2>3. m \in 1..Height /\ m <= k
    BY DEF Height
  <2> QED
    BY <2>1, <2>2, <2>3, StackTables
<1>4. ASSUME NEW o \in s.adds
      PROVE  o \notin Stack(k) /\ o \notin X
  <2>1. At(o[2], k + 1)
    BY <1>2 DEF Creates
  <2>2. \A n \in 1..k : ~At(o[2], n)
    BY <2>1 DEF At, Height
  <2> QED
    BY <2>2, StackObjects DEF Extra
<1>5. Stack(k + 1) = Stack(k) \cup s.adds
  BY StackGrows
<1>6. s.does = "alter" /\ s.takes = {}
  BY <1>2 DEF Creates
<1> HIDE DEF s
<1>7. (Stack(k) \cup X) \ s.takes = Stack(k) \cup X
  BY <1>6
<1>8. Stack(k + 1) \cup X = (Stack(k) \cup X) \cup s.adds
  BY <1>5
<1>9. s.adds \cap (Stack(k) \cup X) = {}
  BY <1>4
<1>10. s.needs \cup s.takes \subseteq Stack(k) \cup X
  BY <1>3, <1>6
<1>11. Goes(Stack(k) \cup X, s, Stack(k + 1) \cup X)
  BY <1>6, <1>7, <1>8, <1>9, <1>10 DEF Goes
<1> QED
  BY <1>11 DEF s

LEMMA DropGoes ==
  ASSUME NEW k \in 1..Height, NEW t, At(t, k), NEW X, NEW Y,
         \A o \in X : Extra(o, k) /\ (o[1] = "reference" => o[3] # t),
         Y = { o \in X : o[2] # t }
  PROVE  Goes(Stack(k) \cup X, DropTable(t), Stack(k - 1) \cup Y)
<1> DEFINE s == DropTable(t)
           S == Stack(k) \cup X
<1>1. s.does = "drop" /\ s.table = t
  BY DEF DropTable
<1>2. Table(t) \in S
  BY StackTables DEF Height
<1>3. ~ \E o \in S : o[1] = "reference" /\ o[3] = t /\ o[2] # t
  <2> SUFFICES ASSUME NEW o \in Stack(k), o[1] = "reference", o[3] = t
               PROVE  o[2] = t
    OBVIOUS
  <2>1. PICK n \in 1..k : At(o[2], n) /\ \E m \in 1..n : At(t, m)
    BY StackObjects DEF Height
  <2>2. n = k
    BY <2>1 DEF At, Height
  <2> QED
    BY <2>1, <2>2 DEF At
<1>4. { o \in Stack(k) : o[2] # t } = Stack(k - 1)
  <2>1. k - 1 \in 0..Height /\ k - 1 # Height /\ (k - 1) + 1 = k
    BY DEF Height
  <2>2. Stack(k) = Stack(k - 1) \cup Creations[k].adds
    BY <2>1, StackGrows
  <2>3. \A o \in Creations[k].adds : o[2] = t
    BY CreationOrder DEF Creates, At
  <2>4. ASSUME NEW o \in Stack(k - 1) PROVE o[2] # t
    <3>1. PICK n \in 1..(k - 1) : At(o[2], n)
      BY <2>1, StackObjects
    <3> QED
      BY <3>1 DEF At
  <2> QED
    BY <2>2, <2>3, <2>4
<1>5. { o \in S : o[2] # t } = Stack(k - 1) \cup Y
  BY <1>4
<1> HIDE DEF s, S
<1>6. Goes(S, s, Stack(k - 1) \cup Y)
  BY <1>1, <1>2, <1>3, <1>5 DEF Goes
<1> QED
  BY <1>6 DEF s, S

LEMMA AlterGoes ==
  ASSUME NEW k \in 0..Height, NEW X, NEW Y, NEW needs, NEW adds, NEW takes, NEW bars,
         \A o \in needs : \E t : \E n \in 1..k : At(t, n) /\ o = Table(t),
         \A o \in adds : Extra(o, k) /\ o \notin X,
         takes \subseteq X, \A o \in takes : Extra(o, k),
         Y = (X \ takes) \cup adds
  PROVE  Goes(Stack(k) \cup X, Alter(needs, adds, takes, bars), Stack(k) \cup Y)
<1> DEFINE s == Alter(needs, adds, takes, bars)
           S == Stack(k) \cup X
<1>1. s.does = "alter" /\ s.needs = needs /\ s.adds = adds /\ s.takes = takes
  BY DEF Alter
<1>2. needs \subseteq Stack(k)
  BY StackTables DEF Height
<1>3. (adds \cup takes) \cap Stack(k) = {}
  BY ExtrasAreApart
<1>4. adds \cap S = {} /\ needs \cup takes \subseteq S
  BY <1>2, <1>3
<1>5. Stack(k) \cup Y = (S \ takes) \cup adds
  BY <1>3
<1> HIDE DEF s, S
<1>6. Goes(S, s, Stack(k) \cup Y)
  BY <1>1, <1>4, <1>5 DEF Goes
<1> QED
  BY <1>6 DEF s, S

\* The same, in the forms in which the scripts have them.
LEMMA CreateStep ==
  ASSUME NEW k \in 0..Height, NEW n \in 1..Height, n = k + 1, NEW X, \A o \in X : Extra(o, k),
         NEW s, s = Creations[n]
  PROVE  Goes(Stack(k) \cup X, s, Stack(n) \cup X)
<1>1. k # Height
  BY DEF Height
<1> QED
  BY <1>1, CreateGoes

LEMMA AddStep ==
  ASSUME NEW k \in 0..Height, NEW n \in 1..k, NEW t, At(t, n), NEW X, NEW Y, NEW adds, NEW bars,
         \A o \in adds : Extra(o, k) /\ o \notin X,
         Y = X \cup adds
  PROVE  Goes(Stack(k) \cup X, Alter({ Table(t) }, adds, {}, bars), Stack(k) \cup Y)
<1>1. Y = (X \ {}) \cup adds
  OBVIOUS
<1> QED
  BY <1>1, AlterGoes

LEMMA TakeStep ==
  ASSUME NEW k \in 0..Height, NEW X, NEW Y, NEW takes, NEW bars,
         \A o \in takes : Extra(o, k) /\ o \in X,
         Y = X \ takes
  PROVE  Goes(Stack(k) \cup X, Alter({}, {}, takes, bars), Stack(k) \cup Y)
<1>1. Y = (X \ takes) \cup {} /\ takes \subseteq X
  OBVIOUS
<1> QED
  BY <1>1, AlterGoes

LEMMA OneStep ==
  ASSUME NEW k \in 0..Height, NEW X, NEW Y, NEW o, Extra(o, k), o \notin X, Y = X \cup {o}
  PROVE  /\ \A n \in 1..k : \A t, bars : At(t, n) =>
              Goes(Stack(k) \cup X, Alter({ Table(t) }, {o}, {}, bars), Stack(k) \cup Y)
         /\ \A bars : Goes(Stack(k) \cup X, Alter({}, {o}, {}, bars), Stack(k) \cup Y)
         /\ \A bars : Goes(Stack(k) \cup Y, Alter({}, {}, {o}, bars), Stack(k) \cup X)
<1> DEFINE adds == {o}
<1>1. \A x \in adds : Extra(x, k) /\ x \notin X /\ x \in Y
  OBVIOUS
<1>2. Y = X \cup adds /\ X = Y \ adds /\ Y = (X \ {}) \cup adds
  OBVIOUS
<1> HIDE DEF adds
<1>3. \A n \in 1..k : \A t, bars : At(t, n) =>
        Goes(Stack(k) \cup X, Alter({ Table(t) }, adds, {}, bars), Stack(k) \cup Y)
  BY <1>1, <1>2, AddStep
<1>4. \A bars : Goes(Stack(k) \cup X, Alter({}, adds, {}, bars), Stack(k) \cup Y)
  BY <1>1, <1>2, AlterGoes
<1>5. \A bars : Goes(Stack(k) \cup Y, Alter({}, {}, adds, bars), Stack(k) \cup X)
  BY <1>1, <1>2, TakeStep
<1> QED
  BY <1>3, <1>4, <1>5 DEF adds

LEMMA StillGoes ==
  ASSUME NEW S
  PROVE  /\ \A bars : Goes(S, RefuseIf(bars), S)
         /\ \A from, to : Goes(S, Rewrite(from, to), S)
         /\ Goes(S, Preflight, S) /\ Goes(S, ImportReviews, S) /\ Goes(S, KeepReviews, S)
BY DEF Goes, RefuseIf, Alter, Rewrite, Preflight, ImportReviews, KeepReviews

-----------------------------------------------------------------------------
(* The schemas between two statements *)

\* What the upgrades add to the tables, up to a revision.
ReportFormat == Check("tasks", "report_cycle_format")
TaskTypes    == Check("reminder_rules", "task reminder types")
AllTypes     == Check("reminder_rules", "task and node reminder types")
Snapshot     == NotNull("task_archives", "archive_snapshot")
Attempts     == "task_decomposition_records"

Columns(t, cols) == { Column(t, c) : c \in cols }

Until2    == { ReportFormat }
WithTypes == { ReportFormat, TaskTypes }
Until5    == { ReportFormat, TaskTypes, Snapshot }

TaskColumns    == Until5 \cup Columns("tasks", DecomposedTask)
TaskReferences == TaskColumns \cup { Reference("tasks", Attempts) }
NodeColumns    == TaskReferences \cup Columns("task_nodes", DecomposedNode)
Until7         == NodeColumns \cup { Reference("task_nodes", Attempts) }
Until8         == Until7 \ { Snapshot }

AssignmentColumns == Until8 \cup Columns("task_nodes", AssignedNode)
AssignmentCheck   == AssignmentColumns \cup { Check("task_nodes", "assignment_status") }
WithoutTypes      == AssignmentCheck \ { TaskTypes }
Until9            == WithoutTypes \cup { AllTypes }
Until10           == Until9 \cup Columns("departments", { "wecom_department_id" })

LEMMA Places ==
  \A n \in 1..Height : At(Order[n], n)
BY DEF At, Order, Place, Height

LEMMA ExtraOf ==
  ASSUME NEW k \in 0..Height, NEW n \in 1..k, NEW t, At(t, n)
  PROVE  /\ \A c : Extra(Check(t, c), k) /\ Extra(NotNull(t, c), k) /\ Extra(Column(t, c), k)
         /\ \A u : \A m \in (n + 1)..k : At(u, m) => Extra(Reference(t, u), k)
<1>1. \A c : /\ Check(t, c)[1] = "check" /\ Check(t, c)[2] = t
             /\ NotNull(t, c)[1] = "not null" /\ NotNull(t, c)[2] = t
             /\ Column(t, c)[1] = "column" /\ Column(t, c)[2] = t
  BY DEF Check, NotNull, Column
<1>2. \A u : /\ Reference(t, u)[1] = "reference"
             /\ Reference(t, u)[2] = t /\ Reference(t, u)[3] = u
  BY DEF Reference
<1> QED
  BY <1>1, <1>2 DEF Extra

\* Which extras a stack of a height can bear, and the tables they are on.
LEMMA ExtrasFit ==
  ASSUME NEW k \in 0..Height
  PROVE  /\ k >= 4 => \A o \in Until2 : Extra(o, k) /\ o[1] # "reference"
         /\ k >= 21 => \A o \in WithTypes : Extra(o, k) /\ o[1] # "reference"
         /\ k >= 23 => \A o \in Until5 : Extra(o, k) /\ o[1] # "reference"
         /\ k = Height =>
              \A o \in Until7 \cup AssignmentCheck \cup Until10 : Extra(o, k)
<1>1. At("tasks", 4) /\ At("task_nodes", 6) /\ At("reminder_rules", 21)
      /\ At("task_archives", 23) /\ At(Attempts, 28) /\ At("departments", 1)
  BY Places DEF Height, Order, Attempts
<1>2. \A o \in Until5 : o[1] # "reference"
  <2>1. \A t, c : Check(t, c)[1] = "check" /\ NotNull(t, c)[1] = "not null"
    BY DEF Check, NotNull
  <2>2. ReportFormat[1] = "check"
    BY <2>1 DEF ReportFormat
  <2>3. TaskTypes[1] = "check"
    BY <2>1 DEF TaskTypes
  <2>4. Snapshot[1] = "not null"
    BY <2>1 DEF Snapshot
  <2> QED
    BY <2>2, <2>3, <2>4 DEF Until5
<1>3. ASSUME k >= 4
      PROVE  \A o \in Until2 : Extra(o, k) /\ o[1] # "reference"
  <2>1. 4 \in 1..k
    BY <1>3 DEF Height
  <2>2. Extra(ReportFormat, k)
    BY <1>1, <2>1, ExtraOf DEF ReportFormat
  <2> QED
    BY <1>2, <2>2 DEF Until2, Until5
<1>4. ASSUME k >= 21
      PROVE  \A o \in WithTypes : Extra(o, k) /\ o[1] # "reference"
  <2>1. 4 \in 1..k /\ 21 \in 1..k
    BY <1>4 DEF Height
  <2>2. Extra(ReportFormat, k) /\ Extra(TaskTypes, k)
    BY <1>1, <2>1, ExtraOf DEF ReportFormat, TaskTypes
  <2> QED
    BY <1>2, <2>2 DEF WithTypes, Until5
<1>5. ASSUME k >= 23
      PROVE  \A o \in Until5 : Extra(o, k) /\ o[1] # "reference"
  <2>1. 4 \in 1..k /\ 21 \in 1..k /\ 23 \in 1..k
    BY <1>5 DEF Height
  <2>2. Extra(ReportFormat, k) /\ Extra(TaskTypes, k) /\ Extra(Snapshot, k)
    BY <1>1, <2>1, ExtraOf DEF ReportFormat, TaskTypes, Snapshot
  <2> QED
    BY <1>2, <2>2 DEF Until5
<1>6. ASSUME k = Height
      PROVE  \A o \in Until7 \cup AssignmentCheck \cup Until10 : Extra(o, k)
  <2>1. \A o \in Until5 : Extra(o, k)
    BY <1>5, <1>6 DEF Height
  <2>2. 1 \in 1..k /\ 4 \in 1..k /\ 6 \in 1..k /\ 21 \in 1..k
        /\ 28 \in (4 + 1)..k /\ 28 \in (6 + 1)..k
    BY <1>6 DEF Height
  <2>3. \A c : Extra(Column("tasks", c), k)
    BY <1>1, <2>2, ExtraOf
  <2>4. \A c : Extra(Column("task_nodes", c), k) /\ Extra(Check("task_nodes", c), k)
    BY <1>1, <2>2, ExtraOf
  <2>5. \A c : Extra(Column("departments", c), k)
    BY <1>1, <2>2, ExtraOf
  <2>6. Extra(Reference("tasks", Attempts), k) /\ Extra(Reference("task_nodes", Attempts), k)
    BY <1>1, <2>2, ExtraOf
  <2>7. Extra(AllTypes, k)
    BY <1>1, <2>2, ExtraOf DEF AllTypes
  <2>8. \A o \in Until7 \cup AssignmentCheck : Extra(o, k)
    BY <2>1, <2>3, <2>4, <2>6 DEF AssignmentCheck, AssignmentColumns, Until8, Until7,
       NodeColumns, TaskReferences, TaskColumns, Columns
  <2> QED
    BY <2>5, <2>7, <2>8 DEF Until10, Until9, WithoutTypes, Columns
<1> QED
  BY <1>3, <1>4, <1>5, <1>6

-----------------------------------------------------------------------------
(* The schemas along the way up *)

InitialPath == [ j \in 1..11 |-> Stack(j - 1) ]

ReportsPath == [ j \in 1..5 |-> IF j < 3 THEN Stack(10) ELSE Stack(7 + j) \cup Until2 ]

ReviewsPath == [ j \in 1..4 |-> IF j < 3 THEN Stack(12) \cup Until2 ELSE Stack(13) \cup Until2 ]

ChangesPath == [ j \in 1..2 |-> Stack(12 + j) \cup Until2 ]

BusinessPath ==
  [ j \in 1..15 |-> IF j < 9       THEN Stack(13 + j) \cup Until2
                    ELSE IF j < 12 THEN Stack(12 + j) \cup WithTypes
                                   ELSE Stack(11 + j) \cup Until5 ]

TokensPath == [ j \in 1..2 |-> Stack(25 + j) \cup Until5 ]

DecompositionPath ==
  << Stack(27) \cup Until5, Stack(28) \cup Until5, Stack(28) \cup TaskColumns,
     Stack(28) \cup TaskReferences, Stack(28) \cup NodeColumns, Stack(28) \cup Until7 >>

ArchivesPath == << Stack(28) \cup Until7, Stack(28) \cup Until8 >>

AssignmentsPath ==
  << Stack(28) \cup Until8, Stack(28) \cup AssignmentColumns, Stack(28) \cup AssignmentCheck,
     Stack(28) \cup WithoutTypes, Stack(28) \cup Until9 >>

DepartmentsPath == << Stack(28) \cup Until9, Stack(28) \cup Until10 >>

\* Every statement of a script goes from one schema of a path to the next.
Follows(script, path) ==
  \A j \in 1..Len(script) : Goes(path[j], script[j], path[j + 1])

LEMMA InitialUp == Follows(UpInitial, InitialPath)
<1>1. Len(UpInitial) = 10
  BY DEF UpInitial
<1>2. ASSUME NEW j \in 1..10
      PROVE  Goes(Stack(j - 1), Creations[j], Stack(j))
  <2>1. j - 1 \in 0..Height /\ j - 1 # Height /\ (j - 1) + 1 = j
    BY DEF Height
  <2>2. Goes(Stack(j - 1) \cup {}, Creations[(j - 1) + 1], Stack((j - 1) + 1) \cup {})
    BY <2>1, CreateGoes
  <2> QED
    BY <2>1, <2>2
<1>3. \A j \in 1..10 : UpInitial[j] = Creations[j]
  BY DEF UpInitial, Creations
<1> QED
  BY <1>1, <1>2, <1>3 DEF Follows, InitialPath

\* A table is created on top of the extras that are there.
LEMMA StackUp ==
  ASSUME NEW n \in 1..Height, NEW X, NEW s, s = Creations[n],
         \/ X = Until2 /\ n > 4
         \/ X = WithTypes /\ n > 21
         \/ X = Until5 /\ n > 23
  PROVE  Goes(Stack(n - 1) \cup X, s, Stack(n) \cup X)
<1>1. n - 1 \in 0..Height /\ n = (n - 1) + 1
  BY DEF Height
<1>2. \A o \in X : Extra(o, n - 1)
  BY <1>1, ExtrasFit
<1> QED
  BY <1>1, <1>2, CreateStep

LEMMA ReportsUp == Follows(UpReports, ReportsPath)
<1>1. Len(UpReports) = 4
  BY DEF UpReports
<1>2. ASSUME NEW j \in 1..4, j = 1
      PROVE  Goes(ReportsPath[j], UpReports[j], ReportsPath[j + 1])
  <2>1. UpReports[j] = ReportCyclePreflight /\ ReportsPath[j] = Stack(10)
        /\ ReportsPath[j + 1] = Stack(10)
    BY <1>2 DEF UpReports, ReportsPath
  <2> QED
    BY <2>1, StillGoes DEF ReportCyclePreflight
<1>3. ASSUME NEW j \in 1..4, j = 2
      PROVE  Goes(ReportsPath[j], UpReports[j], ReportsPath[j + 1])
  <2>1. At("tasks", 4) /\ 10 \in 0..Height /\ 4 \in 1..10
    BY Places DEF Height, Order
  <2>2. \A o \in Until2 : Extra(o, 10) /\ o \notin {}
    BY <2>1, ExtrasFit
  <2>3. {} \cup Until2 = Until2 /\ Stack(10) \cup {} = Stack(10)
    OBVIOUS
  <2>4. Goes(Stack(10) \cup {}, Alter({ Table("tasks") }, Until2, {}, { "free_cycles" }),
             Stack(10) \cup Until2)
    BY <2>1, <2>2, <2>3, AddStep
  <2>5. UpReports[j] = Alter({ Table("tasks") }, Until2, {}, { "free_cycles" })
    BY <1>3 DEF UpReports, ReportCycleFormat, AddCheck, ReportFormat, Until2
  <2>6. ReportsPath[j] = Stack(10) /\ ReportsPath[j + 1] = Stack(10) \cup Until2
    BY <1>3 DEF ReportsPath
  <2> QED
    BY <2>3, <2>4, <2>5, <2>6
<1>4. ASSUME NEW j \in 1..4, j > 2
      PROVE  Goes(ReportsPath[j], UpReports[j], ReportsPath[j + 1])
  <2>1. UpReports[j] = Creations[8 + j]
    BY <1>4 DEF Creations, UpReports
  <2>2. 8 + j \in 1..Height /\ 8 + j > 4 /\ (8 + j) - 1 = 7 + j
    BY <1>4 DEF Height
  <2>3. ReportsPath[j] = Stack(7 + j) \cup Until2 /\ ReportsPath[j + 1] = Stack(8 + j) \cup Until2
    BY <1>4 DEF ReportsPath
  <2> QED
    BY <2>1, <2>2, <2>3, StackUp
<1> QED
  BY <1>1, <1>2, <1>3, <1>4 DEF Follows

LEMMA ReviewsUp == Follows(UpReviews, ReviewsPath)
<1>1. Len(UpReviews) = 3
  BY DEF UpReviews
<1>2. ASSUME NEW j \in 1..3, j # 2
      PROVE  Goes(ReviewsPath[j], UpReviews[j], ReviewsPath[j + 1])
  <2>1. UpReviews[j] \in { Preflight, ImportReviews } /\ ReviewsPath[j + 1] = ReviewsPath[j]
    BY <1>2 DEF UpReviews, ReviewsPath
  <2> QED
    BY <2>1, StillGoes
<1>3. ASSUME NEW j \in 1..3, j = 2
      PROVE  Goes(ReviewsPath[j], UpReviews[j], ReviewsPath[j + 1])
  <2>1. UpReviews[j] = Creations[13] /\ 13 \in 1..Height /\ 13 > 4 /\ 13 - 1 = 12
    BY <1>3 DEF Creations, UpReviews, Height
  <2>2. ReviewsPath[j] = Stack(12) \cup Until2 /\ ReviewsPath[j + 1] = Stack(13) \cup Until2
    BY <1>3 DEF ReviewsPath
  <2> QED
    BY <2>1, <2>2, StackUp
<1> QED
  BY <1>1, <1>2, <1>3 DEF Follows

LEMMA ChangesUp == Follows(UpChanges, ChangesPath)
<1>1. Len(UpChanges) = 1 /\ UpChanges[1] = Creations[14] /\ 14 \in 1..Height /\ 14 > 4
      /\ 14 - 1 = 13
  BY DEF UpChanges, Creations, Height
<1>2. ChangesPath[1] = Stack(13) \cup Until2 /\ ChangesPath[1 + 1] = Stack(14) \cup Until2
  BY DEF ChangesPath
<1> QED
  BY <1>1, <1>2, StackUp DEF Follows

LEMMA BusinessUp == Follows(UpBusiness, BusinessPath)
<1>1. Len(UpBusiness) = 14
  BY DEF UpBusiness
<1>2. ASSUME NEW j \in 1..14, j < 8
      PROVE  Goes(BusinessPath[j], UpBusiness[j], BusinessPath[j + 1])
  <2>1. UpBusiness[j] = Creations[14 + j]
    BY <1>2 DEF Creations, UpBusiness
  <2>2. 14 + j \in 1..Height /\ 14 + j > 4 /\ (14 + j) - 1 = 13 + j
    BY <1>2 DEF Height
  <2>3. /\ BusinessPath[j] = Stack(13 + j) \cup Until2
        /\ BusinessPath[j + 1] = Stack(14 + j) \cup Until2
    BY <1>2 DEF BusinessPath
  <2> QED
    BY <2>1, <2>2, <2>3, StackUp
<1>3. ASSUME NEW j \in 1..14, j = 8
      PROVE  Goes(BusinessPath[j], UpBusiness[j], BusinessPath[j + 1])
  <2>1. At("reminder_rules", 21) /\ 21 \in 0..Height /\ 21 \in 1..21
    BY Places DEF Height, Order
  <2>2. Extra(TaskTypes, 21)
    BY <2>1, ExtraOf DEF TaskTypes
  <2>3. TaskTypes # ReportFormat
    BY DEF TaskTypes, ReportFormat, Check
  <2>4. UpBusiness[j] = Alter({ Table("reminder_rules") }, { TaskTypes }, {}, {})
    BY <1>3 DEF UpBusiness, ReminderTypes, AddCheck, TaskTypes
  <2>5. BusinessPath[j] = Stack(21) \cup Until2 /\ BusinessPath[j + 1] = Stack(21) \cup WithTypes
    BY <1>3 DEF BusinessPath
  <2>6. WithTypes = Until2 \cup { TaskTypes } /\ TaskTypes \notin Until2
    BY <2>3 DEF WithTypes, Until2
  <2>7. Goes(Stack(21) \cup Until2, Alter({ Table("reminder_rules") }, { TaskTypes }, {}, {}),
             Stack(21) \cup WithTypes)
    BY <2>1, <2>2, <2>6, OneStep
  <2> QED
    BY <2>4, <2>5, <2>7
<1>4. ASSUME NEW j \in 1..14, j \in 9..10
      PROVE  Goes(BusinessPath[j], UpBusiness[j], BusinessPath[j + 1])
  <2>1. UpBusiness[j] = Creations[13 + j]
    BY <1>4 DEF Creations, UpBusiness
  <2>2. 13 + j \in 1..Height /\ 13 + j > 21 /\ (13 + j) - 1 = 12 + j
    BY <1>4 DEF Height
  <2>3. BusinessPath[j] = Stack(12 + j) \cup WithTypes
        /\ BusinessPath[j + 1] = Stack(13 + j) \cup WithTypes
    BY <1>4 DEF BusinessPath
  <2> QED
    BY <2>1, <2>2, <2>3, StackUp
<1>5. ASSUME NEW j \in 1..14, j = 11
      PROVE  Goes(BusinessPath[j], UpBusiness[j], BusinessPath[j + 1])
  <2>1. At("task_archives", 23) /\ 23 \in 0..Height /\ 23 \in 1..23
    BY Places DEF Height, Order
  <2>2. Extra(Snapshot, 23)
    BY <2>1, ExtraOf DEF Snapshot
  <2>3. Snapshot # ReportFormat /\ Snapshot # TaskTypes
    BY DEF Snapshot, TaskTypes, ReportFormat, Check, NotNull
  <2>4. UpBusiness[j] = Alter({ Table("task_archives") }, { Snapshot }, {}, {})
    BY <1>5 DEF UpBusiness, SnapshotRequired, Snapshot
  <2>5. BusinessPath[j] = Stack(23) \cup WithTypes /\ BusinessPath[j + 1] = Stack(23) \cup Until5
    BY <1>5 DEF BusinessPath
  <2>6. Until5 = WithTypes \cup { Snapshot } /\ Snapshot \notin WithTypes
    BY <2>3 DEF WithTypes, Until5
  <2>7. Goes(Stack(23) \cup WithTypes, Alter({ Table("task_archives") }, { Snapshot }, {}, {}),
             Stack(23) \cup Until5)
    BY <2>1, <2>2, <2>6, OneStep
  <2> QED
    BY <2>4, <2>5, <2>7
<1>6. ASSUME NEW j \in 1..14, j > 11
      PROVE  Goes(BusinessPath[j], UpBusiness[j], BusinessPath[j + 1])
  <2>1. UpBusiness[j] = Creations[12 + j]
    BY <1>6 DEF Creations, UpBusiness
  <2>2. 12 + j \in 1..Height /\ 12 + j > 23 /\ (12 + j) - 1 = 11 + j
    BY <1>6 DEF Height
  <2>3. /\ BusinessPath[j] = Stack(11 + j) \cup Until5
        /\ BusinessPath[j + 1] = Stack(12 + j) \cup Until5
    BY <1>6 DEF BusinessPath
  <2> QED
    BY <2>1, <2>2, <2>3, StackUp
<1> QED
  BY <1>1, <1>2, <1>3, <1>4, <1>5, <1>6 DEF Follows

LEMMA TokensUp == Follows(UpTokens, TokensPath)
<1>1. Len(UpTokens) = 1 /\ UpTokens[1] = Creations[27] /\ 27 \in 1..Height /\ 27 > 23
      /\ 27 - 1 = 26
  BY DEF UpTokens, Creations, Height
<1>2. TokensPath[1] = Stack(26) \cup Until5 /\ TokensPath[1 + 1] = Stack(27) \cup Until5
  BY DEF TokensPath
<1> QED
  BY <1>1, <1>2, StackUp DEF Follows

\* Columns, references and checks, there and back.
LEMMA ColumnSteps ==
  ASSUME NEW n \in 1..Height, NEW t, At(t, n), NEW cols, NEW X,
         \A c \in cols : Column(t, c) \notin X, 
         NEW Y, Y = X \cup Columns(t, cols)
  PROVE  /\ Goes(Stack(Height) \cup X, AddColumns(t, cols), Stack(Height) \cup Y)
         /\ Goes(Stack(Height) \cup Y, DropColumns(t, cols), Stack(Height) \cup X)
<1>1. Height \in 0..Height
  BY DEF Height
<1>2. \A o \in Columns(t, cols) : Extra(o, Height) /\ o \notin X /\ o \in Y
  BY <1>1, ExtraOf DEF Columns
<1>3. X = Y \ Columns(t, cols)
  BY <1>2
<1>4. Goes(Stack(Height) \cup X, Alter({ Table(t) }, Columns(t, cols), {}, {}),
           Stack(Height) \cup Y)
  BY <1>1, <1>2, AddStep
<1>5. Goes(Stack(Height) \cup Y, Alter({}, {}, Columns(t, cols), {}), Stack(Height) \cup X)
  BY <1>1, <1>2, <1>3, TakeStep
<1> QED
  BY <1>4, <1>5 DEF AddColumns, DropColumns, Columns

LEMMA ReferenceSteps ==
  ASSUME NEW n \in 1..Height, NEW t, At(t, n), NEW m \in (n + 1)..Height, NEW u, At(u, m),
         NEW X, Reference(t, u) \notin X,
         NEW Y, Y = X \cup { Reference(t, u) }
  PROVE  /\ Goes(Stack(Height) \cup X, AddReference(t, u), Stack(Height) \cup Y)
         /\ Goes(Stack(Height) \cup Y, DropReference(t, u), Stack(Height) \cup X)
<1> DEFINE o == Reference(t, u)
           needs == { Table(t), Table(u) }
           adds == {o}
<1>1. Height \in 0..Height /\ m \in 1..Height
  BY DEF Height
<1>2. Extra(o, Height)
  BY <1>1, ExtraOf
<1>3. \A x \in needs : \E v : \E l \in 1..Height : At(v, l) /\ x = Table(v)
  BY <1>1
<1>4. Y = (X \ {}) \cup adds /\ \A x \in adds : Extra(x, Height) /\ x \notin X
  BY <1>2
<1>5. Goes(Stack(Height) \cup X, Alter(needs, adds, {}, {}), Stack(Height) \cup Y)
  <2> HIDE DEF needs, adds, o
  <2> QED
    BY <1>1, <1>3, <1>4, AlterGoes
<1>6. Goes(Stack(Height) \cup Y, Alter({}, {}, {o}, {}), Stack(Height) \cup X)
  BY <1>1, <1>2, OneStep
<1> QED
  BY <1>5, <1>6 DEF AddReference, DropReference

LEMMA CheckSteps ==
  ASSUME NEW k \in 0..Height, NEW n \in 1..k, NEW t, At(t, n), NEW c,
         NEW X, Check(t, c) \notin X,
         NEW Y, Y = X \cup { Check(t, c) }
  PROVE  /\ \A bars : Goes(Stack(k) \cup X, AddCheck(t, c, bars), Stack(k) \cup Y)
         /\ Goes(Stack(k) \cup Y, DropCheck(t, c), Stack(k) \cup X)
<1>1. Extra(Check(t, c), k)
  BY ExtraOf
<1> QED
  BY <1>1, OneStep DEF AddCheck, DropCheck

\* The extras of a revision are laid one upon the other, as the tables are.
LEMMA Layers ==
  /\ \A c : Column("tasks", c) \notin Until5
  /\ Reference("tasks", Attempts) \notin TaskColumns
  /\ \A c : Column("task_nodes", c) \notin TaskReferences
  /\ Reference("task_nodes", Attempts) \notin NodeColumns
  /\ Snapshot \in Until7
  /\ \A c \in AssignedNode : Column("task_nodes", c) \notin Until8
  /\ Check("task_nodes", "assignment_status") \notin AssignmentColumns
  /\ TaskTypes \in AssignmentCheck
  /\ AllTypes \notin WithoutTypes
  /\ \A c : Column("departments", c) \notin Until9
<1>1. /\ \A t, u, c, d : Check(t, c) # NotNull(u, d) /\ Check(t, c) # Column(u, d)
                         /\ NotNull(t, c) # Column(u, d)
      /\ \A t, u, c, d, v : Check(t, c) # Reference(u, v) /\ NotNull(t, c) # Reference(u, v)
                            /\ Column(t, c) # Reference(u, v)
  BY DEF Check, NotNull, Column, Reference
<1>2. /\ \A t, u, c, d : t # u => /\ Check(t, c) # Check(u, d)
                                  /\ Column(t, c) # Column(u, d)
                                  /\ Reference(t, c) # Reference(u, d)
      /\ \A t, c, d : c # d => Check(t, c) # Check(t, d) /\ Column(t, c) # Column(t, d)
  BY DEF Check, NotNull, Column, Reference
<1>3. \A c : /\ Column("tasks", c) \notin Until5
             /\ Column("task_nodes", c) \notin Until5
             /\ Column("departments", c) \notin Until5
  BY <1>1 DEF Until5, ReportFormat, TaskTypes, Snapshot
<1>4. \A t, u : Reference(t, u) \notin TaskColumns
  BY <1>1 DEF TaskColumns, Until5, ReportFormat, TaskTypes, Snapshot, Columns
<1>5. \A c : /\ Column("task_nodes", c) \notin TaskReferences
             /\ Column("departments", c) \notin TaskReferences
  BY <1>1, <1>2, <1>3 DEF TaskReferences, TaskColumns, Columns
<1>6. Reference("task_nodes", Attempts) \notin NodeColumns
  BY <1>1, <1>2, <1>4 DEF NodeColumns, TaskReferences, Columns
<1>7. Snapshot \in Until7 /\ TaskTypes \in Until7
  BY DEF Until7, NodeColumns, TaskReferences, TaskColumns, Until5
<1>8. \A c \in AssignedNode : Column("task_nodes", c) \notin Until8
  <2>1. \A c \in AssignedNode : c \notin DecomposedNode
    BY DEF AssignedNode, DecomposedNode
  <2> QED
    BY <1>1, <1>2, <1>5, <2>1 DEF Until8, Until7, NodeColumns, Columns
<1>9. \A t, c : Check(t, c) \in AssignmentColumns => Check(t, c) \in Until5
  BY <1>1 DEF AssignmentColumns, Until8, Until7, NodeColumns, TaskReferences, TaskColumns, Columns
<1>10. Check("task_nodes", "assignment_status") \notin Until5 /\ AllTypes \notin Until5
  BY <1>1, <1>2 DEF Until5, ReportFormat, TaskTypes, AllTypes, Snapshot
<1>11. TaskTypes # Snapshot /\ AllTypes # Check("task_nodes", "assignment_status")
  BY <1>1, <1>2 DEF TaskTypes, Snapshot, AllTypes
<1>12. TaskTypes \in AssignmentCheck
  BY <1>7, <1>11 DEF AssignmentCheck, AssignmentColumns, Until8
<1>13. AllTypes \notin WithoutTypes
  BY <1>9, <1>10, <1>11 DEF WithoutTypes, AssignmentCheck, AllTypes
<1>14. \A c : Column("departments", c) \notin Until9
  BY <1>1, <1>2, <1>5 DEF Until9, WithoutTypes, AssignmentCheck, AssignmentColumns, Until8, Until7,
     NodeColumns, Columns, AllTypes
<1> QED
  BY <1>3, <1>4, <1>5, <1>6, <1>7, <1>8, <1>9, <1>10, <1>12, <1>13, <1>14

Named ==
  /\ At("departments", 1) /\ At("tasks", 4) /\ At("task_nodes", 6)
  /\ At("task_completion_reviews", 13) /\ At("reminder_rules", 21) /\ At("task_archives", 23)
  /\ At(Attempts, 28)

LEMMA NamedPlaces ==
  /\ Named
  /\ \A n \in {1, 4, 6, 21, 23} : n \in 1..Height
  /\ Height \in (4 + 1)..Height /\ Height \in (6 + 1)..Height /\ Height \in 0..Height
BY Places DEF Named, Height, Order, Attempts

\* The layers of the later revisions, each laid and taken away by its statement.
LEMMA DecompositionLayers ==
  LET S(X) == Stack(Height) \cup X IN
  /\ Goes(S(Until5), AddColumns("tasks", DecomposedTask), S(TaskColumns))
  /\ Goes(S(TaskColumns), DropColumns("tasks", DecomposedTask), S(Until5))
  /\ Goes(S(TaskColumns), AddReference("tasks", Attempts), S(TaskReferences))
  /\ Goes(S(TaskReferences), DropReference("tasks", Attempts), S(TaskColumns))
  /\ Goes(S(TaskReferences), AddColumns("task_nodes", DecomposedNode), S(NodeColumns))
  /\ Goes(S(NodeColumns), DropColumns("task_nodes", DecomposedNode), S(TaskReferences))
  /\ Goes(S(NodeColumns), AddReference("task_nodes", Attempts), S(Until7))
  /\ Goes(S(Until7), DropReference("task_nodes", Attempts), S(NodeColumns))
<1> USE NamedPlaces, Layers DEF Named
<1>1. /\ Goes(Stack(Height) \cup Until5, AddColumns("tasks", DecomposedTask),
              Stack(Height) \cup TaskColumns)
      /\ Goes(Stack(Height) \cup TaskColumns, DropColumns("tasks", DecomposedTask),
              Stack(Height) \cup Until5)
  BY ColumnSteps DEF TaskColumns
<1>2. /\ Goes(Stack(Height) \cup TaskColumns, AddReference("tasks", Attempts),
              Stack(Height) \cup TaskReferences)
      /\ Goes(Stack(Height) \cup TaskReferences, DropReference("tasks", Attempts),
              Stack(Height) \cup TaskColumns)
  <2>1. At(Attempts, Height)
    BY DEF Height
  <2> QED
    BY <2>1, ReferenceSteps DEF TaskReferences
<1>3. /\ Goes(Stack(Height) \cup TaskReferences, AddColumns("task_nodes", DecomposedNode),
              Stack(Height) \cup NodeColumns)
      /\ Goes(Stack(Height) \cup NodeColumns, DropColumns("task_nodes", DecomposedNode),
              Stack(Height) \cup TaskReferences)
  BY ColumnSteps DEF NodeColumns
<1>4. /\ Goes(Stack(Height) \cup NodeColumns, AddReference("task_nodes", Attempts),
              Stack(Height) \cup Until7)
      /\ Goes(Stack(Height) \cup Until7, DropReference("task_nodes", Attempts),
              Stack(Height) \cup NodeColumns)
  <2>1. At(Attempts, Height)
    BY DEF Height
  <2> QED
    BY <2>1, ReferenceSteps DEF Until7
<1> QED
  BY <1>1, <1>2, <1>3, <1>4

LEMMA LaterLayers ==
  LET S(X) == Stack(Height) \cup X
      assigned == "assignment_status"
  IN
  /\ Goes(S(Until7), Alter({}, {}, { Snapshot }, {}), S(Until8))
  /\ \A bars : Goes(S(Until8), Alter({}, { Snapshot }, {}, bars), S(Until7))
  /\ Goes(S(Until8), AddColumns("task_nodes", AssignedNode), S(AssignmentColumns))
  /\ Goes(S(AssignmentColumns), DropColumns("task_nodes", AssignedNode), S(Until8))
  /\ \A bars : Goes(S(AssignmentColumns), AddCheck("task_nodes", assigned, bars),
                    S(AssignmentCheck))
  /\ Goes(S(AssignmentCheck), DropCheck("task_nodes", assigned), S(AssignmentColumns))
  /\ Goes(S(AssignmentCheck), DropCheck("reminder_rules", "task reminder types"), S(WithoutTypes))
  /\ \A bars : Goes(S(WithoutTypes), AddCheck("reminder_rules", "task reminder types", bars),
                    S(AssignmentCheck))
  /\ \A bars : Goes(S(WithoutTypes),
                    AddCheck("reminder_rules", "task and node reminder types", bars), S(Until9))
  /\ Goes(S(Until9), DropCheck("reminder_rules", "task and node reminder types"), S(WithoutTypes))
  /\ Goes(S(Until9), AddColumns("departments", { "wecom_department_id" }), S(Until10))
  /\ Goes(S(Until10), DropColumns("departments", { "wecom_department_id" }), S(Until9))
<1> USE NamedPlaces, Layers DEF Named
<1>1. /\ Goes(Stack(Height) \cup Until7, Alter({}, {}, { Snapshot }, {}),
              Stack(Height) \cup Until8)
      /\ \A bars : Goes(Stack(Height) \cup Until8, Alter({}, { Snapshot }, {}, bars),
                        Stack(Height) \cup Until7)
  <2>1. Extra(Snapshot, Height)
    BY ExtraOf DEF Snapshot
  <2>2. Until7 = Until8 \cup { Snapshot } /\ Snapshot \notin Until8
    BY DEF Until8
  <2> QED
    BY <2>1, <2>2, OneStep
<1>2. /\ Goes(Stack(Height) \cup Until8, AddColumns("task_nodes", AssignedNode),
              Stack(Height) \cup AssignmentColumns)
      /\ Goes(Stack(Height) \cup AssignmentColumns, DropColumns("task_nodes", AssignedNode),
              Stack(Height) \cup Until8)
  BY ColumnSteps DEF AssignmentColumns
<1>3. /\ \A bars : Goes(Stack(Height) \cup AssignmentColumns,
                        AddCheck("task_nodes", "assignment_status", bars),
                        Stack(Height) \cup AssignmentCheck)
      /\ Goes(Stack(Height) \cup AssignmentCheck, DropCheck("task_nodes", "assignment_status"),
              Stack(Height) \cup AssignmentColumns)
  BY CheckSteps DEF AssignmentCheck
<1>4. /\ Goes(Stack(Height) \cup AssignmentCheck,
              DropCheck("reminder_rules", "task reminder types"), Stack(Height) \cup WithoutTypes)
      /\ \A bars : Goes(Stack(Height) \cup WithoutTypes,
                        AddCheck("reminder_rules", "task reminder types", bars),
                        Stack(Height) \cup AssignmentCheck)
  <2>1. AssignmentCheck = WithoutTypes \cup { TaskTypes } /\ TaskTypes \notin WithoutTypes
    BY DEF WithoutTypes
  <2> QED
    BY <2>1, CheckSteps DEF TaskTypes
<1>5. /\ \A bars : Goes(Stack(Height) \cup WithoutTypes,
                        AddCheck("reminder_rules", "task and node reminder types", bars),
                        Stack(Height) \cup Until9)
      /\ Goes(Stack(Height) \cup Until9,
              DropCheck("reminder_rules", "task and node reminder types"),
              Stack(Height) \cup WithoutTypes)
  BY CheckSteps DEF Until9, AllTypes
<1>6. /\ Goes(Stack(Height) \cup Until9, AddColumns("departments", { "wecom_department_id" }),
              Stack(Height) \cup Until10)
      /\ Goes(Stack(Height) \cup Until10, DropColumns("departments", { "wecom_department_id" }),
              Stack(Height) \cup Until9)
  BY ColumnSteps DEF Until10
<1> QED
  BY <1>1, <1>2, <1>3, <1>4, <1>5, <1>6

LEMMA DecompositionUp == Follows(UpDecomposition, DecompositionPath)
<1>1. Len(UpDecomposition) = 5
  BY DEF UpDecomposition
<1>2. Goes(DecompositionPath[1], UpDecomposition[1], DecompositionPath[2])
  <2>1. UpDecomposition[1] = Creations[28] /\ 28 \in 1..Height /\ 28 > 23 /\ 28 - 1 = 27
    BY DEF UpDecomposition, Creations, Height
  <2> QED
    BY <2>1, StackUp DEF DecompositionPath
<1>3. /\ Goes(DecompositionPath[2], UpDecomposition[2], DecompositionPath[3])
      /\ Goes(DecompositionPath[3], UpDecomposition[3], DecompositionPath[4])
      /\ Goes(DecompositionPath[4], UpDecomposition[4], DecompositionPath[5])
      /\ Goes(DecompositionPath[5], UpDecomposition[5], DecompositionPath[6])
  BY DecompositionLayers DEF DecompositionPath, UpDecomposition, Height, Attempts
<1> QED
  BY <1>1, <1>2, <1>3 DEF Follows

LEMMA ArchivesUp == Follows(UpArchives, ArchivesPath)
<1>1. Len(UpArchives) = 1
  BY DEF UpArchives
<1>2. Goes(ArchivesPath[1], UpArchives[1], ArchivesPath[2])
  BY LaterLayers DEF ArchivesPath, UpArchives, Snapshot, Height
<1> QED
  BY <1>1, <1>2 DEF Follows

LEMMA AssignmentsUp == Follows(UpAssignments, AssignmentsPath)
<1>1. Len(UpAssignments) = 4
  BY DEF UpAssignments
<1>2. /\ Goes(AssignmentsPath[1], UpAssignments[1], AssignmentsPath[2])
      /\ Goes(AssignmentsPath[2], UpAssignments[2], AssignmentsPath[3])
      /\ Goes(AssignmentsPath[3], UpAssignments[3], AssignmentsPath[4])
      /\ Goes(AssignmentsPath[4], UpAssignments[4], AssignmentsPath[5])
  BY LaterLayers DEF AssignmentsPath, UpAssignments, Height
<1> QED
  BY <1>1, <1>2 DEF Follows

LEMMA DepartmentsUp == Follows(UpDepartments, DepartmentsPath)
<1>1. Len(UpDepartments) = 1
  BY DEF UpDepartments
<1>2. Goes(DepartmentsPath[1], UpDepartments[1], DepartmentsPath[2])
  BY LaterLayers DEF DepartmentsPath, UpDepartments, Height
<1> QED
  BY <1>1, <1>2 DEF Follows

-----------------------------------------------------------------------------
(* And along the way down *)

InitialWay == [ j \in 1..11 |-> Stack(11 - j) ]

ReportsWay == [ j \in 1..4 |-> IF j < 4 THEN Stack(13 - j) \cup Until2 ELSE Stack(10) ]

ReviewsWay == [ j \in 1..3 |-> IF j < 3 THEN Stack(13) \cup Until2 ELSE Stack(12) \cup Until2 ]

ChangesWay == [ j \in 1..2 |-> Stack(15 - j) \cup Until2 ]

BusinessWay ==
  [ j \in 1..13 |-> IF j < 5      THEN Stack(27 - j) \cup Until5
                    ELSE IF j < 7 THEN Stack(27 - j) \cup WithTypes
                                  ELSE Stack(27 - j) \cup Until2 ]

TokensWay == [ j \in 1..2 |-> Stack(28 - j) \cup Until5 ]

DecompositionWay ==
  << Stack(28) \cup Until7, Stack(28) \cup NodeColumns, Stack(28) \cup TaskReferences,
     Stack(28) \cup TaskColumns, Stack(28) \cup Until5, Stack(27) \cup Until5 >>

ArchivesWay == << Stack(28) \cup Until8, Stack(28) \cup Until8, Stack(28) \cup Until7 >>

AssignmentsWay ==
  << Stack(28) \cup Until9, Stack(28) \cup WithoutTypes, Stack(28) \cup AssignmentCheck,
     Stack(28) \cup AssignmentColumns, Stack(28) \cup Until8 >>

DepartmentsWay == << Stack(28) \cup Until10, Stack(28) \cup Until9 >>

\* The top table goes, with what is on it, and leaves the rest.
LEMMA StackDown ==
  ASSUME NEW n \in 1..Height, NEW X, NEW Y,
         \/ X = Until2 /\ n > 4 /\ Y = Until2
         \/ X = WithTypes /\ n > 21 /\ Y = WithTypes
         \/ X = WithTypes /\ n = 21 /\ Y = Until2
         \/ X = Until5 /\ n > 23 /\ Y = Until5
         \/ X = Until5 /\ n = 23 /\ Y = WithTypes
  PROVE  Goes(Stack(n) \cup X, DropTable(Order[n]), Stack(n - 1) \cup Y)
<1> DEFINE t == Order[n]
<1>1. n \in 0..Height /\ At(t, n)
  BY Places DEF Height
<1>2. \A o \in X : Extra(o, n) /\ o[1] # "reference"
  BY <1>1, ExtrasFit
<1>3. ReportFormat[2] = "tasks" /\ TaskTypes[2] = "reminder_rules" /\ Snapshot[2] = "task_archives"
  <2>1. \A u, c : Check(u, c)[2] = u /\ NotNull(u, c)[2] = u
    BY DEF Check, NotNull
  <2> QED
    BY <2>1 DEF ReportFormat, TaskTypes, Snapshot
<1>4. /\ n # 4 => t # "tasks"
      /\ n # 21 => t # "reminder_rules" 
      /\ n # 23 => t # "task_archives"
      /\ n = 21 => t = "reminder_rules" 
      /\ n = 23 => t = "task_archives"
  BY <1>1, NamedPlaces DEF Named, At
<1>5. Y = { o \in X : o[2] # t }
  BY <1>3, <1>4 DEF Until2, WithTypes, Until5
<1> HIDE DEF t
<1>6. Goes(Stack(n) \cup X, DropTable(t), Stack(n - 1) \cup Y)
  BY <1>1, <1>2, <1>5, DropGoes
<1> QED
  BY <1>6 DEF t

LEMMA InitialDown == Follows(DownInitial, InitialWay)
<1>1. Len(DownInitial) = 10
  BY DEF DownInitial
<1>2. ASSUME NEW j \in 1..10
      PROVE  Goes(InitialWay[j], DownInitial[j], InitialWay[j + 1])
  <2>1. DownInitial[j] = DropTable(Order[11 - j])
    BY DEF DownInitial, Order
  <2>2. 11 - j \in 1..Height /\ 11 - j \in 0..Height /\ At(Order[11 - j], 11 - j)
    BY Places DEF Height
  <2>3. InitialWay[j] = Stack(11 - j) \cup {} /\ InitialWay[j + 1] = Stack((11 - j) - 1) \cup {}
    BY DEF InitialWay
  <2>4. Goes(Stack(11 - j) \cup {}, DropTable(Order[11 - j]), Stack((11 - j) - 1) \cup {})
    BY <2>2, DropGoes
  <2> QED
    BY <2>1, <2>3, <2>4
<1> QED
  BY <1>1, <1>2 DEF Follows

LEMMA ReportsDown == Follows(DownReports, ReportsWay)
<1>1. Len(DownReports) = 3
  BY DEF DownReports
<1>2. ASSUME NEW j \in 1..3, j < 3
      PROVE  Goes(ReportsWay[j], DownReports[j], ReportsWay[j + 1])
  <2>1. DownReports[j] = DropTable(Order[13 - j])
    BY <1>2 DEF DownReports, Order
  <2>2. 13 - j \in 1..Height /\ 13 - j > 4 /\ (13 - j) - 1 = 12 - j
    BY <1>2 DEF Height
  <2>3. ReportsWay[j] = Stack(13 - j) \cup Until2 /\ ReportsWay[j + 1] = Stack(12 - j) \cup Until2
    BY <1>2 DEF ReportsWay
  <2>4. Goes(Stack(13 - j) \cup Until2, DropTable(Order[13 - j]), Stack((13 - j) - 1) \cup Until2)
    BY <2>2, StackDown
  <2> QED
    BY <2>1, <2>2, <2>3, <2>4
<1>3. Goes(ReportsWay[3], DownReports[3], ReportsWay[4])
  <2>1. 10 \in 0..Height /\ 4 \in 1..10 /\ At("tasks", 4)
    BY NamedPlaces DEF Height, Named
  <2>2. Until2 = {} \cup { Check("tasks", "report_cycle_format") }
        /\ Check("tasks", "report_cycle_format") \notin {}
    BY DEF Until2, ReportFormat
  <2>3. Goes(Stack(10) \cup Until2, DropCheck("tasks", "report_cycle_format"), Stack(10) \cup {})
    BY <2>1, <2>2, CheckSteps
  <2>4. DownReports[3] = DropCheck("tasks", "report_cycle_format")
        /\ ReportsWay[3] = Stack(10) \cup Until2 /\ ReportsWay[4] = Stack(10) \cup {}
    BY DEF DownReports, ReportsWay
  <2> QED
    BY <2>3, <2>4
<1> QED
  BY <1>1, <1>2, <1>3 DEF Follows

LEMMA ReviewsDown == Follows(DownReviews, ReviewsWay)
<1>1. Len(DownReviews) = 2
  BY DEF DownReviews
<1>2. Goes(ReviewsWay[1], DownReviews[1], ReviewsWay[2])
  BY StillGoes DEF DownReviews, ReviewsWay
<1>3. Goes(ReviewsWay[2], DownReviews[2], ReviewsWay[3])
  <2>1. DownReviews[2] = DropTable(Order[13]) /\ 13 \in 1..Height /\ 13 > 4 /\ 13 - 1 = 12
    BY DEF DownReviews, Order, Height
  <2>2. Goes(Stack(13) \cup Until2, DropTable(Order[13]), Stack(13 - 1) \cup Until2)
    BY <2>1, StackDown
  <2> QED
    BY <2>1, <2>2 DEF ReviewsWay
<1> QED
  BY <1>1, <1>2, <1>3 DEF Follows

LEMMA ChangesDown == Follows(DownChanges, ChangesWay)
<1>1. Len(DownChanges) = 1
  BY DEF DownChanges
<1>2. Goes(ChangesWay[1], DownChanges[1], ChangesWay[2])
  <2>1. DownChanges[1] = DropTable(Order[14]) /\ 14 \in 1..Height /\ 14 > 4 /\ 14 - 1 = 13
    BY DEF DownChanges, Order, Height
  <2>2. Goes(Stack(14) \cup Until2, DropTable(Order[14]), Stack(14 - 1) \cup Until2)
    BY <2>1, StackDown
  <2> QED
    BY <2>1, <2>2 DEF ChangesWay
<1> QED
  BY <1>1, <1>2 DEF Follows

LEMMA BusinessDown == Follows(DownBusiness, BusinessWay)
<1>1. Len(DownBusiness) = 12
  BY DEF DownBusiness
<1>2. ASSUME NEW j \in 1..12
      PROVE  Goes(BusinessWay[j], DownBusiness[j], BusinessWay[j + 1])
  <2>1. DownBusiness[j] = DropTable(Order[27 - j])
    BY DEF DownBusiness, Order
  <2>2. 27 - j \in 1..Height
    BY DEF Height
  <2>3. ASSUME NEW X, NEW Y,
               \/ X = Until5 /\ j < 4 /\ Y = Until5
               \/ X = Until5 /\ j = 4 /\ Y = WithTypes
               \/ X = WithTypes /\ j = 5 /\ Y = WithTypes
               \/ X = WithTypes /\ j = 6 /\ Y = Until2
               \/ X = Until2 /\ j > 6 /\ Y = Until2,
               BusinessWay[j] = Stack(27 - j) \cup X,
               BusinessWay[j + 1] = Stack(26 - j) \cup Y
        PROVE  Goes(BusinessWay[j], DownBusiness[j], BusinessWay[j + 1])
    <3>1. \/ X = Until2 /\ 27 - j > 4 /\ Y = Until2
          \/ X = WithTypes /\ 27 - j > 21 /\ Y = WithTypes
          \/ X = WithTypes /\ 27 - j = 21 /\ Y = Until2
          \/ X = Until5 /\ 27 - j > 23 /\ Y = Until5
          \/ X = Until5 /\ 27 - j = 23 /\ Y = WithTypes
      BY <2>3
    <3>2. Goes(Stack(27 - j) \cup X, DropTable(Order[27 - j]), Stack((27 - j) - 1) \cup Y)
      BY <2>2, <3>1, StackDown
    <3>3. (27 - j) - 1 = 26 - j
      OBVIOUS
    <3> QED
      BY <2>1, <2>3, <3>2, <3>3
  <2>4. /\ j < 4 => BusinessWay[j] = Stack(27 - j) \cup Until5
                    /\ BusinessWay[j + 1] = Stack(26 - j) \cup Until5
        /\ j = 4 => BusinessWay[j] = Stack(27 - j) \cup Until5
                    /\ BusinessWay[j + 1] = Stack(26 - j) \cup WithTypes
        /\ j = 5 => BusinessWay[j] = Stack(27 - j) \cup WithTypes
                    /\ BusinessWay[j + 1] = Stack(26 - j) \cup WithTypes
        /\ j = 6 => BusinessWay[j] = Stack(27 - j) \cup WithTypes
                    /\ BusinessWay[j + 1] = Stack(26 - j) \cup Until2
        /\ j > 6 => BusinessWay[j] = Stack(27 - j) \cup Until2
                    /\ BusinessWay[j + 1] = Stack(26 - j) \cup Until2
    BY DEF BusinessWay
  <2> QED
    BY <2>3, <2>4
<1> QED
  BY <1>1, <1>2 DEF Follows

LEMMA TokensDown == Follows(DownTokens, TokensWay)
<1>1. Len(DownTokens) = 1
  BY DEF DownTokens
<1>2. Goes(TokensWay[1], DownTokens[1], TokensWay[2])
  <2>1. DownTokens[1] = DropTable(Order[27]) /\ 27 \in 1..Height /\ 27 > 23 /\ 27 - 1 = 26
    BY DEF DownTokens, Order, Height
  <2>2. Goes(Stack(27) \cup Until5, DropTable(Order[27]), Stack(27 - 1) \cup Until5)
    BY <2>1, StackDown
  <2> QED
    BY <2>1, <2>2 DEF TokensWay
<1> QED
  BY <1>1, <1>2 DEF Follows

LEMMA DecompositionDown == Follows(DownDecomposition, DecompositionWay)
<1>1. Len(DownDecomposition) = 5
  BY DEF DownDecomposition
<1>2. /\ Goes(DecompositionWay[1], DownDecomposition[1], DecompositionWay[2])
      /\ Goes(DecompositionWay[2], DownDecomposition[2], DecompositionWay[3])
      /\ Goes(DecompositionWay[3], DownDecomposition[3], DecompositionWay[4])
      /\ Goes(DecompositionWay[4], DownDecomposition[4], DecompositionWay[5])
  BY DecompositionLayers DEF DecompositionWay, DownDecomposition, Height, Attempts
<1>3. Goes(DecompositionWay[5], DownDecomposition[5], DecompositionWay[6])
  <2>1. DownDecomposition[5] = DropTable(Order[28]) /\ 28 \in 1..Height /\ 28 > 23 /\ 28 - 1 = 27
    BY DEF DownDecomposition, Order, Height
  <2>2. Goes(Stack(28) \cup Until5, DropTable(Order[28]), Stack(28 - 1) \cup Until5)
    BY <2>1, StackDown
  <2> QED
    BY <2>1, <2>2 DEF DecompositionWay
<1> QED
  BY <1>1, <1>2, <1>3 DEF Follows

LEMMA ArchivesDown == Follows(DownArchives, ArchivesWay)
<1>1. Len(DownArchives) = 2
  BY DEF DownArchives
<1>2. Goes(ArchivesWay[1], DownArchives[1], ArchivesWay[2])
  BY StillGoes DEF DownArchives, ArchivesWay
<1>3. Goes(ArchivesWay[2], DownArchives[2], ArchivesWay[3])
  BY LaterLayers DEF ArchivesWay, DownArchives, Snapshot, Height
<1> QED
  BY <1>1, <1>2, <1>3 DEF Follows

LEMMA AssignmentsDown == Follows(DownAssignments, AssignmentsWay)
<1>1. Len(DownAssignments) = 4
  BY DEF DownAssignments
<1>2. /\ Goes(AssignmentsWay[1], DownAssignments[1], AssignmentsWay[2])
      /\ Goes(AssignmentsWay[2], DownAssignments[2], AssignmentsWay[3])
      /\ Goes(AssignmentsWay[3], DownAssignments[3], AssignmentsWay[4])
      /\ Goes(AssignmentsWay[4], DownAssignments[4], AssignmentsWay[5])
  BY LaterLayers DEF AssignmentsWay, DownAssignments, Height
<1> QED
  BY <1>1, <1>2 DEF Follows

LEMMA DepartmentsDown == Follows(DownDepartments, DepartmentsWay)
<1>1. Len(DownDepartments) = 1
  BY DEF DownDepartments
<1>2. Goes(DepartmentsWay[1], DownDepartments[1], DepartmentsWay[2])
  BY LaterLayers DEF DepartmentsWay, DownDepartments, Height
<1> QED
  BY <1>1, <1>2 DEF Follows

-----------------------------------------------------------------------------
(* The rows along the way *)

\* The schema S takes the rows; some kinds of them are not there before a revision.
Fitting(rows, S, r) ==
  /\ \A k \in rows : Table(TableOf[k]) \in S
  /\ "free_cycles" \in rows => ReportFormat \notin S
  /\ "bare_archives" \in rows => Snapshot \notin S /\ r >= 8
  /\ "node_reminders" \in rows => TaskTypes \notin S /\ r >= 9

\* A statement of the scripts from or to the revision r does not constrain rows that it
\* has not looked for.
Careful(s, r) ==
  /\ s.does = "alter" =>
       /\ \A o \in s.takes : o[1] # "table"
       /\ ReportFormat \in s.adds => "free_cycles" \in s.bars
       /\ Snapshot \in s.adds => "bare_archives" \in s.bars \/ r < 8
       /\ TaskTypes \in s.adds => "node_reminders" \in s.bars \/ r < 9
  /\ s.does = "rewrite" => s.from = "bare_archives" /\ s.to = "archives"

LEMMA FittingStep ==
  ASSUME NEW st, Typed(st), st.outcome = "ok", NEW s, WellFormed(s), NEW T, NEW r \in Nat,
         Goes(st.schema, s, T), Careful(s, r), Fitting(st.rows, st.schema, r),
         Execute(st, s).outcome = "ok"
  PROVE  Fitting(Execute(st, s).rows, T, r)
<1> DEFINE done == Execute(st, s)
<1>1. CASE s.does = "alter"
  <2>1. done.rows = st.rows /\ s.bars \cap st.rows = {}
    BY <1>1 DEF Execute, ExecuteAlter, Broken, Refusal, Typed, Goes
  <2>2. T = (st.schema \ s.takes) \cup s.adds
    BY <1>1 DEF Goes
  <2>3. \A t : Table(t)[1] = "table"
    BY DEF Table
  <2> HIDE DEF done
  <2>4. \A k \in done.rows : Table(TableOf[k]) \in T
    BY <1>1, <2>1, <2>2, <2>3 DEF Careful, Fitting
  <2>5. "free_cycles" \in done.rows => ReportFormat \notin T
    BY <1>1, <2>1, <2>2 DEF Careful, Fitting
  <2>6. "bare_archives" \in done.rows => Snapshot \notin T /\ r >= 8
    BY <1>1, <2>1, <2>2 DEF Careful, Fitting
  <2>7. "node_reminders" \in done.rows => TaskTypes \notin T /\ r >= 9
    BY <1>1, <2>1, <2>2 DEF Careful, Fitting
  <2> QED
    BY <2>4, <2>5, <2>6, <2>7 DEF Fitting, done
<1>2. CASE s.does = "drop"
  <2>1. done.rows = { k \in st.rows : TableOf[k] # s.table }
    BY <1>2 DEF Execute, ExecuteDrop, Broken, Typed, Goes
  <2>2. T = { o \in st.schema : o[2] # s.table }
    BY <1>2 DEF Goes
  <2>3. \A t : Table(t)[2] = t
    BY DEF Table
  <2> HIDE DEF done
  <2> QED
    BY <2>1, <2>2, <2>3 DEF Fitting, done
<1>3. CASE s.does = "rewrite"
  <2>1. T = st.schema
    BY <1>3 DEF Goes
  <2>2. TableOf["bare_archives"] = TableOf["archives"]
    BY DEF TableOf
  <2>3. done.rows = IF "bare_archives" \in st.rows
                      THEN (st.rows \ { "bare_archives" }) \cup { "archives" } ELSE st.rows
    BY <1>3 DEF Execute, ExecuteRewrite, Typed, Careful
  <2> HIDE DEF done
  <2> QED
    BY <2>1, <2>2, <2>3 DEF Fitting, done
<1>4. CASE s.does \in { "preflight", "import", "keep" }
  <2>1. T = st.schema
    BY <1>4 DEF Goes
  <2>2. done.rows = st.rows
    BY <1>4 DEF Execute, ExecuteImport, Refusal, Broken, Typed
  <2> QED
    BY <2>1, <2>2
<1> QED
  BY <1>1, <1>2, <1>3, <1>4 DEF WellFormed

\* And a statement that goes from its schema to another is not in error.
LEMMA GoesWorks ==
  ASSUME NEW st, Typed(st), st.outcome = "ok", NEW s, WellFormed(s), NEW T,
         Goes(st.schema, s, T),
         s.does = "import" => Admissible(Backfill(st.log))
  PROVE  /\ Execute(st, s).outcome # "broken"
         /\ Execute(st, s).outcome = "ok" => Execute(st, s).schema = T
<1>1. CASE s.does = "alter"
  BY <1>1 DEF Execute, ExecuteAlter, Refusal, Typed, Goes
<1>2. CASE s.does = "drop"
  BY <1>2 DEF Execute, ExecuteDrop, Typed, Goes
<1>3. CASE s.does = "rewrite"
  BY <1>3 DEF Execute, ExecuteRewrite, Typed, Goes
<1>4. CASE s.does = "import"
  BY <1>4 DEF Execute, ExecuteImport, Typed, Goes
<1>5. CASE s.does \in { "preflight", "keep" }
  BY <1>5 DEF Execute, Refusal, Typed, Goes
<1> QED
  BY <1>1, <1>2, <1>3, <1>4, <1>5 DEF WellFormed

LEMMA CarefulAlter ==
  ASSUME NEW needs, NEW adds, NEW takes, NEW bars, NEW r,
         \A o \in takes : o[1] # "table",
         \A o \in adds : o # ReportFormat /\ o # Snapshot /\ o # TaskTypes
  PROVE  Careful(Alter(needs, adds, takes, bars), r)
BY DEF Alter, Careful

LEMMA CarefulForms ==
  ASSUME NEW r
  PROVE  /\ \A t, refs : Careful(Create(t, refs), r)
         /\ \A t, cols : Careful(AddColumns(t, cols), r) /\ Careful(DropColumns(t, cols), r)
         /\ \A t, u : Careful(AddReference(t, u), r) /\ Careful(DropReference(t, u), r)
         /\ \A t, c : Careful(DropCheck(t, c), r)
         /\ \A t, c, bars : Check(t, c) # ReportFormat /\ Check(t, c) # TaskTypes =>
              Careful(AddCheck(t, c, bars), r)
         /\ \A bars : Careful(RefuseIf(bars), r)
         /\ \A t : Careful(DropTable(t), r)
         /\ Careful(Preflight, r) /\ Careful(ImportReviews, r) /\ Careful(KeepReviews, r)
         /\ Careful(Rewrite("bare_archives", "archives"), r)
<1>1. /\ \A t : Table(t)[1] = "table"
      /\ \A t, u : Reference(t, u)[1] = "reference"
      /\ \A t, c : /\ Column(t, c)[1] = "column"
                   /\ Check(t, c)[1] = "check"
                   /\ NotNull(t, c)[1] = "not null"
  BY DEF Table, Reference, Column, Check, NotNull
<1>2. ReportFormat[1] = "check" /\ TaskTypes[1] = "check" /\ Snapshot[1] = "not null"
  BY <1>1 DEF ReportFormat, TaskTypes, Snapshot
<1>3. \A t, refs : Careful(Create(t, refs), r)
  <2> TAKE t, refs
  <2> DEFINE adds == { Table(t) } \cup { Reference(t, u) : u \in refs }
  <2>1. \A o \in adds : o # ReportFormat /\ o # Snapshot /\ o # TaskTypes
    BY <1>1, <1>2
  <2> QED
    BY <2>1, CarefulAlter DEF Create
<1>4. \A t, cols : Careful(AddColumns(t, cols), r) /\ Careful(DropColumns(t, cols), r)
  <2> TAKE t, cols
  <2> DEFINE columns == { Column(t, c) : c \in cols }
  <2>1. \A o \in columns : o[1] # "table" /\ o # ReportFormat /\ o # Snapshot /\ o # TaskTypes
    BY <1>1, <1>2
  <2> QED
    BY <2>1, CarefulAlter DEF AddColumns, DropColumns
<1>5. \A t, u : Careful(AddReference(t, u), r) /\ Careful(DropReference(t, u), r)
  <2> TAKE t, u
  <2> DEFINE references == { Reference(t, u) }
  <2>1. \A o \in references : o[1] # "table" /\ o # ReportFormat /\ o # Snapshot /\ o # TaskTypes
    BY <1>1, <1>2
  <2> QED
    BY <2>1, CarefulAlter DEF AddReference, DropReference
<1>6. \A t, c : Careful(DropCheck(t, c), r)
  <2> TAKE t, c
  <2> DEFINE checks == { Check(t, c) }
  <2>1. \A o \in checks : o[1] # "table"
    BY <1>1
  <2> QED
    BY <2>1, CarefulAlter DEF DropCheck
<1>7. \A t, c, bars : Check(t, c) # ReportFormat /\ Check(t, c) # TaskTypes =>
        Careful(AddCheck(t, c, bars), r)
  <2> TAKE t, c, bars
  <2> HAVE Check(t, c) # ReportFormat /\ Check(t, c) # TaskTypes
  <2> DEFINE checks == { Check(t, c) }
  <2>1. \A o \in checks : o # ReportFormat /\ o # Snapshot /\ o # TaskTypes
    BY <1>1, <1>2
  <2> QED
    BY <2>1, CarefulAlter DEF AddCheck
<1>8. \A bars : Careful(RefuseIf(bars), r)
  BY CarefulAlter DEF RefuseIf
<1>9. /\ \A t : Careful(DropTable(t), r)
      /\ Careful(Preflight, r) /\ Careful(ImportReviews, r) /\ Careful(KeepReviews, r)
      /\ Careful(Rewrite("bare_archives", "archives"), r)
  BY DEF Careful, DropTable, Preflight, ImportReviews, KeepReviews, Rewrite
<1> QED
  BY <1>3, <1>4, <1>5, <1>6, <1>7, <1>8, <1>9

\* No statement of a script constrains rows that it has not looked for.
Heeds(script, r) == \A j \in 1..Len(script) : Careful(script[j], r)

LEMMA EarlyScriptsHeed ==
  ASSUME NEW r
  PROVE  /\ Heeds(UpInitial, r) /\ Heeds(DownInitial, r)
         /\ Heeds(UpReports, r) /\ Heeds(DownReports, r)
         /\ Heeds(UpReviews, r) /\ Heeds(DownReviews, r)
         /\ Heeds(UpChanges, r) /\ Heeds(DownChanges, r)
<1> USE CarefulForms
<1>1. Heeds(UpInitial, r)
  <2>1. \A s \in { Departments, Users, TaskInputs, Tasks, AiExtractionRecords, TaskNodes,
                   TaskParticipants, TaskStatusLogs, TaskNodeDependencies,
                   TaskNodeParticipants } : Careful(s, r)
    BY DEF Departments, Users, TaskInputs, Tasks, AiExtractionRecords, TaskNodes,
       TaskParticipants, TaskStatusLogs, TaskNodeDependencies, TaskNodeParticipants
  <2> QED
    BY <2>1 DEF Heeds, UpInitial
<1>2. Heeds(DownInitial, r)
  BY DEF Heeds, DownInitial
<1>3. Heeds(UpReports, r)
  <2>1. Careful(ReportCyclePreflight, r)
    BY DEF ReportCyclePreflight
  <2>2. Careful(ReportCycleFormat, r)
    <3>1. ReportFormat # Snapshot /\ ReportFormat # TaskTypes
      BY DEF ReportFormat, Snapshot, TaskTypes, Check, NotNull
    <3>2. ReportCycleFormat = Alter({ Table("tasks") }, { ReportFormat }, {}, { "free_cycles" })
      BY DEF ReportCycleFormat, AddCheck, ReportFormat
    <3> QED
      BY <3>1, <3>2 DEF Careful, Alter
  <2>3. Careful(TaskProgressReports, r) /\ Careful(TaskIssues, r)
    BY DEF TaskProgressReports, TaskIssues
  <2> QED
    BY <2>1, <2>2, <2>3 DEF Heeds, UpReports
<1>4. Heeds(DownReports, r)
  BY DEF Heeds, DownReports
<1>5. Heeds(UpReviews, r) /\ Heeds(DownReviews, r)
  <2>1. Careful(TaskCompletionReviews, r)
    BY DEF TaskCompletionReviews
  <2> QED
    BY <2>1 DEF Heeds, UpReviews, DownReviews
<1>6. Heeds(UpChanges, r) /\ Heeds(DownChanges, r)
  BY DEF Heeds, UpChanges, DownChanges, TaskChangeRequests
<1> QED
  BY <1>1, <1>2, <1>3, <1>4, <1>5, <1>6

LEMMA LaterScriptsHeed ==
  ASSUME NEW r
  PROVE  /\ r = 4 => Heeds(UpBusiness, r)
         /\ Heeds(DownBusiness, r)
         /\ Heeds(UpTokens, r) /\ Heeds(DownTokens, r)
         /\ Heeds(UpDecomposition, r) /\ Heeds(DownDecomposition, r)
         /\ Heeds(UpArchives, r) /\ Heeds(DownArchives, r)
         /\ Heeds(UpAssignments, r) /\ Heeds(DownAssignments, r)
         /\ Heeds(UpDepartments, r) /\ Heeds(DownDepartments, r)
<1> USE CarefulForms
<1>1. /\ ReportFormat # Snapshot /\ ReportFormat # TaskTypes /\ Snapshot # TaskTypes
      /\ AllTypes # ReportFormat /\ AllTypes # TaskTypes
      /\ Check("task_nodes", "assignment_status") # ReportFormat
      /\ Check("task_nodes", "assignment_status") # TaskTypes
  BY DEF ReportFormat, Snapshot, TaskTypes, AllTypes, Check, NotNull
<1>2. ASSUME r = 4
      PROVE  Heeds(UpBusiness, r)
  <2>1. \A s \in { EmployeeProfiles, PerformanceMetrics, TaskPerformanceMatches,
                   WorkloadSnapshots, TaskPriorityScores, TaskConflicts, ReminderRules,
                   Notifications, TaskArchives, OperationLogs, UserAuthorizedScopes,
                   SystemParameters } : Careful(s, r)
    BY DEF EmployeeProfiles, PerformanceMetrics, TaskPerformanceMatches, WorkloadSnapshots,
       TaskPriorityScores, TaskConflicts, ReminderRules, Notifications, TaskArchives,
       OperationLogs, UserAuthorizedScopes, SystemParameters
  <2>2. Careful(ReminderTypes, r)
    <3>1. ReminderTypes = Alter({ Table("reminder_rules") }, { TaskTypes }, {}, {})
      BY DEF ReminderTypes, AddCheck, TaskTypes
    <3> QED
      BY <1>1, <1>2, <3>1 DEF Careful, Alter
  <2>3. Careful(SnapshotRequired, r)
    <3>1. SnapshotRequired = Alter({ Table("task_archives") }, { Snapshot }, {}, {})
      BY DEF SnapshotRequired, Snapshot
    <3> QED
      BY <1>1, <1>2, <3>1 DEF Careful, Alter
  <2> QED
    BY <2>1, <2>2, <2>3 DEF Heeds, UpBusiness
<1>3. Heeds(DownBusiness, r)
  BY DEF Heeds, DownBusiness
<1>4. Heeds(UpTokens, r) /\ Heeds(DownTokens, r)
  BY DEF Heeds, UpTokens, DownTokens, AuthRefreshTokens
<1>5. Heeds(UpDecomposition, r) /\ Heeds(DownDecomposition, r)
  <2>1. Careful(TaskDecompositionRecords, r)
    BY DEF TaskDecompositionRecords
  <2> QED
    BY <2>1 DEF Heeds, UpDecomposition, DownDecomposition
<1>6. Heeds(UpArchives, r) /\ Heeds(DownArchives, r)
  <2>1. Snapshot[1] # "table"
    BY DEF Snapshot, NotNull
  <2>2. Careful(Alter({}, {}, { Snapshot }, {}), r)
    BY <2>1 DEF Careful, Alter
  <2>3. Careful(Alter({}, { Snapshot }, {}, { "bare_archives" }), r)
    BY <1>1 DEF Careful, Alter
  <2> QED
    BY <2>2, <2>3 DEF Heeds, UpArchives, DownArchives, Snapshot
<1>7. Heeds(UpAssignments, r) /\ Heeds(DownAssignments, r)
  <2>1. Careful(AddCheck("reminder_rules", "task reminder types", { "node_reminders" }), r)
    BY <1>1 DEF Careful, AddCheck, Alter, TaskTypes
  <2>2. /\ Careful(AddCheck("reminder_rules", "task and node reminder types", {}), r)
        /\ Careful(AddCheck("task_nodes", "assignment_status", {}), r)
    BY <1>1 DEF AllTypes
  <2>3. Heeds(UpAssignments, r)
    <3>1. \A s \in { UpAssignments[1], UpAssignments[2], UpAssignments[3], UpAssignments[4] } :
            Careful(s, r)
      BY <2>2 DEF UpAssignments
    <3>2. Len(UpAssignments) = 4
      BY DEF UpAssignments
    <3> QED
      BY <3>1, <3>2 DEF Heeds
  <2>4. Heeds(DownAssignments, r)
    <3>1. \A s \in { DownAssignments[1], DownAssignments[2], DownAssignments[3],
                     DownAssignments[4] } : Careful(s, r)
      BY <2>1 DEF DownAssignments
    <3>2. Len(DownAssignments) = 4
      BY DEF DownAssignments
    <3> QED
      BY <3>1, <3>2 DEF Heeds
  <2> QED
    BY <2>3, <2>4
<1>8. Heeds(UpDepartments, r) /\ Heeds(DownDepartments, r)
  BY DEF Heeds, UpDepartments, DownDepartments
<1> QED
  BY <1>2, <1>3, <1>4, <1>5, <1>6, <1>7, <1>8

-----------------------------------------------------------------------------
(* All the scripts *)

UpPaths ==
  << InitialPath, ReportsPath, ReviewsPath, ChangesPath, BusinessPath, TokensPath,
     DecompositionPath, ArchivesPath, AssignmentsPath, DepartmentsPath >>

DownPaths ==
  << InitialWay, ReportsWay, ReviewsWay, ChangesWay, BusinessWay, TokensWay,
     DecompositionWay, ArchivesWay, AssignmentsWay, DepartmentsWay >>

\* The schema of a revision.
Schemas ==
  << Stack(10), Stack(12) \cup Until2, Stack(13) \cup Until2, Stack(14) \cup Until2,
     Stack(26) \cup Until5, Stack(27) \cup Until5, Stack(28) \cup Until7,
     Stack(28) \cup Until8, Stack(28) \cup Until9, Stack(28) \cup Until10 >>

SchemaOf(r) == IF r = 0 THEN {} ELSE Schemas[r]

\* A script leads from the schema of one revision to that of another.
Between(script, path, from, to) == path[1] = from /\ path[Len(script) + 1] = to

LEMMA UpsLead ==
  \A r \in 1..10 : Between(Upgrades[r], UpPaths[r], SchemaOf(r - 1), SchemaOf(r))
<1>0. Stack(0) = {}
  BY DEF Stack
<1>1. Between(UpInitial, InitialPath, SchemaOf(0), SchemaOf(1))
  BY <1>0 DEF Between, UpInitial, InitialPath, SchemaOf, Schemas
<1>2. Between(UpReports, ReportsPath, SchemaOf(1), SchemaOf(2))
  BY DEF Between, UpReports, ReportsPath, SchemaOf, Schemas
<1>3. Between(UpReviews, ReviewsPath, SchemaOf(2), SchemaOf(3))
  BY DEF Between, UpReviews, ReviewsPath, SchemaOf, Schemas
<1>4. Between(UpChanges, ChangesPath, SchemaOf(3), SchemaOf(4))
  BY DEF Between, UpChanges, ChangesPath, SchemaOf, Schemas
<1>5. Between(UpBusiness, BusinessPath, SchemaOf(4), SchemaOf(5))
  BY DEF Between, UpBusiness, BusinessPath, SchemaOf, Schemas
<1>6. Between(UpTokens, TokensPath, SchemaOf(5), SchemaOf(6))
  BY DEF Between, UpTokens, TokensPath, SchemaOf, Schemas
<1>7. Between(UpDecomposition, DecompositionPath, SchemaOf(6), SchemaOf(7))
  BY DEF Between, UpDecomposition, DecompositionPath, SchemaOf, Schemas
<1>8. Between(UpArchives, ArchivesPath, SchemaOf(7), SchemaOf(8))
  BY DEF Between, UpArchives, ArchivesPath, SchemaOf, Schemas
<1>9. Between(UpAssignments, AssignmentsPath, SchemaOf(8), SchemaOf(9))
  BY DEF Between, UpAssignments, AssignmentsPath, SchemaOf, Schemas
<1>10. Between(UpDepartments, DepartmentsPath, SchemaOf(9), SchemaOf(10))
  BY DEF Between, UpDepartments, DepartmentsPath, SchemaOf, Schemas
<1> QED
  BY <1>1, <1>2, <1>3, <1>4, <1>5, <1>6, <1>7, <1>8, <1>9, <1>10 DEF Upgrades, UpPaths

LEMMA DownsLead ==
  \A r \in 1..10 : Between(Downgrades[r], DownPaths[r], SchemaOf(r), SchemaOf(r - 1))
<1>0. Stack(0) = {}
  BY DEF Stack
<1>1. Between(DownInitial, InitialWay, SchemaOf(1), SchemaOf(0))
  BY <1>0 DEF Between, DownInitial, InitialWay, SchemaOf, Schemas
<1>2. Between(DownReports, ReportsWay, SchemaOf(2), SchemaOf(1))
  BY DEF Between, DownReports, ReportsWay, SchemaOf, Schemas
<1>3. Between(DownReviews, ReviewsWay, SchemaOf(3), SchemaOf(2))
  BY DEF Between, DownReviews, ReviewsWay, SchemaOf, Schemas
<1>4. Between(DownChanges, ChangesWay, SchemaOf(4), SchemaOf(3))
  BY DEF Between, DownChanges, ChangesWay, SchemaOf, Schemas
<1>5. Between(DownBusiness, BusinessWay, SchemaOf(5), SchemaOf(4))
  BY DEF Between, DownBusiness, BusinessWay, SchemaOf, Schemas
<1>6. Between(DownTokens, TokensWay, SchemaOf(6), SchemaOf(5))
  BY DEF Between, DownTokens, TokensWay, SchemaOf, Schemas
<1>7. Between(DownDecomposition, DecompositionWay, SchemaOf(7), SchemaOf(6))
  BY DEF Between, DownDecomposition, DecompositionWay, SchemaOf, Schemas
<1>8. Between(DownArchives, ArchivesWay, SchemaOf(8), SchemaOf(7))
  BY DEF Between, DownArchives, ArchivesWay, SchemaOf, Schemas
<1>9. Between(DownAssignments, AssignmentsWay, SchemaOf(9), SchemaOf(8))
  BY DEF Between, DownAssignments, AssignmentsWay, SchemaOf, Schemas
<1>10. Between(DownDepartments, DepartmentsWay, SchemaOf(10), SchemaOf(9))
  BY DEF Between, DownDepartments, DepartmentsWay, SchemaOf, Schemas
<1> QED
  BY <1>1, <1>2, <1>3, <1>4, <1>5, <1>6, <1>7, <1>8, <1>9, <1>10 DEF Downgrades, DownPaths

LEMMA UpsFollow ==
  \A r \in 1..10 : Follows(Upgrades[r], UpPaths[r]) /\ Heeds(Upgrades[r], r - 1)
<1>1. \A r \in 1..10 : Follows(Upgrades[r], UpPaths[r])
  BY InitialUp, ReportsUp, ReviewsUp, ChangesUp, BusinessUp, TokensUp, DecompositionUp,
     ArchivesUp, AssignmentsUp, DepartmentsUp DEF Upgrades, UpPaths
<1>2. \A r \in 1..10 : Heeds(Upgrades[r], r - 1)
  BY EarlyScriptsHeed, LaterScriptsHeed DEF Upgrades
<1> QED
  BY <1>1, <1>2

LEMMA DownsFollow ==
  \A r \in 1..10 : Follows(Downgrades[r], DownPaths[r]) /\ Heeds(Downgrades[r], r)
<1>1. \A r \in 1..10 : Follows(Downgrades[r], DownPaths[r])
  BY InitialDown, ReportsDown, ReviewsDown, ChangesDown, BusinessDown, TokensDown,
     DecompositionDown, ArchivesDown, AssignmentsDown, DepartmentsDown DEF Downgrades, DownPaths
<1>2. \A r \in 1..10 : Heeds(Downgrades[r], r)
  BY EarlyScriptsHeed, LaterScriptsHeed DEF Downgrades
<1> QED
  BY <1>1, <1>2

-----------------------------------------------------------------------------
(* An empty database *)

\* Two functions that start and go on in the same way are the same.
LEMMA SameValues ==
  ASSUME NEW n \in Nat, NEW f, NEW g, f[0] = g[0],
         \A i \in 1..n : f[i - 1] = g[i - 1] => f[i] = g[i]
  PROVE  \A i \in 0..n : f[i] = g[i]
<1> DEFINE T == { i \in 0..n : f[i] # g[i] }
<1> SUFFICES ASSUME T # {} PROVE FALSE
  OBVIOUS
<1>1. T \in SUBSET Nat
  OBVIOUS
<1>2. Min(T) \in T /\ \A y \in T : Min(T) <= y
  BY <1>1, LeastVersion
<1>3. Min(T) \in 1..n
  BY <1>2
<1>4. Min(T) - 1 \in 0..n /\ ~(Min(T) <= Min(T) - 1)
  BY <1>3
<1>5. f[Min(T) - 1] = g[Min(T) - 1]
  BY <1>2, <1>4
<1> QED
  BY <1>2, <1>3, <1>5

\* What a script makes of a state is where its statements lead, one by one.
LEMMA RunSteps ==
  ASSUME NEW st, NEW script, Len(script) \in Nat, NEW w, w[0] = st,
         \A i \in 1..Len(script) : w[i] = Execute(w[i - 1], script[i])
  PROVE  Run(st, script) = w[Len(script)]
<1> DEFINE n == Len(script)
           Makes(f) == f = [ i \in 0..n |-> IF i = 0 THEN st ELSE Execute(f[i - 1], script[i]) ]
           v == [ i \in 0..n |-> w[i] ]
<1>1. Makes(v)
  <2>1. ASSUME NEW i \in 0..n, i # 0
        PROVE  i \in 1..n /\ i - 1 \in 0..n
    BY <2>1
  <2>2. \A i \in 0..n : v[i] = IF i = 0 THEN st ELSE Execute(v[i - 1], script[i])
    BY <2>1
  <2> QED
    BY <2>2
<1> PICK after : after = CHOOSE f : Makes(f)
  OBVIOUS
<1>2. Makes(after)
  BY <1>1
<1>3. after[0] = w[0]
  <2>1. 0 \in 0..n
    OBVIOUS
  <2>2. after[0] = st
    BY <1>2, <2>1
  <2> QED
    BY <2>2
<1>4. ASSUME NEW i \in 1..n, after[i - 1] = w[i - 1]
      PROVE  after[i] = w[i]
  <2>1. i \in 0..n /\ i # 0
    OBVIOUS
  <2>2. after[i] = Execute(after[i - 1], script[i])
    BY <1>2, <2>1
  <2> QED
    BY <1>4, <2>2
<1>5. Run(st, script) = after[n]
  BY DEF Run
<1>6. n \in Nat /\ \A i \in 1..n : after[i - 1] = w[i - 1] => after[i] = w[i]
  BY <1>4
<1> HIDE DEF n
<1>7. \A i \in 0..n : after[i] = w[i]
  BY ONLY <1>3, <1>6, SameValues
<1> QED
  BY <1>5, <1>6, <1>7 DEF n

Bare(S) == [ schema |-> S, rows |-> {}, status |-> "in_progress",
             log |-> NoHistory, reviews |-> {}, outcome |-> "ok" ]

LEMMA NothingToImport ==
  ~Refused("in_progress", NoHistory) /\ Backfill(NoHistory) = {} /\ Admissible({})
<1>1. \A v \in Versions : NoHistory[v].action = "none"
  BY DEF NoHistory, NoEntry
<1>2. Submitted(NoHistory) = {} /\ Approved(NoHistory) = {}
  BY <1>1 DEF Submitted, Approved
<1>3. Unresolved(NoHistory) = {} /\ Cardinality({}) = 0
  BY <1>2, FS_EmptySet DEF Unresolved
<1>4. ~Refused("in_progress", NoHistory)
  BY <1>2, <1>3 DEF Refused, LacksSubmission, NullActor, ApprovalLacksSubmission,
     InconsistentApproval, SeveralUnresolved, StaleUnresolved, ConflictsWithStatus,
     LatestConflicts
<1>5. Backfill(NoHistory) = {}
  BY <1>2 DEF Backfill
<1>6. Admissible({})
  BY <1>3 DEF Admissible
<1> QED
  BY <1>4, <1>5, <1>6

\* Without rows every statement does what it says.
LEMMA BareStep ==
  ASSUME NEW S, NEW s, WellFormed(s), NEW T, Goes(S, s, T)
  PROVE  Execute(Bare(S), s) = Bare(T)
<1> DEFINE st == Bare(S)
<1>0. st.outcome = "ok" /\ st.schema = S /\ st.rows = {} /\ st.reviews = {}
      /\ st.log = NoHistory /\ st.status = "in_progress"
  BY DEF Bare
<1>1. CASE s.does = "alter"
  <2>1. s.needs \cup s.takes \subseteq S /\ s.adds \cap S = {} /\ T = (S \ s.takes) \cup s.adds
    BY <1>1 DEF Goes
  <2>2. Execute(st, s) = [ st EXCEPT !.schema = (S \ s.takes) \cup s.adds ]
    BY <1>0, <1>1, <2>1 DEF Execute, ExecuteAlter
  <2> QED
    BY <2>1, <2>2 DEF Bare
<1>2. CASE s.does = "drop"
  <2>1. /\ Table(s.table) \in S
        /\ ~ \E o \in S : o[1] = "reference" /\ o[3] = s.table /\ o[2] # s.table
        /\ T = { o \in S : o[2] # s.table }
    BY <1>2 DEF Goes
  <2>2. Execute(st, s) =
          [ st EXCEPT !.schema  = { o \in @ : o[2] # s.table },
                      !.rows    = { k \in @ : TableOf[k] # s.table },
                      !.reviews = IF s.table = "task_completion_reviews" THEN {} ELSE @,
                      !.log     = IF s.table = "task_status_logs" THEN NoHistory ELSE @,
                      !.status  = IF s.table = "tasks" THEN "in_progress" ELSE @ ]
    BY <1>0, <1>2, <2>1 DEF Execute, ExecuteDrop
  <2> QED
    BY <2>1, <2>2 DEF Bare
<1>3. CASE s.does \in { "rewrite", "preflight", "keep" }
  <2>1. T = S
    BY <1>3 DEF Goes
  <2>2. Execute(st, s) = st
    BY <1>0, <1>3, NothingToImport DEF Execute, ExecuteRewrite
  <2> QED
    BY <2>1, <2>2
<1>4. CASE s.does = "import"
  <2>1. T = S
    BY <1>4 DEF Goes
  <2>2. Execute(st, s) = [ st EXCEPT !.reviews = {} ]
    BY <1>0, <1>4, NothingToImport DEF Execute, ExecuteImport
  <2> QED
    BY <2>1, <2>2 DEF Bare
<1> QED
  BY <1>1, <1>2, <1>3, <1>4 DEF WellFormed

LEMMA BareRun ==
  ASSUME NEW script, Len(script) \in Nat, NEW path, Follows(script, path),
         \A i \in 1..Len(script) : WellFormed(script[i])
  PROVE  Run(Bare(path[1]), script) = Bare(path[Len(script) + 1])
<1> DEFINE n == Len(script)
           w == [ i \in 0..n |-> Bare(path[i + 1]) ]
<1>1. w[0] = Bare(path[1]) /\ w[n] = Bare(path[n + 1])
  OBVIOUS
<1>2. ASSUME NEW i \in 1..n
      PROVE  w[i] = Execute(w[i - 1], script[i])
  <2>1. i - 1 \in 0..n /\ i \in 0..n /\ (i - 1) + 1 = i
    OBVIOUS
  <2>2. w[i - 1] = Bare(path[i]) /\ w[i] = Bare(path[i + 1])
    BY <2>1
  <2>3. Goes(path[i], script[i], path[i + 1])
    BY DEF Follows
  <2> QED
    BY <2>2, <2>3, BareStep
<1> HIDE DEF w
<1> QED
  BY <1>1, <1>2, RunSteps

\* The scripts are those that were looked at.
LEMMA ScriptsAreKnown ==
  \A r \in 1..10 : /\ Len(Upgrades[r]) \in Nat /\ Len(Downgrades[r]) \in Nat
                   /\ \A i \in 1..Len(Upgrades[r]) : WellFormed(Upgrades[r][i])
                   /\ \A i \in 1..Len(Downgrades[r]) : WellFormed(Downgrades[r][i])
<1> TAKE r \in 1..10
<1>1. /\ Len(Upgrades[r]) \in Nat
      /\ \A i \in 1..Len(Upgrades[r]) : WellFormed(Upgrades[r][i])
  <2>1. CASE r = 3
    BY <2>1, Chain, ReviewScripts
  <2>2. CASE r # 3
    BY <2>2, Chain DEF Apart
  <2> QED
    BY <2>1, <2>2
<1>2. /\ Len(Downgrades[r]) \in Nat
      /\ \A i \in 1..Len(Downgrades[r]) : WellFormed(Downgrades[r][i])
  <2>1. CASE r = 1
    BY <2>1, Chain, InitialWayBack
  <2>2. CASE r = 3
    BY <2>2, Chain, ReviewScripts
  <2>3. CASE r \notin { 1, 3 }
    BY <2>3, Chain DEF Apart
  <2> QED
    BY <2>1, <2>2, <2>3
<1> QED
  BY <1>1, <1>2

\* What an empty database becomes: the schemas that the paths go through.
LEMMA BuiltIs ==
  \A r \in 0..10 : Built[r] = Bare(SchemaOf(r))
<1> DEFINE Makes(f) == f = [ r \in Revisions |->
                             IF r = 0 THEN Empty ELSE Run(f[r - 1], Upgrades[r]) ]
           v == [ r \in 0..10 |-> Bare(SchemaOf(r)) ]
<1>1. Revisions = 0..10
  BY Chain DEF Revisions
<1>2. Bare(SchemaOf(0)) = Empty
  BY DEF Bare, SchemaOf, Empty
<1>3. ASSUME NEW r \in 1..10
      PROVE  Run(Bare(SchemaOf(r - 1)), Upgrades[r]) = Bare(SchemaOf(r))
  <2>1. /\ UpPaths[r][1] = SchemaOf(r - 1)
        /\ UpPaths[r][Len(Upgrades[r]) + 1] = SchemaOf(r)
        /\ Follows(Upgrades[r], UpPaths[r])
    BY UpsLead, UpsFollow DEF Between
  <2>2. Run(Bare(UpPaths[r][1]), Upgrades[r]) = Bare(UpPaths[r][Len(Upgrades[r]) + 1])
    BY <2>1, ScriptsAreKnown, BareRun
  <2> QED
    BY <2>1, <2>2
<1>4. Makes(v)
  <2>1. ASSUME NEW r \in 0..10, r # 0
        PROVE  r \in 1..10 /\ r - 1 \in 0..10
    BY <2>1
  <2>2. \A r \in 0..10 : v[r] = IF r = 0 THEN Empty ELSE Run(v[r - 1], Upgrades[r])
    BY <1>2, <1>3, <2>1
  <2> QED
    BY <1>1, <2>2
<1>5. Makes(Built)
  <2>1. Built = CHOOSE f : Makes(f)
    BY DEF Built
  <2> QED
    BY <1>4, <2>1
<1>6. Built[0] = v[0]
  BY <1>1, <1>2, <1>5
<1>7. ASSUME NEW r \in 1..10, Built[r - 1] = v[r - 1]
      PROVE  Built[r] = v[r]
  <2>1. r \in 0..10 /\ r - 1 \in 0..10 /\ r # 0
    OBVIOUS
  <2>2. Built[r] = Run(Built[r - 1], Upgrades[r])
    BY <1>1, <1>5, <2>1
  <2> QED
    BY <1>3, <1>7, <2>1, <2>2
<1>8. 10 \in Nat /\ \A r \in 1..10 : Built[r - 1] = v[r - 1] => Built[r] = v[r]
  BY <1>7
<1> HIDE DEF v
<1>9. \A r \in 0..10 : Built[r] = v[r]
  BY ONLY <1>6, <1>8, SameValues
<1> QED
  BY <1>9 DEF v

-----------------------------------------------------------------------------
(* The schema and the rows of a command on its way *)

\* The path of the script that the command is at, and the schema it is at.
Way ==
  IF command.direction = "up" THEN UpPaths[command.revision + 1]
                              ELSE DownPaths[command.revision]

Reached ==
  IF command.revision = command.target THEN SchemaOf(command.revision) ELSE Way[command.next]

DbFits ==
  /\ db.state.schema = SchemaOf(db.revision)
  /\ Fitting(db.state.rows, db.state.schema, db.revision)

CommandFits ==
  /\ command.state.outcome # "broken"
  /\ command.state.outcome = "ok" =>
       /\ command.state.schema = Reached
       /\ Fitting(command.state.rows, command.state.schema, command.revision)

\* Inductive together with IInv, which says that an import has been looked at before.
SInv == DbFits /\ (command # Idle => CommandFits)

LEMMA WaysStart ==
  /\ \A r \in 0..9 : UpPaths[r + 1][1] = SchemaOf(r)
  /\ \A r \in 1..10 : DownPaths[r][1] = SchemaOf(r)
<1>1. ASSUME NEW r \in 0..9
      PROVE  UpPaths[r + 1][1] = SchemaOf(r)
  <2>1. r + 1 \in 1..10 /\ (r + 1) - 1 = r
    OBVIOUS
  <2>2. UpPaths[r + 1][1] = SchemaOf((r + 1) - 1)
    BY <2>1, UpsLead DEF Between
  <2> QED
    BY <2>1, <2>2
<1> QED
  BY <1>1, DownsLead DEF Between

\* A schema of a later revision takes the same rows.
LEMMA FittingUp ==
  ASSUME NEW rows, NEW S, NEW r \in Nat, Fitting(rows, S, r)
  PROVE  Fitting(rows, S, r + 1)
BY DEF Fitting

\* And that of an earlier one, once the way back has looked for those it would not take.
LEMMA FittingDown ==
  ASSUME NEW rows, NEW r \in 1..10, Fitting(rows, SchemaOf(r - 1), r)
  PROVE  Fitting(rows, SchemaOf(r - 1), r - 1)
<1>1. r = 8 => Snapshot \in SchemaOf(r - 1)
  BY DEF SchemaOf, Schemas, Until7, NodeColumns, TaskReferences, TaskColumns, Until5
<1>2. r = 9 => TaskTypes \in SchemaOf(r - 1)
  <2>1. TaskTypes # Snapshot
    BY DEF TaskTypes, Snapshot, Check, NotNull
  <2> QED
    BY <2>1 DEF SchemaOf, Schemas, Until8, Until7, NodeColumns, TaskReferences, TaskColumns, Until5
<1> QED
  BY <1>1, <1>2 DEF Fitting

LEMMA OnTheWay ==
  ASSUME CommandInv, command.revision # command.target
  PROVE  /\ Follows(Script, Way) /\ Heeds(Script, command.revision)
         /\ command.direction = "up" =>
              Way[Len(Script) + 1] = SchemaOf(command.revision + 1)
         /\ command.direction = "down" =>
              /\ command.revision \in 1..10
              /\ Way[Len(Script) + 1] = SchemaOf(command.revision - 1)
<1> DEFINE r == command.revision
<1>1. CASE command.direction = "up"
  <2>1. r + 1 \in 1..10 /\ (r + 1) - 1 = r
    BY <1>1 DEF CommandInv
  <2>2. Script = Upgrades[r + 1] /\ Way = UpPaths[r + 1]
    BY <1>1 DEF Script, Way
  <2>3. Follows(Upgrades[r + 1], UpPaths[r + 1]) /\ Heeds(Upgrades[r + 1], (r + 1) - 1)
    BY <2>1, UpsFollow
  <2>4. UpPaths[r + 1][Len(Upgrades[r + 1]) + 1] = SchemaOf(r + 1)
    BY <2>1, UpsLead DEF Between
  <2> QED
    BY <1>1, <2>1, <2>2, <2>3, <2>4
<1>2. CASE command.direction = "down"
  <2>1. r \in 1..10
    BY <1>2 DEF CommandInv
  <2>2. Script = Downgrades[r] /\ Way = DownPaths[r]
    BY <1>2 DEF Script, Way
  <2>3. Follows(Downgrades[r], DownPaths[r]) /\ Heeds(Downgrades[r], r)
    BY <2>1, DownsFollow
  <2>4. DownPaths[r][Len(Downgrades[r]) + 1] = SchemaOf(r - 1)
    BY <2>1, DownsLead DEF Between
  <2> QED
    BY <1>2, <2>1, <2>2, <2>3, <2>4
<1> QED
  BY <1>1, <1>2 DEF CommandInv

\* The import runs after the preflight has let the log through.
LEMMA ImportIsPrepared ==
  ASSUME CommandInv, command.revision # command.target, command.state.outcome = "ok",
         Script[command.next].does = "import"
  PROVE  Admissible(Backfill(command.state.log))
<1>1. command.next \in 1..Len(Script) /\ command.state.log \in Histories /\ Inside(command)
  BY DEF CommandInv, Typed
<1>2. CASE command.direction = "up" /\ command.revision = 2 /\ Script = UpReviews
  <2>1. command.next \in 1..3
    BY <1>1, <1>2, ReviewScripts
  <2>2. command.next # 1
    BY <1>2 DEF UpReviews, Preflight
  <2>3. Importing(command)
    BY <1>2, <2>1, <2>2 DEF Importing
  <2>4. ~Refused(command.state.status, command.state.log)
    BY <1>1, <2>3 DEF Inside
  <2> QED
    BY <1>1, <2>4, PreflightSuffices
<1>3. CASE command.direction = "down" /\ command.revision = 3 /\ Script = DownReviews
  <2>1. command.next \in 1..2
    BY <1>1, <1>3, ReviewScripts
  <2> QED
    BY <1>3, <2>1 DEF DownReviews, KeepReviews, DropTable
<1>4. CASE command.direction = "down" /\ command.revision = 1 /\ Script = DownInitial
  BY <1>1, <1>4, InitialWayBack DEF Aside
<1>5. CASE Apart(Script)
  BY <1>1, <1>5 DEF Apart, Distant, Aside
<1> QED
  BY <1>2, <1>3, <1>4, <1>5, ScriptIs

LEMMA MigrateFits ==
  ASSUME IInv, SInv, Migrate
  PROVE  CommandFits'
<1> DEFINE st == command.state
           s == Script[command.next]
           T == Way[command.next + 1]
           r == command.revision
           done == Execute(st, s)
<1>1. /\ CommandInv
      /\ r # command.target
      /\ st.outcome = "ok" /\ Typed(st)
      /\ command.next \in 1..Len(Script)
      /\ st.schema = Way[command.next] /\ Fitting(st.rows, st.schema, r)
      /\ r \in Nat
  BY DEF IInv, SInv, CommandFits, Reached, Migrate, CommandInv
<1>2. WellFormed(s) /\ Len(Script) \in Nat
  BY <1>1, ScriptIs
<1>3. Goes(st.schema, s, T) /\ Careful(s, r)
  BY <1>1, OnTheWay DEF Follows, Heeds
<1>4. s.does = "import" => Admissible(Backfill(st.log))
  BY <1>1, ImportIsPrepared
<1>5. done.outcome # "broken" /\ (done.outcome = "ok" => done.schema = T)
  BY <1>1, <1>2, <1>3, <1>4, GoesWorks
<1>6. done.outcome = "ok" => Fitting(done.rows, T, r)
  BY <1>1, <1>2, <1>3, FittingStep
<1>7. /\ command'.state = done
      /\ command'.direction = command.direction
      /\ command'.target = command.target
      /\ IF command.next < Len(Script)
           THEN command'.next = command.next + 1 /\ command'.revision = r
           ELSE /\ command'.next = 1
                /\ command'.revision = r + (IF command.direction = "up" THEN 1 ELSE -1)
  BY <1>1 DEF Migrate, CommandInv
<1> HIDE DEF done
<1>8. CASE command.next < Len(Script)
  <2>1. Reached' = T
    BY <1>1, <1>7, <1>8 DEF Reached, Way
  <2> QED
    BY <1>5, <1>6, <1>7, <1>8, <2>1 DEF CommandFits
<1>9. CASE ~(command.next < Len(Script)) /\ command.direction = "up"
  <2>1. command'.revision = r + 1 /\ command'.next = 1 /\ command'.direction = "up"
    BY <1>7, <1>9
  <2>2. T = SchemaOf(r + 1)
    BY <1>1, <1>2, <1>9, OnTheWay
  <2>3. Reached' = SchemaOf(r + 1)
    <3>1. CASE command'.revision = command'.target
      BY <2>1, <3>1 DEF Reached
    <3>2. CASE command'.revision # command'.target
      <4>1. r + 1 \in 0..9
        BY <1>1, <1>7, <1>9, <2>1, <3>2 DEF CommandInv
      <4>2. UpPaths[(r + 1) + 1][1] = SchemaOf(r + 1)
        BY <4>1, WaysStart
      <4> QED
        BY <2>1, <3>2, <4>2 DEF Reached, Way
    <3> QED
      BY <3>1, <3>2
  <2>4. done.outcome = "ok" => Fitting(done.rows, T, r + 1)
    BY <1>1, <1>6, FittingUp
  <2> QED
    BY <1>5, <1>7, <2>1, <2>2, <2>3, <2>4 DEF CommandFits
<1>10. CASE ~(command.next < Len(Script)) /\ command.direction = "down"
  <2>1. command'.revision = r - 1 /\ command'.next = 1 /\ command'.direction = "down"
    BY <1>1, <1>7, <1>10
  <2>2. T = SchemaOf(r - 1) /\ r \in 1..10
    BY <1>1, <1>2, <1>10, OnTheWay
  <2>3. Reached' = SchemaOf(r - 1)
    <3>1. CASE command'.revision = command'.target
      BY <2>1, <3>1 DEF Reached
    <3>2. CASE command'.revision # command'.target
      <4>1. r - 1 \in 1..10
        BY <1>1, <1>7, <1>10, <2>1, <2>2, <3>2 DEF CommandInv
      <4>2. DownPaths[r - 1][1] = SchemaOf(r - 1)
        BY <4>1, WaysStart
      <4> QED
        BY <2>1, <3>2, <4>2 DEF Reached, Way
    <3> QED
      BY <3>1, <3>2
  <2>4. done.outcome = "ok" => Fitting(done.rows, SchemaOf(r - 1), r - 1)
    BY <1>6, <2>2, FittingDown
  <2> QED
    BY <1>5, <1>7, <2>1, <2>2, <2>3, <2>4 DEF CommandFits
<1> QED
  BY <1>1, <1>8, <1>9, <1>10 DEF CommandInv

LEMMA InitSInv == Init => SInv
BY DEF Init, Empty, Idle, SInv, DbFits, SchemaOf, Fitting

LEMMA BeginFits ==
  ASSUME IInv, SInv, NEW direction \in { "up", "down" }, NEW target \in Revisions,
         Begin(direction, target)
  PROVE  SInv'
<1> DEFINE r == db.revision
<1>1. /\ db' = db
      /\ command' = [ direction |-> direction, target |-> target, revision |-> r,
                      next |-> 1, state |-> db.state ]
  BY DEF Begin
<1>2. target \in 0..10 /\ r \in 0..10 /\ target # r /\ db.state.outcome = "ok"
  BY Chain DEF Revisions, Begin, IInv, DbInv
<1>3. IF direction = "up" THEN r \in 0..9 ELSE r \in 1..10
  BY <1>2 DEF Begin
<1>4. Reached' = SchemaOf(r)
  BY <1>1, <1>2, <1>3, WaysStart DEF Reached, Way
<1> QED
  BY <1>1, <1>2, <1>4 DEF SInv, DbFits, CommandFits

LEMMA CommitFits ==
  ASSUME IInv, SInv, CommitCommand
  PROVE  SInv'
BY DEF IInv, SInv, CommitCommand, CommandFits, DbFits, Reached

\* Rows that the schema of a revision takes fit it.
LEMMA StorableFits ==
  ASSUME DbInv, DbFits, NEW k \in Kinds, Storable(k)
  PROVE  Fitting(db.state.rows \cup {k}, db.state.schema, db.revision)
<1> DEFINE S == db.state.schema
           r == db.revision
<1>1. r \in 0..10 /\ S = SchemaOf(r)
  BY DEF DbInv, DbFits
<1>2. ASSUME k = "bare_archives"
      PROVE  Snapshot \notin S /\ r >= 8
  <2>1. Snapshot \notin S /\ Table("task_archives") \in S
    BY <1>2 DEF Storable, Snapshot, TableOf
  <2>2. r >= 5 => r >= 8
    BY <1>1, <2>1 DEF SchemaOf, Schemas, Until7, NodeColumns, TaskReferences, TaskColumns, Until5
  <2>3. r >= 5
    <3>1. At("task_archives", 23) /\ 23 \in 1..Height
      BY DEF At, Order, Place, Height
    <3>2. \A j \in 0..14 : Table("task_archives") \notin Stack(j)
      BY <3>1, StackTables DEF Height
    <3>3. Table("task_archives") \notin Until2 /\ Stack(0) = {}
      BY DEF Until2, ReportFormat, Table, Check, Stack
    <3>4. r < 5 => S = {} \/ \E j \in 0..14 : S = Stack(j) \/ S = Stack(j) \cup Until2
      <4>1. r < 5 => r \in 0..4
        BY <1>1
      <4>2. 10 \in 0..14 /\ 12 \in 0..14 /\ 13 \in 0..14 /\ 14 \in 0..14
        OBVIOUS
      <4> QED
        BY <1>1, <4>1, <4>2 DEF SchemaOf, Schemas
    <3> QED
      BY <1>1, <2>1, <3>2, <3>3, <3>4
  <2> QED
    BY <1>1, <2>1, <2>2, <2>3
<1>3. ASSUME k = "node_reminders"
      PROVE  TaskTypes \notin S /\ r >= 9
  <2>1. AllTypes \in S
    BY <1>3 DEF Storable, AllTypes
  <2>2. AllTypes[1] = "check"
    BY DEF AllTypes, Check
  <2>3. \A j \in 0..Height : AllTypes \notin Stack(j)
    BY <2>2, StackObjects
  <2>4. AllTypes \notin Until8
    BY DEF AllTypes, Until8, Until7, NodeColumns, TaskReferences, TaskColumns, Until5,
       ReportFormat, TaskTypes, Snapshot, Columns, Check, NotNull, Column, Reference
  <2>5. AllTypes \notin Until7 /\ AllTypes \notin Until5 /\ AllTypes \notin Until2
    BY DEF AllTypes, Until7, NodeColumns, TaskReferences, TaskColumns, Until5, Until2,
       ReportFormat, TaskTypes, Snapshot, Columns, Check, NotNull, Column, Reference
  <2>6. 10 \in 0..Height /\ 12 \in 0..Height /\ 13 \in 0..Height /\ 14 \in 0..Height
        /\ 26 \in 0..Height /\ 27 \in 0..Height /\ 28 \in 0..Height
    BY DEF Height
  <2>7. r >= 9
    BY <1>1, <2>1, <2>3, <2>4, <2>5, <2>6 DEF SchemaOf, Schemas
  <2>8. TaskTypes[1] = "check" /\ TaskTypes \notin Stack(28)
    <3>1. TaskTypes[1] = "check"
      BY DEF TaskTypes, Check
    <3> QED
      BY <2>6, <3>1, StackObjects
  <2>9. TaskTypes \notin Until10
    BY DEF TaskTypes, Until10, Until9, WithoutTypes, AllTypes, Columns, Check, Column
  <2>10. TaskTypes \notin Until9
    BY <2>9 DEF Until10
  <2> QED
    BY <1>1, <2>7, <2>8, <2>9, <2>10 DEF SchemaOf, Schemas
<1>4. Table(TableOf[k]) \in S /\ (k = "free_cycles" => ReportFormat \notin S)
  BY DEF Storable, ReportFormat
<1> QED
  BY <1>2, <1>3, <1>4 DEF DbFits, Fitting

LEMMA ApplicationFits ==
  ASSUME IInv, SInv,
         \/ \E k \in Watched : Write(k)
         \/ \E s \in { "in_progress", "pending_review", "completed" }, h \in Histories :
              WriteHistory(s, h)
  PROVE  SInv'
<1>1. command = Idle /\ command' = Idle /\ DbInv /\ DbFits
  BY DEF Write, WriteHistory, IInv, SInv
<1>2. CASE \E k \in Watched : Write(k)
  <2> PICK k \in Watched : Write(k)
    BY <1>2
  <2>1. k \in Kinds /\ Storable(k)
    BY WatchedAreKinds DEF Write
  <2>2. /\ db'.revision = db.revision
        /\ db'.state.schema = db.state.schema
        /\ db'.state.rows = db.state.rows \cup {k}
    BY <1>1 DEF Write, DbInv, Typed
  <2> QED
    BY <1>1, <2>1, <2>2, StorableFits DEF SInv, DbFits
<1>3. CASE \E s \in { "in_progress", "pending_review", "completed" }, h \in Histories :
             WriteHistory(s, h)
  <2>1. /\ db'.revision = db.revision
        /\ db'.state.schema = db.state.schema
        /\ db'.state.rows = db.state.rows
    BY <1>1, <1>3 DEF WriteHistory, DbInv, Typed
  <2> QED
    BY <1>1, <2>1 DEF SInv, DbFits
<1> QED
  BY <1>2, <1>3

LEMMA Fits == Spec => []SInv
<1>1. Init => SInv
  BY InitSInv
<1>2. IInv /\ SInv /\ [Next]_vars => SInv'
  <2> SUFFICES ASSUME IInv, SInv, [Next]_vars PROVE SInv'
    OBVIOUS
  <2>1. CASE \E r \in Revisions : Begin("up", r) \/ Begin("down", r)
    BY <2>1, BeginFits
  <2>2. CASE Migrate
    BY <2>2, MigrateFits DEF SInv, DbFits, Migrate
  <2>3. CASE CommitCommand
    BY <2>3, CommitFits
  <2>4. CASE Rollback
    BY <2>4 DEF Rollback, SInv, DbFits
  <2>5. CASE \/ \E k \in Watched : Write(k)
             \/ \E s \in { "in_progress", "pending_review", "completed" }, h \in Histories :
                  WriteHistory(s, h)
    BY <2>5, ApplicationFits
  <2>6. CASE UNCHANGED vars
    BY <2>6 DEF vars, SInv, DbFits, CommandFits, Reached, Way
  <2> QED
    BY <2>1, <2>2, <2>3, <2>4, <2>5, <2>6 DEF Next
<1> QED
  BY <1>1, <1>2, Inductive, PTL DEF Spec

\* A row of node reminders is only there under the check that knows their types.
LEMMA FittingIsStorable ==
  ASSUME DbInv, DbFits
  PROVE  RowsFit
<1> SUFFICES ASSUME NEW k \in db.state.rows
             PROVE  Storable(k)
  BY DEF RowsFit
<1>1. db.revision >= 9 => AllTypes \in db.state.schema
  BY DEF DbInv, DbFits, SchemaOf, Schemas, Until10, Until9, WithoutTypes
<1> QED
  BY <1>1 DEF DbFits, Fitting, Storable, ReportFormat, Snapshot, AllTypes

-----------------------------------------------------------------------------
(* What follows *)

\* A command that fails or is killed leaves a database in the state of a revision, with
\* rows and objects of known kinds only.
THEOREM TypeCorrect == Spec => []TypeOK
<1>1. IInv => TypeOK
  BY Chain DEF IInv, DbInv, CommandInv, Typed, TypeOK, Revisions, ObjectKind
<1> QED
  BY <1>1, Inductive, PTL

\* Histories of any length: after any upgrades and downgrades, in one command or many,
\* failed, killed and repeated, a database that has the table of reviews has in it, for a
\* task that was logged before, the reviews that its log tells of.
THEOREM LegacyReviewsAreTold == Spec => []ReviewsAreImported
<1>1. ASSUME IInv
      PROVE  ReviewsAreImported
  <2>1. CASE db.revision < 3
    BY <1>1, <2>1 DEF IInv, DbInv, AtRevision, HasTable, ReviewTable, ReviewsAreImported,
       HistoryIsImported, TellsHistory
  <2>2. CASE db.revision >= 3
    <3>1. /\ db.state.log \in Histories
          /\ db.state.reviews = Backfill(db.state.log)
          /\ ~Refused(db.state.status, db.state.log)
      BY <1>1, <2>2 DEF IInv, DbInv, AtRevision, Filled, Typed
    <3>2. HistoryIsImported
      BY <3>1, PreflightTells DEF HistoryIsImported
    <3>3. db.state.status \in { "pending_review", "completed" } => db.state.reviews # {}
      BY <3>1 DEF Refused, LacksSubmission, Backfill
    <3> QED
      BY <3>2, <3>3 DEF ReviewsAreImported
  <2> QED
    BY <1>1, <2>1, <2>2 DEF IInv, DbInv
<1> QED
  BY <1>1, Inductive, PTL

\* For rows of every kind, histories of any length and every sequence of commands that go
\* up and down, fail and die: the schema is that of its revision, no statement of the
\* scripts is in error over the schema it meets, and no row is left that does not fit it.
THEOREM MigrationsAlwaysWork == Spec => []MigrationsWork
<1>1. ASSUME IInv, SInv
      PROVE  MigrationsWork
  <2>1. SchemaOfRevision
    <3>1. db.revision \in 0..10 /\ db.state.schema = SchemaOf(db.revision)
      BY <1>1 DEF IInv, DbInv, SInv, DbFits
    <3>2. Built[db.revision].schema = SchemaOf(db.revision)
      BY <3>1, BuiltIs DEF Bare
    <3> QED
      BY <3>1, <3>2 DEF SchemaOfRevision
  <2>2. FailsOverRowsOnly
    BY <1>1 DEF SInv, CommandFits, FailsOverRowsOnly
  <2>3. RowsFit
    BY <1>1, FittingIsStorable DEF IInv, SInv
  <2> QED
    BY <2>1, <2>2, <2>3 DEF MigrationsWork
<1> QED
  BY <1>1, Inductive, Fits, PTL

=============================================================================
