SPECIFICATION Spec
CONSTANTS
  reviewer = reviewer
  other = other
  null = null
  Reviewer = reviewer
  Other = other
  Nobody = null
  MaxLogged = 3
  Watched = {"free_cycles", "bare_archives", "node_reminders"}
INVARIANTS
  TypeOK
  MigrationsWork
  ReviewsAreImported
CHECK_DEADLOCK FALSE
