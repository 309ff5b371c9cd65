--------------------------- MODULE ArchiveEndpoint ---------------------------
(***************************************************************************)
(* The task board with the archive-snapshot endpoint in use.               *)
(*                                                                         *)
(* ArchiveReuseService.archive_task is the one writer of the task row that *)
(* neither locks it nor compares task_version: it reads the row, builds    *)
(* the snapshot, and writes status and version from what it read, in one   *)
(* READ COMMITTED transaction.  Any handler may commit in between.         *)
(***************************************************************************)
EXTENDS TaskLifecycle

VARIABLE
  reading  \* what the request in progress read of the task

endpointVars == << vars, reading >>

Reading ==
  [ open    : BOOLEAN,
    version : Nat,
    moves   : BOOLEAN ]  \* the status read lets the endpoint archive the task

Idle == [ open |-> FALSE, version |-> 0, moves |-> FALSE ]

EndpointInit == Init /\ reading = Idle

\* The SELECTs of archive_task: an archived task is answered with its archive.
ReadTask ==
  /\ ~reading.open
  /\ ~archive
  /\ reading' = [ open |-> TRUE, version |-> task.version,
                  moves |-> task.status \notin TerminalStatus \ { "completed" } ]
  /\ UNCHANGED vars

\* Its INSERT and UPDATE, from the values read.  No task_status_logs row.
WriteArchive ==
  /\ reading.open
  /\ ~archive
  /\ archive' = TRUE
  /\ task' = IF reading.moves
               THEN [ task EXCEPT !.status = "archived", !.version = reading.version + 1 ]
               ELSE task
  /\ reading' = Idle
  /\ UNCHANGED << attempts, calls, change, review, plan, issues, log >>

\* The unique task_archives row was written by an approval meanwhile: rolled back.
ArchiveRefused ==
  /\ reading.open
  /\ archive
  /\ reading' = Idle
  /\ UNCHANGED vars

EndpointNext ==
  \/ Next /\ UNCHANGED reading
  \/ ReadTask
  \/ WriteArchive
  \/ ArchiveRefused

EndpointSpec == EndpointInit /\ [][EndpointNext]_endpointVars

=============================================================================
