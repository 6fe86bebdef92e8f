----------------------------- MODULE TaskStore -----------------------------
(***************************************************************************)
(* The tasks table of internal/db: what a row holds and what each SQL      *)
(* statement does to the row it finds.  The operators are functions on     *)
(* rows; the modules that extend this one say when a statement runs.       *)
(*                                                                         *)
(* Timestamps are natural numbers handed out by one clock.  The code never *)
(* compares them for anything but equality and, in claim_task.sql, order.  *)
(* exit_code and finished_at are fixed together with the status before the *)
(* first attempt to store an outcome, so the status stands for all three.  *)
(***************************************************************************)
EXTENDS Naturals

CONSTANTS
    Tasks,      \* task IDs, the primary key of the table
    Workers,    \* worker IDs
    None        \* SQL NULL, and a worker variable that holds nothing

Terminal == {"completed", "failed", "cancelled"}

Status == {"absent", "pending", "running"} \cup Terminal

\* The columns that identify one claim of one incarnation of a task ID.
Claim == [task : Tasks, worker : Workers, createdAt : Nat, startedAt : Nat]

\* A terminal outcome for one particular claim.
Completion == [claim : Claim, status : Terminal]

Row == [status    : Status,
        createdAt : Nat,
        worker    : Workers \cup {None},
        startedAt : Nat,
        cancel    : BOOLEAN]      \* cancel_requested_at IS NOT NULL

ASSUME NoneAssumption == /\ None \notin Workers
                         /\ None \notin Claim
                         /\ None \notin Status

NoRow == [status |-> "absent", createdAt |-> 0, worker |-> None,
          startedAt |-> 0, cancel |-> FALSE]
-----------------------------------------------------------------------------
\* INSERT INTO tasks, at time now.
Inserted(now) == [NoRow EXCEPT !.status = "pending", !.createdAt = now]

\* claim_task.sql, on the row its subquery has locked.
Claimed(row, c) == [row EXCEPT !.status    = "running",
                               !.worker    = c.worker,
                               !.startedAt = c.startedAt]

\* The UPDATE of request_cancel.sql.
CancelApplied(row) ==
    CASE row.status = "pending" /\ ~row.cancel -> [row EXCEPT !.status = "cancelled"]
      [] row.status = "running" /\ ~row.cancel -> [row EXCEPT !.cancel = TRUE]
      [] OTHER -> row

\* Faulty variants (names end in _faulty) are never used by a specification.
\* They show which mistakes the properties of the project would notice.

\* An outcome is stored by task ID alone.
IsClaim_faulty(row, c) == row.status # "absent"

\* The row that complete_claim.sql locks is the one the claim was made on.
IsClaim(row, c) == /\ row.status # "absent"
                   /\ row.worker = c.worker
                   /\ row.createdAt = c.createdAt
                   /\ row.startedAt = c.startedAt

\* A requested cancellation hides the row from the UPDATE.
Completed_faulty(row, c) ==
    IF IsClaim(row, c.claim) /\ row.status = "running" /\ ~row.cancel
    THEN [row EXCEPT !.status = c.status]
    ELSE row

\* complete_claim.sql: the UPDATE, and what the SELECT answers.
Completed(row, c) ==
    IF IsClaim(row, c.claim) /\ row.status = "running"
    THEN [row EXCEPT !.status = c.status]
    ELSE row

\* The retry of an attempt that did commit is not recognised.
Confirmed_faulty(row, c) == IsClaim(row, c.claim) /\ row.status = "running"

Confirmed(row, c) == /\ IsClaim(row, c.claim)
                     /\ row.status \in {"running", c.status}
=============================================================================
