----------------------------- MODULE TaskStore -----------------------------
(***************************************************************************)
(* One row of the table analysis_tasks and the statements                  *)
(* workers/analysis_worker/task_store.py runs on it.  Each statement is a  *)
(* pure operator on the row; the module that owns the table applies it.    *)
(*                                                                         *)
(* Time is abstracted to one bit per lease: lease_expired says whether     *)
(* lease_expires_at has passed.  PostgreSQL evaluates now() as the start   *)
(* of the transaction, so a guard that runs late in a long transaction     *)
(* takes as an argument the attempt whose lease had lapsed at that start.  *)
(***************************************************************************)
EXTENDS Naturals

CONSTANTS Workers,      \* the values of worker_id()
          MaxAttempts   \* analysis_tasks.max_attempts

ASSUME WorkersAssumption == "" \notin Workers
ASSUME MaxAttemptsAssumption == MaxAttempts \in Nat \ {0}

\* The column lease_owner of a row nobody has leased.
NoOwner == ""

Final == {"succeeded", "failed_terminal"}

\* "absent" stands for a row that has not been inserted.
TaskStatus == {"absent", "queued", "leased", "failed_retryable"} \cup Final

TaskRow == [status        : TaskStatus,
            attempt_count : Nat,
            lease_owner   : Workers \cup {NoOwner},
            lease_expired : BOOLEAN]

AbsentRow == [status |-> "absent", attempt_count |-> 0,
              lease_owner |-> NoOwner, lease_expired |-> FALSE]

\* Mutant: the conflicting row is queued again.
insert_task_requeues(row) == [row EXCEPT !.status = "queued"]

\* Mutant: a dead task is queued again.
insert_task_revives(row) ==
    IF row.status \in {"absent", "failed_terminal"}
    THEN [row EXCEPT !.status = "queued"] ELSE row

(***************************************************************************)
(* The upsert of insert_task: a conflicting row keeps its status.          *)
(***************************************************************************)
insert_task(row) ==
    IF row.status = "absent" THEN [row EXCEPT !.status = "queued"] ELSE row

(***************************************************************************)
(* claim_task: the WHERE clause, and the row it writes.                    *)
(***************************************************************************)
Claimable(row) ==
    /\ row.attempt_count < MaxAttempts
    /\ \/ row.status \in {"queued", "failed_retryable"}
       \/ row.status = "leased" /\ row.lease_expired

claim_task(row, w) ==
    [status        |-> "leased",
     attempt_count |-> row.attempt_count + 1,
     lease_owner   |-> w,
     lease_expired |-> FALSE]

\* Mutant: the guard does not compare lease_owner.
HoldsLease_of_anyone(row, w, lapsed) ==
    row.status = "leased" /\ row.attempt_count # lapsed

(***************************************************************************)
(* The WHERE clause shared by mark_succeeded, mark_failed_retryable and    *)
(* mark_failed_terminal.  lapsed is the attempt whose lease had expired    *)
(* when the transaction began, 0 when none had.                            *)
(***************************************************************************)
HoldsLease(row, w, lapsed) ==
    /\ row.status = "leased"
    /\ row.lease_owner = w
    /\ row.attempt_count # lapsed

\* The attempt whose lease has expired on this row now.
LapsedAttempt(row) == IF row.lease_expired THEN row.attempt_count ELSE 0

\* The row all three statements leave behind, with the status they write.
Released(row, status) ==
    [row EXCEPT !.status = status, !.lease_owner = NoOwner, !.lease_expired = FALSE]

mark_succeeded(row) == Released(row, "succeeded")
mark_failed_retryable(row) == Released(row, "failed_retryable")
mark_failed_terminal(row) == Released(row, "failed_terminal")
=============================================================================
