------------------------------ MODULE JobTable ------------------------------
(***************************************************************************)
(* The state the API and the workers share: the evaluation_jobs rows, the  *)
(* Redis list of wake-up notifications, the persisted runs and the         *)
(* worker_heartbeats.current_job_id column.                                *)
(*                                                                         *)
(* A job is named by its (organization_id, idempotency_key), which is      *)
(* unique, so a row that does not exist yet has status "ABSENT".           *)
(***************************************************************************)
EXTENDS Naturals, Sequences

CONSTANTS
    Jobs,         \* idempotency keys of one organization
    Workers,      \* WORKER_IDs
    Bodies,       \* request bodies, as far as _same_request tells them apart
    Runs,         \* external run ids, which hash the evaluated configuration
    NoJob, NoBody, NoRun,
    RunOf,        \* the run that evaluating a job produces
    CleanRuns,    \* the runs with failed_case_count = 0
    MaxAttempts,  \* max_attempts of every job
    NumCases,     \* item_count of every dataset version
    MaxQueue      \* bound: notifications in Redis at once

ASSUME JobTableAssumption ==
    /\ NoJob \notin Jobs /\ NoBody \notin Bodies /\ NoRun \notin Runs
    /\ RunOf \in [Jobs -> Runs]
    /\ CleanRuns \subseteq Runs
    /\ MaxAttempts \in Nat \ {0}      \* CheckConstraint max_attempts_positive
    /\ NumCases \in Nat
    /\ MaxQueue \in Nat

VARIABLES
    row,       \* evaluation_jobs
    redis,     \* the list "shopfilter:evaluation-jobs"
    runs,      \* evaluation_runs
    assigned,  \* worker_heartbeats.current_job_id
    newest,    \* created_at of the newest row: each insert is a tick
    held       \* the row locks of each worker's open recovery transaction

tableVars == <<row, redis, runs, assigned, newest, held>>

Terminal == {"COMPLETED", "COMPLETED_WITH_ERRORS", "FAILED", "CANCELLED"}
Completed == {"COMPLETED", "COMPLETED_WITH_ERRORS"}
Statuses == {"ABSENT", "QUEUED", "RUNNING"} \union Terminal

\* heartbeat_fresh stands for heartbeat_at >= cutoff, dispatched for
\* dispatched_at being set.
Rows == [status : Statuses, attempt_count : Nat, cancel_requested : BOOLEAN,
         completed_case_count : 0..NumCases, heartbeat_fresh : BOOLEAN,
         dispatched : BOOLEAN, run : Runs \union {NoRun},
         body : Bodies \union {NoBody}, created_at : Nat]

NoRow == [status |-> "ABSENT", attempt_count |-> 0, cancel_requested |-> FALSE,
          completed_case_count |-> 0, heartbeat_fresh |-> FALSE,
          dispatched |-> FALSE, run |-> NoRun, body |-> NoBody,
          created_at |-> 0]

\* The row an INSERT of a new request creates.
NewRow(b, n) == [NoRow EXCEPT !.status = "QUEUED", !.body = b, !.created_at = n]

Dispatched(r) == [r EXCEPT !.dispatched = TRUE]

\* Mutant: every column is written back, as loaded or as set.
FlushAllColumns(current, loaded, new) == new

(***************************************************************************)
(* What an unlocked read-modify-write stores.  The session flushes an      *)
(* UPDATE of only those columns whose new value differs from the one it    *)
(* loaded, so a column set to its loaded value keeps what other            *)
(* transactions wrote since.                                               *)
(***************************************************************************)
Flush(current, loaded, new) ==
    [current EXCEPT
        !.status = IF new.status = loaded.status THEN @ ELSE new.status,
        !.cancel_requested =
            IF new.cancel_requested = loaded.cancel_requested THEN @
            ELSE new.cancel_requested,
        !.completed_case_count =
            IF new.completed_case_count = loaded.completed_case_count THEN @
            ELSE new.completed_case_count,
        !.dispatched =
            IF new.dispatched = loaded.dispatched THEN @ ELSE new.dispatched,
        !.run = IF new.run = loaded.run THEN @ ELSE new.run]

\* A locked row makes UPDATE and SELECT FOR UPDATE wait; a plain SELECT reads it.
Locked(j) == \E w \in Workers : j \in held[w]

Queued == {j \in Jobs : row[j].status = "QUEUED"}

\* A first row of a set under ORDER BY created_at.
IsOldest(j, js) == \A k \in js : row[j].created_at <= row[k].created_at

\* RPUSH of a job's id; a list at its bound accepts nothing.
Push(j) == /\ Len(redis) < MaxQueue
           /\ redis' = Append(redis, j)

TableTypeOK ==
    /\ row \in [Jobs -> Rows]
    /\ redis \in Seq(Jobs)
    /\ runs \subseteq Runs
    /\ assigned \in [Workers -> Jobs \union {NoJob}]
    /\ newest \in Nat
    /\ held \in [Workers -> SUBSET Jobs]

TableInit ==
    /\ row = [j \in Jobs |-> NoRow]
    /\ redis = <<>>
    /\ runs = {}
    /\ assigned = [w \in Workers |-> NoJob]
    /\ newest = 0
    /\ held = [w \in Workers |-> {}]
=============================================================================
