----------------------------- MODULE JobWorker ------------------------------
(***************************************************************************)
(* The worker process: main's loop (recover stale rows, receive a          *)
(* notification or poll, execute, requeue) and execute_job (claim, one     *)
(* case at a time with a cancellation check before it and a progress write *)
(* after it, import of the run, final state).                              *)
(*                                                                         *)
(* Claiming and recovering read under FOR UPDATE.  Every other write reads *)
(* the row first and commits in a later step: other transactions may come  *)
(* in between, and Flush says what the commit overwrites.                  *)
(***************************************************************************)
EXTENDS JobTable

CONSTANTS
    SlowWorkers,   \* a live worker may let its job's heartbeat expire
    LostAcks,      \* a commit may succeed and still raise in the worker
    AttemptBound,  \* bound: attempts of one job (matters if SlowWorkers)
    MaxCrashes     \* bound: worker crashes

ASSUME JobWorkerAssumption ==
    /\ SlowWorkers \in BOOLEAN /\ LostAcks \in BOOLEAN
    /\ AttemptBound \in Nat /\ AttemptBound > MaxAttempts
    /\ MaxCrashes \in Nat

VARIABLES
    pc,        \* where each worker is
    job,       \* the job it received or executes
    done,      \* cases evaluated in this attempt
    loaded,    \* the rows its open transaction has loaded
    found,     \* the heartbeat rows its open recovery transaction has loaded
    crashes    \* worker crashes so far

workerVars == <<pc, job, done, loaded, found, crashes>>

\* Between a successful claim and the write of the attempt's outcome.
ExecutingPoints ==
    {"case", "progress", "progressCommit", "import", "complete",
     "completeCommit", "cancel", "cancelCommit", "fail", "failCommit"}
WorkerPoints ==
    {"scan", "recover", "receive", "poll", "claim", "sleep", "push", "mark",
     "markCommit", "down"} \union ExecutingPoints

Loads == [job : Rows, assigned : Jobs \union {NoJob}]
NoLoad == [job |-> NoRow, assigned |-> NoJob]

WorkerTypeOK ==
    /\ pc \in [Workers -> WorkerPoints]
    /\ job \in [Workers -> Jobs \union {NoJob}]
    /\ done \in [Workers -> 0..NumCases]
    /\ loaded \in [Workers -> Loads]
    /\ found \in [Workers -> SUBSET Workers]
    /\ crashes \in Nat

WorkerInit ==
    /\ pc = [w \in Workers |-> "scan"]
    /\ job = [w \in Workers |-> NoJob]
    /\ done = [w \in Workers |-> 0]
    /\ loaded = [w \in Workers |-> NoLoad]
    /\ found = [w \in Workers |-> {}]
    /\ crashes = 0

Executing(w, j) == pc[w] \in ExecutingPoints /\ job[w] = j

At(w, from, to) == /\ pc[w] = from
                   /\ pc' = [pc EXCEPT ![w] = to]

\* Back to the head of main's loop.
Loop(w, from) == /\ At(w, from, "scan")
                 /\ job' = [job EXCEPT ![w] = NoJob]
                 /\ done' = [done EXCEPT ![w] = 0]

\* Opening and closing a transaction that reads without locking.
Load(w) == loaded' = [loaded EXCEPT ![w] = [job |-> row[job[w]], assigned |-> assigned[w]]]
Unload(w) == loaded' = [loaded EXCEPT ![w] = NoLoad]

-----------------------------------------------------------------------------
(* recover_stale_jobs *)

\* Mutants: heartbeats do not count, or only jobs with a retry left do.
StaleIgnoringHeartbeat(j) == row[j].status = "RUNNING"
StaleWithBudget(j) == /\ row[j].status = "RUNNING" /\ ~row[j].heartbeat_fresh
                      /\ row[j].attempt_count < MaxAttempts

Stale(j) == row[j].status = "RUNNING" /\ ~row[j].heartbeat_fresh

\* scalar(): for each job, one of the heartbeat rows that name it, if any.
FirstAssigned(vs, js) ==
    /\ \A v \in vs : assigned[v] \in js
    /\ \A u, v \in vs : assigned[u] = assigned[v] => u = v
    /\ \A v \in Workers : assigned[v] \in js => \E u \in vs : assigned[u] = assigned[v]

\* Mutant: rows under recovery by another worker are not skipped.
StaleRowsLockedToo == {j \in Jobs : Stale(j)}

\* SELECT ... FOR UPDATE SKIP LOCKED.
StaleRows == {j \in Jobs : Stale(j) /\ ~Locked(j)}

\* The stale rows, locked, then the heartbeat rows of those jobs.
Scan(w) ==
    /\ IF StaleRows = {}
       THEN /\ At(w, "scan", "receive")
            /\ UNCHANGED <<held, found>>
       ELSE /\ At(w, "scan", "recover")
            /\ held' = [held EXCEPT ![w] = StaleRows]
            /\ \E vs \in SUBSET Workers :
                   /\ FirstAssigned(vs, StaleRows)
                   /\ found' = [found EXCEPT ![w] = vs]
    /\ UNCHANGED <<row, redis, runs, assigned, newest, job, done, loaded, crashes>>

Ended(r, status) == [r EXCEPT !.status = status]
GivenBack(r) == [r EXCEPT !.status = "QUEUED", !.dispatched = FALSE]

\* Mutant: recovery does not look at the retry budget.
RecoveredUnbounded(r) == IF r.cancel_requested THEN Ended(r, "CANCELLED") ELSE GivenBack(r)

Recovered(r) ==
    IF r.cancel_requested THEN Ended(r, "CANCELLED")
    ELSE IF r.attempt_count < MaxAttempts THEN GivenBack(r)
    ELSE Ended(r, "FAILED")

\* The commit releases the locks; the worker goes on to execute the oldest
\* requeued job itself, or to wait on Redis.
Recover(w) ==
    LET requeued == {j \in held[w] : Recovered(row[j]).status = "QUEUED"}
    IN  /\ pc[w] = "recover"
        /\ row' = [j \in Jobs |-> IF j \in held[w] THEN Recovered(row[j]) ELSE row[j]]
        /\ assigned' = [v \in Workers |-> IF v \in found[w] THEN NoJob ELSE assigned[v]]
        /\ held' = [held EXCEPT ![w] = {}]
        /\ found' = [found EXCEPT ![w] = {}]
        /\ IF requeued = {}
           THEN /\ pc' = [pc EXCEPT ![w] = "receive"]
                /\ UNCHANGED job
           ELSE /\ pc' = [pc EXCEPT ![w] = "claim"]
                /\ \E j \in requeued : /\ IsOldest(j, requeued)
                                       /\ job' = [job EXCEPT ![w] = j]
        /\ UNCHANGED <<redis, runs, newest, done, loaded, crashes>>

-----------------------------------------------------------------------------
(* Waiting for work: BLPOP, then the durable poll *)

\* A popped notification is gone from Redis whatever happens next.
Receive(w) ==
    /\ redis # <<>>
    /\ At(w, "receive", "claim")
    /\ job' = [job EXCEPT ![w] = Head(redis)]
    /\ redis' = Tail(redis)
    /\ UNCHANGED <<row, runs, assigned, newest, held, done, loaded, found, crashes>>

\* The wait times out, or Redis fails, possibly after it popped the head.
ReceiveNothing(w) ==
    /\ At(w, "receive", "poll")
    /\ \/ UNCHANGED redis
       \/ redis # <<>> /\ redis' = Tail(redis)
    /\ UNCHANGED <<row, runs, assigned, newest, held, job, done, loaded, found, crashes>>

\* Mutant: only notified jobs are executed.
PollNothing(w) == Loop(w, "poll") /\ UNCHANGED <<tableVars, loaded, found, crashes>>

\* _next_durable_job.
Poll(w) ==
    /\ IF Queued = {}
       THEN Loop(w, "poll")
       ELSE /\ At(w, "poll", "claim")
            /\ \E j \in Queued : /\ IsOldest(j, Queued)
                                 /\ job' = [job EXCEPT ![w] = j]
            /\ UNCHANGED done
    /\ UNCHANGED <<tableVars, loaded, found, crashes>>

-----------------------------------------------------------------------------
(* execute_job *)

Started(r) == [r EXCEPT !.status = "RUNNING", !.attempt_count = @ + 1,
                        !.heartbeat_fresh = TRUE]

\* Mutant: a late notification restarts a job that has ended.
ClaimableUnlessRunning(r) == r.status # "RUNNING"

\* "only a QUEUED row can be claimed".
Claimable(r) == r.status = "QUEUED"

\* _claim_job, under SELECT FOR UPDATE.
Claim(w) ==
    LET j == job[w]
    IN  /\ pc[w] = "claim" /\ ~Locked(j)
        /\ \/ /\ ~Claimable(row[j])
              /\ Loop(w, "claim")
              /\ UNCHANGED <<row, assigned>>
           \/ /\ Claimable(row[j]) /\ row[j].cancel_requested
              /\ row' = [row EXCEPT ![j] = Ended(@, "CANCELLED")]
              /\ Loop(w, "claim")
              /\ UNCHANGED assigned
           \/ /\ Claimable(row[j]) /\ ~row[j].cancel_requested
              /\ row[j].attempt_count < AttemptBound
              /\ row' = [row EXCEPT ![j] = Started(@)]
              /\ assigned' = [assigned EXCEPT ![w] = j]
              /\ At(w, "claim", "case")
              /\ UNCHANGED <<job, done>>
        /\ UNCHANGED <<redis, runs, newest, held, loaded, found, crashes>>

\* Mutant: one case too many.
CaseTooMany(w) ==
    /\ pc[w] = "case"
    /\ IF done[w] <= NumCases
       THEN /\ At(w, "case", "progress")
            /\ done' = [done EXCEPT ![w] = @ + 1]
       ELSE At(w, "case", "import") /\ UNCHANGED done
    /\ UNCHANGED <<tableVars, job, loaded, found, crashes>>

\* The runner's cancellation check, then the next case; after the last case
\* execute_job's own check, then the artifact.
Case(w) ==
    /\ pc[w] = "case"
    /\ IF row[job[w]].cancel_requested
       THEN At(w, "case", "cancel") /\ UNCHANGED done
       ELSE IF done[w] < NumCases
            THEN /\ At(w, "case", "progress")
                 /\ done' = [done EXCEPT ![w] = @ + 1]
            ELSE At(w, "case", "import") /\ UNCHANGED done
    /\ UNCHANGED <<tableVars, job, loaded, found, crashes>>

\* _record_progress: nothing unless the row is RUNNING.
Progress(w) ==
    /\ pc[w] = "progress"
    /\ IF row[job[w]].status = "RUNNING"
       THEN At(w, "progress", "progressCommit") /\ Load(w)
       ELSE At(w, "progress", "case") /\ UNCHANGED loaded
    /\ UNCHANGED <<tableVars, job, done, found, crashes>>

AtLeast(m, n) == IF m >= n THEN m ELSE n

\* Mutant: a retry starts its progress over.
ProgressedAfresh(r, n) == [r EXCEPT !.completed_case_count = n]

Beaten(r) == [r EXCEPT !.heartbeat_fresh = TRUE]
Progressed(r, n) == [r EXCEPT !.completed_case_count = AtLeast(@, n)]

ProgressCommit(w) ==
    LET j == job[w]
        old == loaded[w]
    IN  /\ At(w, "progressCommit", "case")
        /\ ~Locked(j)
        /\ row' = [row EXCEPT ![j] =
                     Beaten(Flush(@, old.job, Progressed(old.job, done[w])))]
        /\ assigned' = [assigned EXCEPT ![w] = IF old.assigned = j THEN @ ELSE j]
        /\ Unload(w)
        /\ UNCHANGED <<redis, runs, newest, held, job, done, found, crashes>>

\* Mutant: the import is not committed.
ImportUncommitted(w) ==
    /\ At(w, "import", "complete")
    /\ UNCHANGED <<tableVars, job, done, loaded, found, crashes>>

\* write_run_artifact and import_run_artifact: the run and its evidence in one
\* transaction, or the row that already carries its external_run_id.
Import(w) ==
    /\ At(w, "import", "complete")
    /\ runs' = runs \union {RunOf[job[w]]}
    /\ UNCHANGED <<row, redis, assigned, newest, held, job, done, loaded, found, crashes>>

-----------------------------------------------------------------------------
(* The outcome of an attempt.  None of the three re-checks that the row is *)
(* still this worker's, and only _finish_cancelled looks at the status.    *)

LoadOutcome(w, from, to) ==
    /\ At(w, from, to)
    /\ Load(w)
    /\ UNCHANGED <<tableVars, job, done, found, crashes>>

\* Mutant: the worker stays assigned to the job it is done with.
StoreOutcomeOnly(w, new) ==
    /\ ~Locked(job[w])
    /\ row' = [row EXCEPT ![job[w]] = Flush(@, loaded[w].job, new)]
    /\ Unload(w)
    /\ UNCHANGED <<redis, runs, assigned, newest, held, found, crashes>>

\* Storing the outcome and clearing this worker's heartbeat assignment.
StoreOutcome(w, new) ==
    /\ ~Locked(job[w])
    /\ row' = [row EXCEPT ![job[w]] = Flush(@, loaded[w].job, new)]
    /\ assigned' = [assigned EXCEPT ![w] =
                      IF loaded[w].assigned = NoJob THEN @ ELSE NoJob]
    /\ Unload(w)
    /\ UNCHANGED <<redis, runs, newest, held, found, crashes>>

\* Mutant: the job completes without its link to the run.
FinishedUnlinked(r, j) ==
    [r EXCEPT !.status = IF RunOf[j] \in CleanRuns THEN "COMPLETED"
                         ELSE "COMPLETED_WITH_ERRORS",
              !.completed_case_count = NumCases]

Finished(r, j) ==
    [r EXCEPT !.run = RunOf[j],
              !.status = IF RunOf[j] \in CleanRuns THEN "COMPLETED"
                         ELSE "COMPLETED_WITH_ERRORS",
              !.completed_case_count = NumCases]

\* _finish_completed.
Complete(w) == LoadOutcome(w, "complete", "completeCommit")

CompleteCommit(w) ==
    /\ Loop(w, "completeCommit")
    /\ StoreOutcome(w, Finished(loaded[w].job, job[w]))

\* The commit is applied but raises: execute_job treats it as a failure.
CompleteAckLost(w) ==
    /\ LostAcks
    /\ At(w, "completeCommit", "fail")
    /\ StoreOutcome(w, Finished(loaded[w].job, job[w]))
    /\ UNCHANGED <<job, done>>

\* _finish_cancelled.
CancelRun(w) == LoadOutcome(w, "cancel", "cancelCommit")

Stopped(r) == [r EXCEPT !.status = "CANCELLED", !.cancel_requested = TRUE]

CancelCommit(w) ==
    LET old == loaded[w].job
    IN  /\ Loop(w, "cancelCommit")
        /\ StoreOutcome(w, IF old.status = "RUNNING" THEN Stopped(old) ELSE old)

\* Any other exception inside the attempt.
Raise(w) ==
    /\ pc[w] \in {"case", "progress", "progressCommit", "import", "complete",
                  "completeCommit"}
    /\ pc' = [pc EXCEPT ![w] = "fail"]
    /\ Unload(w)
    /\ UNCHANGED <<tableVars, job, done, found, crashes>>

\* _finish_failed.
Fail(w) == LoadOutcome(w, "fail", "failCommit")

FailCommit(w) ==
    LET old == loaded[w].job
    IN  \/ /\ old.cancel_requested
           /\ Loop(w, "failCommit")
           /\ StoreOutcome(w, Ended(old, "CANCELLED"))
        \/ /\ ~old.cancel_requested /\ old.attempt_count < MaxAttempts
           /\ At(w, "failCommit", "sleep")
           /\ done' = [done EXCEPT ![w] = 0]
           /\ UNCHANGED job
           /\ StoreOutcome(w, GivenBack(old))
        \/ /\ ~old.cancel_requested /\ old.attempt_count >= MaxAttempts
           /\ Loop(w, "failCommit")
           /\ StoreOutcome(w, Ended(old, "FAILED"))

-----------------------------------------------------------------------------
(* _requeue *)

\* time.sleep(min(2 ** attempt_count, 30)) ends.
Wake(w) ==
    /\ At(w, "sleep", "push")
    /\ UNCHANGED <<tableVars, job, done, loaded, found, crashes>>

\* RPUSH, or a RedisError, which leaves the row to the durable poll.
Requeue(w) ==
    \/ /\ At(w, "push", "mark")
       /\ Push(job[w])
       /\ UNCHANGED <<row, runs, assigned, newest, held, job, done, loaded, found, crashes>>
    \/ /\ Loop(w, "push")
       /\ UNCHANGED <<tableVars, loaded, found, crashes>>

\* _mark_redispatched.
Mark(w) ==
    /\ pc[w] = "mark"
    /\ IF row[job[w]].status = "QUEUED"
       THEN At(w, "mark", "markCommit") /\ UNCHANGED <<job, done>>
       ELSE Loop(w, "mark")
    /\ UNCHANGED <<tableVars, loaded, found, crashes>>

MarkCommit(w) ==
    /\ Loop(w, "markCommit")
    /\ ~Locked(job[w])
    /\ row' = [row EXCEPT ![job[w]] = Dispatched(@)]
    /\ UNCHANGED <<redis, runs, assigned, newest, held, loaded, found, crashes>>

-----------------------------------------------------------------------------
(* The environment of the workers *)

\* A crash at any point: open transactions roll back, committed work stays.
\* An exception that leaves execute_job ends the process as well.
Crash(w) ==
    /\ pc[w] # "down" /\ crashes < MaxCrashes
    /\ crashes' = crashes + 1
    /\ pc' = [pc EXCEPT ![w] = "down"]
    /\ job' = [job EXCEPT ![w] = NoJob]
    /\ done' = [done EXCEPT ![w] = 0]
    /\ Unload(w)
    /\ held' = [held EXCEPT ![w] = {}]
    /\ found' = [found EXCEPT ![w] = {}]
    /\ UNCHANGED <<row, redis, runs, assigned, newest>>

\* The container comes back under the same WORKER_ID.
Restart(w) ==
    /\ At(w, "down", "scan")
    /\ UNCHANGED <<tableVars, job, done, loaded, found, crashes>>

\* worker_stale_after_seconds pass without a heartbeat of a RUNNING job.
Missed(r) == [r EXCEPT !.heartbeat_fresh = FALSE]

HeartbeatExpires(j) ==
    /\ row[j].status = "RUNNING" /\ row[j].heartbeat_fresh
    /\ SlowWorkers \/ \A w \in Workers : ~Executing(w, j)
    /\ row' = [row EXCEPT ![j] = Missed(@)]
    /\ UNCHANGED <<redis, runs, assigned, newest, held, workerVars>>

\* Redis loses its list.
LoseNotifications ==
    /\ redis # <<>>
    /\ redis' = <<>>
    /\ UNCHANGED <<row, runs, assigned, newest, held, workerVars>>

\* What main and execute_job do of their own accord: the steps that fairness
\* applies to.
Progresses(w) ==
    \/ Scan(w) \/ Recover(w) \/ Receive(w) \/ ReceiveNothing(w) \/ Poll(w)
    \/ Claim(w) \/ Case(w) \/ Progress(w) \/ ProgressCommit(w) \/ Import(w)
    \/ Complete(w) \/ CompleteCommit(w) \/ CancelRun(w) \/ CancelCommit(w)
    \/ Fail(w) \/ FailCommit(w)
    \/ Wake(w) \/ Requeue(w) \/ Mark(w) \/ MarkCommit(w)

WorkerStep(w) ==
    Progresses(w) \/ CompleteAckLost(w) \/ Raise(w) \/ Crash(w) \/ Restart(w)
=============================================================================
