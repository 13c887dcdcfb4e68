--------------------------- MODULE EvaluationJobs ---------------------------
(***************************************************************************)
(* The durable evaluation jobs of docs/worker-lifecycle.md as the code     *)
(* runs them: API requests (JobApi) and worker processes (JobWorker) over  *)
(* the shared tables and the Redis list (JobTable).                        *)
(***************************************************************************)
EXTENDS JobApi, JobWorker

vars == <<tableVars, apiVars, workerVars>>

Init == TableInit /\ ApiInit /\ WorkerInit

ApiNext == /\ \/ \E r \in Requests : PostStep(r)
              \/ \E j \in Jobs : Cancel(j)
           /\ UNCHANGED workerVars

WorkerNext == /\ \/ \E w \in Workers : WorkerStep(w)
                 \/ \E j \in Jobs : HeartbeatExpires(j)
                 \/ LoseNotifications
              /\ UNCHANGED apiVars

Next == ApiNext \/ WorkerNext

Spec == Init /\ [][Next]_vars

TypeOK == TableTypeOK /\ ApiTypeOK /\ WorkerTypeOK

(***************************************************************************)
(* The timing regime the recovery design relies on: a heartbeat expires    *)
(* only when its worker is gone, and a commit that raises was not applied. *)
(* Properties that need it are marked.                                     *)
(***************************************************************************)
Timely == ~SlowWorkers /\ ~LostAcks

-----------------------------------------------------------------------------
(* Safety in every regime *)

\* A request that was answered 202 has its own job: concurrent requests with
\* the same key and different bodies never share the row
\* (create_evaluation_job's lookup, unique constraint and second lookup).
AcceptedMatchesRow ==
    \A r \in Requests : apc[r] \in {"dispatch", "mark", "accepted"} =>
        row[KeyOf[r]].status # "ABSENT" /\ row[KeyOf[r]].body = BodyOf[r]

\* A job shown as completed links the persisted run of its own configuration,
\* however many stale executors wrote the row (_finish_completed, Import).
LinkIntegrity ==
    \A j \in Jobs : row[j].status \in Completed =>
        row[j].run = RunOf[j] /\ RunOf[j] \in runs

\* No attempt starts once cancellation was requested, even when a failing
\* attempt puts the cancelled row back in QUEUED (_claim_job's second test).
CancelledNeverStarts ==
    [][\A j \in Jobs : row[j].cancel_requested =>
          row'[j].cancel_requested /\ row'[j].attempt_count = row[j].attempt_count]_vars

-----------------------------------------------------------------------------
(* Safety in the timely regime *)

\* Two workers never execute the same job at once: claims exclude each other,
\* and recovery hands a job on only after its executor is gone.
SingleExecutor ==
    \A v, w \in Workers : \A j \in Jobs : Executing(v, j) /\ Executing(w, j) => v = w

\* "until max_attempts": crashes, failures and recoveries together never
\* start a job more often (_claim_job, _finish_failed, recover_stale_jobs).
AttemptsBounded == \A j \in Jobs : row[j].attempt_count <= MaxAttempts

\* A run is linked exactly when the job completed, and then all its cases
\* count as done: no late progress or failure write spoils the result.
ResultExact ==
    \A j \in Jobs : LET r == row[j] IN
        /\ r.run # NoRun <=> r.status \in Completed
        /\ r.status \in Completed => r.completed_case_count = NumCases

\* A heartbeat row names only a running job, and no two name the same: every
\* way out of RUNNING clears the assignment, the dead worker's included.
AssignmentSound ==
    \A v, w \in Workers : \A j \in Jobs :
        /\ assigned[w] = j => row[j].status = "RUNNING"
        /\ assigned[v] = j /\ assigned[w] = j => v = w

\* "Terminal states cannot transition": no unlocked write of an earlier
\* attempt revives or relabels a finished job.
TerminalFinal ==
    [][\A j \in Jobs : row[j].status \in Terminal => row'[j].status = row[j].status]_vars

\* "persisted progress remains monotonic until the new attempt catches up":
\* _record_progress's max() of a value read before the commit.
ProgressMonotone ==
    [][\A j \in Jobs :
          row'[j].completed_case_count >= row[j].completed_case_count]_vars

\* The abstract lifecycle of each job, with the rows as its variables.
Lifecycle(j) == INSTANCE JobLifecycle WITH
    status <- row[j].status,
    attempt_count <- row[j].attempt_count,
    cancel_requested <- row[j].cancel_requested,
    completed_case_count <- row[j].completed_case_count,
    run <- row[j].run,
    Run <- RunOf[j],
    Clean <- RunOf[j] \in CleanRuns

\* Every job goes through the lifecycle JobLifecycle promises: each step of
\* the API, a worker or recovery is one step of the lifecycle, or none.
RefinesLifecycle ==
    /\ \A j \in Jobs : Lifecycle(j)!Init
    /\ [][\A j \in Jobs : Lifecycle(j)!Next \/ UNCHANGED Lifecycle(j)!vars]_vars

-----------------------------------------------------------------------------
(***************************************************************************)
(* The inductive invariants behind the safety properties.  Existence holds *)
(* in every regime, Discipline in the timely one.                          *)
(***************************************************************************)
BusyPoints == ExecutingPoints \union {"claim", "sleep", "push", "mark", "markCommit"}
CommitPoints == {"progressCommit", "completeCommit", "cancelCommit", "failCommit"}

\* A worker has a job exactly when it is busy with one.
BusyHasJob == \A w \in Workers : job[w] \in Jobs <=> pc[w] \in BusyPoints

\* Notifications, jobs of workers, locks and answered requests name stored
\* rows; a row not stored is blank.
JobsExist ==
    /\ \A w \in Workers : job[w] \in Jobs => row[job[w]].status # "ABSENT"
    /\ \A w \in Workers : \A j \in held[w] : row[j].status # "ABSENT"
    /\ \A i \in DOMAIN redis : row[redis[i]].status # "ABSENT"
    /\ \A j \in Jobs : row[j].status = "ABSENT" => row[j] = NoRow
    /\ AcceptedMatchesRow

\* Runs are linked once, to the persisted run of the job's configuration.
LinksGrow ==
    /\ \A j \in Jobs : row[j].run # NoRun => row[j].run = RunOf[j] /\ RunOf[j] \in runs
    /\ \A j \in Jobs : row[j].status \in Completed => row[j].run # NoRun
    /\ \A w \in Workers : pc[w] \in CommitPoints =>
           loaded[w].job.run \in {NoRun, row[job[w]].run}
    /\ \A w \in Workers : pc[w] \in {"complete", "completeCommit"} => RunOf[job[w]] \in runs

Existence == TypeOK /\ BusyHasJob /\ JobsExist /\ LinksGrow

\* The job of a live executor is RUNNING with a fresh heartbeat, and what its
\* open transaction loaded is still what the row holds.
ExecutorOwnsRow ==
    /\ SingleExecutor
    /\ \A w \in Workers : pc[w] \in ExecutingPoints =>
           row[job[w]].status = "RUNNING" /\ row[job[w]].heartbeat_fresh
    /\ \A w \in Workers : pc[w] \in CommitPoints =>
           LET r == row[job[w]]
               l == loaded[w].job
           IN  /\ l.status = r.status
               /\ l.attempt_count = r.attempt_count
               /\ l.completed_case_count = r.completed_case_count
               /\ l.run = r.run
               /\ l.cancel_requested => r.cancel_requested
    /\ \A w \in Workers : pc[w] \in {"cancel", "cancelCommit"} => row[job[w]].cancel_requested
    /\ \A w \in Workers : pc[w] = "cancelCommit" => loaded[w].job.cancel_requested

\* Recovery locks rows nobody executes, each for one worker.
LocksAreStale ==
    /\ \A w \in Workers : held[w] # {} => pc[w] = "recover"
    /\ \A w \in Workers : \A j \in held[w] : Stale(j)
    /\ \A v, w \in Workers : \A j \in held[v] : j \in held[w] => v = w

\* A job outside an attempt has one left.
BudgetLeft ==
    /\ AttemptsBounded
    /\ \A j \in Jobs : row[j].status = "QUEUED" => row[j].attempt_count < MaxAttempts

\* Recovery has loaded every heartbeat row that names a job it locked, and an
\* executor has loaded its own as it still is, unless it was cleared.
AssignmentsKnown ==
    /\ AssignmentSound
    /\ \A v, w \in Workers : pc[w] \in ExecutingPoints /\ assigned[v] = job[w] => v = w
    /\ \A v, w \in Workers : assigned[v] \in held[w] => v \in found[w]
    /\ \A w \in Workers : pc[w] \in CommitPoints /\ assigned[w] # NoJob =>
           loaded[w].assigned = assigned[w]

Discipline ==
    Existence /\ ExecutorOwnsRow /\ LocksAreStale /\ BudgetLeft /\ ResultExact
              /\ AssignmentsKnown

-----------------------------------------------------------------------------
(* What the documents say and the code does not do *)

\* "return the durable row to QUEUED with bounded exponential backoff": while
\* the worker whose attempt failed sleeps, nobody starts the next attempt.
BackoffRespected ==
    [][\A w \in Workers : pc[w] = "sleep" /\ pc'[w] = "sleep" =>
          row'[job[w]].attempt_count = row[job[w]].attempt_count]_vars

-----------------------------------------------------------------------------
(***************************************************************************)
(* Liveness.  A live worker keeps running main's loop, BLPOP and database  *)
(* calls return, and the clock makes an unattended heartbeat stale.        *)
(* Nothing is assumed of the API: clients may never come back, and Redis   *)
(* may lose every notification.  A crashed worker stays down, unless       *)
(* somebody restarts it, which is not assumed.                             *)
(***************************************************************************)
Fairness ==
    /\ \A w \in Workers : WF_vars(Progresses(w) /\ UNCHANGED apiVars)
    /\ \A j \in Jobs : WF_vars(HeartbeatExpires(j) /\ UNCHANGED apiVars)

FairSpec == Spec /\ Fairness

\* A job once stored reaches a final state: lost notifications, crashes,
\* failed dispatches and failed attempts never strand it.
EventuallyTerminal ==
    \A j \in Jobs : row[j].status # "ABSENT" ~> row[j].status \in Terminal
=============================================================================
