------------------------ MODULE EvaluationJobsProofs ------------------------
(***************************************************************************)
(* Proofs about EvaluationJobs, for every set of jobs, workers, requests   *)
(* and runs and every bound: first what holds in every regime, then what   *)
(* holds in the timely one.                                                *)
(***************************************************************************)
EXTENDS EvaluationJobs, TLAPS

-----------------------------------------------------------------------------
(* The operators on rows *)

\* Every status the handlers write is a status of the table.
LEMMA StatusNames ==
    {"ABSENT", "QUEUED", "RUNNING", "COMPLETED", "COMPLETED_WITH_ERRORS",
     "FAILED", "CANCELLED"} \subseteq Statuses
BY DEF Statuses, Terminal

\* What an UPDATE of the changed columns leaves in each column.
LEMMA FlushFields ==
    ASSUME NEW cur \in Rows, NEW old \in Rows, NEW new \in Rows
    PROVE  LET f == Flush(cur, old, new) IN
        /\ f.status = IF new.status = old.status THEN cur.status ELSE new.status
        /\ f.cancel_requested = IF new.cancel_requested = old.cancel_requested
                                THEN cur.cancel_requested ELSE new.cancel_requested
        /\ f.completed_case_count =
               IF new.completed_case_count = old.completed_case_count
               THEN cur.completed_case_count ELSE new.completed_case_count
        /\ f.run = IF new.run = old.run THEN cur.run ELSE new.run
        /\ f.attempt_count = cur.attempt_count
        /\ f.heartbeat_fresh = cur.heartbeat_fresh
        /\ f.body = cur.body
BY DEF Flush, Rows

\* An UPDATE of the changed columns keeps a row a row.
LEMMA FlushType ==
    ASSUME NEW cur \in Rows, NEW old \in Rows, NEW new \in Rows
    PROVE  Flush(cur, old, new) \in Rows
<1> DEFINE a == IF new.status = old.status THEN cur.status ELSE new.status
           b == IF new.cancel_requested = old.cancel_requested
                THEN cur.cancel_requested ELSE new.cancel_requested
           c == IF new.completed_case_count = old.completed_case_count
                THEN cur.completed_case_count ELSE new.completed_case_count
           d == IF new.dispatched = old.dispatched
                THEN cur.dispatched ELSE new.dispatched
           e == IF new.run = old.run THEN cur.run ELSE new.run
           f == [cur EXCEPT !.status = a, !.cancel_requested = b,
                            !.completed_case_count = c, !.dispatched = d, !.run = e]
<1>1. /\ a \in Statuses /\ b \in BOOLEAN /\ c \in 0..NumCases
      /\ d \in BOOLEAN /\ e \in Runs \union {NoRun}
  BY DEF Rows
<1>2. Flush(cur, old, new) = f
  BY DEF Flush
<1>3. f \in Rows
  <2> HIDE DEF a, b, c, d, e
  <2>1. QED BY <1>1 DEF Rows
<1>4. QED BY <1>2, <1>3

\* Every operator the handlers apply to a row returns a row.
LEMMA RowTypes ==
    ASSUME NEW r \in Rows
    PROVE  /\ Dispatched(r) \in Rows
           /\ CancelledByUser(r) \in Rows
           /\ Started(r) \in Rows
           /\ \A s \in Statuses : Ended(r, s) \in Rows
           /\ GivenBack(r) \in Rows
           /\ Recovered(r) \in Rows
           /\ Beaten(r) \in Rows
           /\ Stopped(r) \in Rows
           /\ Missed(r) \in Rows
           /\ \A n \in 0..NumCases : Progressed(r, n) \in Rows
           /\ \A j \in Jobs : Finished(r, j) \in Rows
<1> USE StatusNames
<1>1. Dispatched(r) \in Rows BY DEF Dispatched, Rows
<1>2. CancelledByUser(r) \in Rows BY DEF CancelledByUser, Rows
<1>3. Started(r) \in Rows
  <2> DEFINE n == r.attempt_count + 1
             f == [r EXCEPT !.status = "RUNNING", !.attempt_count = n,
                            !.heartbeat_fresh = TRUE]
  <2>1. n \in Nat BY DEF Rows
  <2>2. Started(r) = f BY DEF Started
  <2> HIDE DEF n
  <2>3. f \in Rows BY <2>1 DEF Rows
  <2>4. QED BY <2>2, <2>3
<1>4. ASSUME NEW s \in Statuses PROVE Ended(r, s) \in Rows BY DEF Ended, Rows
<1>5. GivenBack(r) \in Rows BY DEF GivenBack, Rows
<1>6. Recovered(r) \in Rows BY <1>4, <1>5 DEF Recovered
<1>7. Beaten(r) \in Rows BY DEF Beaten, Rows
<1>8. Stopped(r) \in Rows BY DEF Stopped, Rows
<1>9. Missed(r) \in Rows BY DEF Missed, Rows
<1>10. ASSUME NEW n \in 0..NumCases PROVE Progressed(r, n) \in Rows
  <2> DEFINE m == AtLeast(r.completed_case_count, n)
  <2>1. m \in 0..NumCases BY DEF Rows, AtLeast
  <2>2. Progressed(r, n) = [r EXCEPT !.completed_case_count = m] BY DEF Progressed
  <2> HIDE DEF m
  <2>3. QED BY <2>1, <2>2 DEF Rows
<1>11. ASSUME NEW j \in Jobs PROVE Finished(r, j) \in Rows
  <2> DEFINE s == IF RunOf[j] \in CleanRuns THEN "COMPLETED" ELSE "COMPLETED_WITH_ERRORS"
             f == [r EXCEPT !.run = RunOf[j], !.status = s,
                            !.completed_case_count = NumCases]
  <2>1. s \in Statuses OBVIOUS
  <2>2. RunOf[j] \in Runs /\ NumCases \in 0..NumCases BY JobTableAssumption
  <2>3. Finished(r, j) = f BY DEF Finished
  <2> HIDE DEF s
  <2>4. f \in Rows BY <2>1, <2>2 DEF Rows
  <2>5. QED BY <2>3, <2>4
<1>12. QED BY <1>1, <1>2, <1>3, <1>4, <1>5, <1>6, <1>7, <1>8, <1>9, <1>10, <1>11

\* A row that is not stored has the columns of a row.
LEMMA NoRowType == NoRow \in Rows
BY JobTableAssumption, StatusNames DEF NoRow, Rows

\* What create_evaluation_job inserts is a row.
LEMMA NewRowType ==
    ASSUME NEW b \in Bodies, NEW n \in Nat
    PROVE  NewRow(b, n) \in Rows
BY NoRowType, StatusNames DEF NewRow, Rows

\* What a transaction loads is a row and an assignment.
LEMMA LoadTypes ==
    /\ NoLoad \in Loads
    /\ \A r \in Rows, a \in Jobs \union {NoJob} : [job |-> r, assigned |-> a] \in Loads
    /\ \A l \in Loads : l.job \in Rows /\ l.assigned \in Jobs \union {NoJob}
BY NoRowType DEF NoLoad, Loads

-----------------------------------------------------------------------------
(* Types *)

Typed == TypeOK /\ BusyHasJob

\* The tables start typed, and no worker has a job.
LEMMA TypedInit == Init => Typed
BY NoRowType, JobTableAssumption
   DEF Init, Typed, TypeOK, BusyHasJob, TableInit, ApiInit, WorkerInit, TableTypeOK,
       ApiTypeOK, WorkerTypeOK, ApiPoints, WorkerPoints, ExecutingPoints, BusyPoints,
       Loads, NoLoad

\* What a step makes of the control state of the workers.
Moved == /\ pc' \in [Workers -> WorkerPoints]
         /\ job' \in [Workers -> Jobs \union {NoJob}]
         /\ BusyHasJob'

\* The points of a worker, written out.
LEMMA PointNames ==
    /\ BusyPoints = {"claim", "case", "progress", "progressCommit", "import", "complete",
                     "completeCommit", "cancel", "cancelCommit", "fail", "failCommit",
                     "sleep", "push", "mark", "markCommit"}
    /\ WorkerPoints = BusyPoints \union {"scan", "recover", "receive", "poll", "down"}
BY DEF BusyPoints, WorkerPoints, ExecutingPoints

\* A worker goes on without taking or dropping a job.
LEMMA Stay ==
    ASSUME Typed, NEW w \in Workers, NEW to \in WorkerPoints,
           pc' = [pc EXCEPT ![w] = to], job' = job,
           pc[w] \in BusyPoints <=> to \in BusyPoints
    PROVE  Moved
BY DEF Typed, TypeOK, WorkerTypeOK, BusyHasJob, Moved

\* A worker takes a job.
LEMMA Take ==
    ASSUME Typed, NEW w \in Workers, NEW to \in BusyPoints, NEW j \in Jobs,
           pc' = [pc EXCEPT ![w] = to], job' = [job EXCEPT ![w] = j]
    PROVE  Moved
BY PointNames DEF Typed, TypeOK, WorkerTypeOK, BusyHasJob, Moved

\* A worker drops its job.
LEMMA Drop ==
    ASSUME Typed, NEW w \in Workers, NEW to \in WorkerPoints \ BusyPoints,
           pc' = [pc EXCEPT ![w] = to], job' = [job EXCEPT ![w] = NoJob]
    PROVE  Moved
BY JobTableAssumption DEF Typed, TypeOK, WorkerTypeOK, BusyHasJob, Moved

\* A worker returns to the head of main's loop.
LEMMA Leave ==
    ASSUME Typed, NEW w \in Workers, NEW from, Loop(w, from)
    PROVE  Moved /\ done' \in [Workers -> 0..NumCases]
<1>1. "scan" \in WorkerPoints \ BusyPoints
  BY PointNames
<1>2. Moved
  BY <1>1, Drop DEF Loop, At
<1>3. done' \in [Workers -> 0..NumCases]
  BY JobTableAssumption DEF Loop, Typed, TypeOK, WorkerTypeOK
<1>4. QED BY <1>2, <1>3

\* A worker's outcome write keeps the tables typed.
LEMMA StoreTypes ==
    ASSUME Typed, NEW w \in Workers, job[w] \in Jobs, NEW new \in Rows, StoreOutcome(w, new)
    PROVE  TableTypeOK' /\ loaded' \in [Workers -> Loads]
<1>1. loaded[w].job \in Rows
  BY LoadTypes DEF Typed, TypeOK, WorkerTypeOK
<1>2. Flush(row[job[w]], loaded[w].job, new) \in Rows
  BY <1>1, FlushType DEF Typed, TypeOK, TableTypeOK
<1>3. QED
  BY <1>2, LoadTypes
     DEF StoreOutcome, Unload, Typed, TypeOK, TableTypeOK, WorkerTypeOK

\* Every step of the API, a worker or the environment keeps every type, and
\* each worker a job exactly while it is busy with one.
LEMMA TypedStep == Typed /\ [Next]_vars => Typed'
<1> SUFFICES ASSUME Typed, [Next]_vars PROVE Typed'
  OBVIOUS
<1> USE PointNames DEF Typed, TypeOK
<1>a. UNCHANGED workerVars => WorkerTypeOK' /\ BusyHasJob'
  BY DEF workerVars, WorkerTypeOK, BusyHasJob
<1>b. UNCHANGED tableVars => TableTypeOK'
  BY DEF tableVars, TableTypeOK
<1>c. UNCHANGED apiVars => ApiTypeOK'
  BY DEF apiVars, ApiTypeOK
<1>d. Moved /\ done' \in [Workers -> 0..NumCases] /\ loaded' \in [Workers -> Loads]
         /\ found' \in [Workers -> SUBSET Workers] /\ crashes' \in Nat
      => WorkerTypeOK' /\ BusyHasJob'
  BY DEF Moved, WorkerTypeOK
<1>e. /\ done \in [Workers -> 0..NumCases] /\ loaded \in [Workers -> Loads]
      /\ found \in [Workers -> SUBSET Workers] /\ crashes \in Nat
  BY DEF WorkerTypeOK
<1>f. \A w \in Workers : pc[w] \in BusyPoints => job[w] \in Jobs /\ row[job[w]] \in Rows
  BY DEF BusyHasJob, TableTypeOK
<1>1. ASSUME NEW r \in Requests, PostStep(r), UNCHANGED workerVars PROVE Typed'
  <2>1. ASSUME NEW from, NEW to \in ApiPoints, Goto(r, from, to) PROVE ApiTypeOK'
    BY <2>1 DEF Goto, ApiTypeOK
  <2>2. KeyOf[r] \in Jobs /\ BodyOf[r] \in Bodies
    BY JobApiAssumption
  <2> USE <1>1, <1>a, <1>b, <2>1, <2>2 DEF ApiPoints
  <2>3. CASE Post(r) BY <2>3 DEF Post
  <2>4. CASE Lookup(r) BY <2>4 DEF Lookup
  <2>5. CASE Insert(r)
    <3>1. newest + 1 \in Nat /\ NewRow(BodyOf[r], newest + 1) \in Rows
      BY NewRowType DEF TableTypeOK
    <3>2. TableTypeOK'
      BY <2>5, <3>1 DEF Insert, TableTypeOK
    <3>3. QED BY <2>5, <3>2 DEF Insert
  <2>6. CASE Enqueue(r)
    <3>1. CASE UNCHANGED tableVars BY <2>6, <3>1 DEF Enqueue
    <3>2. CASE Push(KeyOf[r]) /\ UNCHANGED <<row, runs, assigned, newest, held>>
      <4>1. TableTypeOK' BY <3>2 DEF Push, TableTypeOK
      <4>2. QED BY <2>6, <4>1 DEF Enqueue
    <3>3. QED BY <2>6, <3>1, <3>2 DEF Enqueue
  <2>7. CASE MarkDispatched(r)
    <3>1. TableTypeOK' BY <2>7, RowTypes DEF MarkDispatched, TableTypeOK
    <3>2. QED BY <2>7, <3>1 DEF MarkDispatched
  <2>8. CASE ApiCrash(r) BY <2>8 DEF ApiCrash, ApiTypeOK
  <2>9. QED BY <1>1, <2>3, <2>4, <2>5, <2>6, <2>7, <2>8 DEF PostStep
<1>2. ASSUME NEW j \in Jobs, Cancel(j), UNCHANGED workerVars PROVE Typed'
  <2>1. TableTypeOK' BY <1>2, RowTypes DEF Cancel, TableTypeOK
  <2>2. QED BY <1>2, <1>a, <2>1 DEF Cancel, ApiTypeOK
<1>3. ASSUME NEW w \in Workers, WorkerStep(w), UNCHANGED apiVars PROVE Typed'
  <2> USE <1>3, <1>b, <1>c, <1>d, <1>e
  <2> DEFINE Rest == UNCHANGED <<found, crashes>>
  <2>load. ASSUME pc[w] \in BusyPoints, Load(w) PROVE loaded' \in [Workers -> Loads]
    BY <2>load, <1>f, LoadTypes DEF Load, TableTypeOK
  <2>unload. ASSUME Unload(w) PROVE loaded' \in [Workers -> Loads]
    BY <2>unload, LoadTypes DEF Unload
  <2>outcome. ASSUME NEW from \in BusyPoints, NEW to \in BusyPoints,
                     LoadOutcome(w, from, to) PROVE Typed'
    BY <2>outcome, <2>load, Stay DEF LoadOutcome, At
  <2>1. CASE Scan(w)
    <3>1. Moved BY <2>1, Stay DEF Scan, At
    <3>2. held' \in [Workers -> SUBSET Jobs] /\ found' \in [Workers -> SUBSET Workers]
      <4>1. CASE UNCHANGED <<held, found>> BY <4>1 DEF TableTypeOK
      <4>2. ASSUME NEW js \in SUBSET Jobs, held' = [held EXCEPT ![w] = js],
                   NEW vs \in SUBSET Workers, found' = [found EXCEPT ![w] = vs]
            PROVE  held' \in [Workers -> SUBSET Jobs] /\ found' \in [Workers -> SUBSET Workers]
        BY <4>2 DEF TableTypeOK
      <4>3. StaleRows \in SUBSET Jobs BY DEF StaleRows
      <4>4. QED BY <2>1, <4>1, <4>2, <4>3 DEF Scan
    <3>3. TableTypeOK' BY <2>1, <3>2 DEF Scan, TableTypeOK
    <3>4. QED BY <2>1, <3>1, <3>2, <3>3 DEF Scan
  <2>2. CASE Recover(w)
    <3>1. Moved
      <4>1. ASSUME NEW j \in held[w], pc' = [pc EXCEPT ![w] = "claim"],
                   job' = [job EXCEPT ![w] = j] PROVE Moved
        BY <4>1, Take DEF TableTypeOK
      <4>2. CASE UNCHANGED job /\ pc' = [pc EXCEPT ![w] = "receive"]
        BY <2>2, <4>2, Stay DEF Recover
      <4>3. QED BY <2>2, <4>1, <4>2 DEF Recover
    <3>2. row' \in [Jobs -> Rows] BY <2>2, RowTypes DEF Recover, TableTypeOK
    <3>3. assigned' \in [Workers -> Jobs \union {NoJob}] BY <2>2 DEF Recover, TableTypeOK
    <3>4. TableTypeOK' BY <2>2, <3>2, <3>3 DEF Recover, TableTypeOK
    <3>5. QED BY <2>2, <3>1, <3>4 DEF Recover
  <2>3. CASE Receive(w)
    <3>1. Head(redis) \in Jobs /\ Tail(redis) \in Seq(Jobs) BY <2>3 DEF Receive, TableTypeOK
    <3>2. Moved BY <2>3, <3>1, Take DEF Receive, At
    <3>3. TableTypeOK' BY <2>3, <3>1 DEF Receive, TableTypeOK
    <3>4. QED BY <2>3, <3>2, <3>3 DEF Receive
  <2>4. CASE ReceiveNothing(w)
    <3>1. redis' \in Seq(Jobs)
      <4>1. redis \in Seq(Jobs) BY DEF TableTypeOK
      <4>2. CASE redis # <<>> /\ redis' = Tail(redis) BY <4>1, <4>2
      <4>3. QED BY <2>4, <4>1, <4>2 DEF ReceiveNothing
    <3>2. Moved BY <2>4, Stay DEF ReceiveNothing, At
    <3>3. TableTypeOK' BY <2>4, <3>1 DEF ReceiveNothing, TableTypeOK
    <3>4. QED BY <2>4, <3>2, <3>3 DEF ReceiveNothing
  <2>5. CASE Poll(w)
    <3>1. CASE Loop(w, "poll") BY <2>5, <3>1, Leave DEF Poll
    <3>2. ASSUME NEW j \in Queued, At(w, "poll", "claim"), UNCHANGED done,
                 job' = [job EXCEPT ![w] = j] PROVE Moved
      BY <3>2, Take DEF At, Queued
    <3>3. QED BY <2>5, <3>1, <3>2 DEF Poll
  <2>6. CASE Claim(w)
    <3>1. pc[w] \in BusyPoints /\ job[w] \in Jobs BY <2>6, <1>f DEF Claim
    <3>2. row' \in [Jobs -> Rows]
      <4>1. ASSUME NEW r \in Rows, row' = [row EXCEPT ![job[w]] = r] PROVE row' \in [Jobs -> Rows]
        BY <4>1 DEF TableTypeOK
      <4>2. Ended(row[job[w]], "CANCELLED") \in Rows /\ Started(row[job[w]]) \in Rows
        BY <3>1, <1>f, RowTypes, StatusNames
      <4>3. QED BY <2>6, <4>1, <4>2 DEF Claim, TableTypeOK
    <3>3. assigned' \in [Workers -> Jobs \union {NoJob}]
      BY <2>6, <3>1 DEF Claim, TableTypeOK
    <3>4. TableTypeOK' BY <2>6, <3>2, <3>3 DEF Claim, TableTypeOK
    <3>5. CASE Loop(w, "claim") BY <2>6, <3>4, <3>5, Leave DEF Claim
    <3>6. CASE At(w, "claim", "case") /\ UNCHANGED <<job, done>>
      BY <2>6, <3>4, <3>6, Stay DEF Claim, At
    <3>7. QED BY <2>6, <3>5, <3>6 DEF Claim
  <2>7. CASE Case(w)
    <3>1. Moved BY <2>7, Stay DEF Case, At
    <3>2. done' \in [Workers -> 0..NumCases]
      <4>1. CASE UNCHANGED done BY <4>1
      <4>2. CASE done[w] < NumCases /\ done' = [done EXCEPT ![w] = @ + 1]
        BY <4>2, JobTableAssumption
      <4>3. QED BY <2>7, <4>1, <4>2 DEF Case
    <3>3. QED BY <2>7, <3>1, <3>2 DEF Case
  <2>8. CASE Progress(w)
    <3>1. Moved BY <2>8, Stay DEF Progress, At
    <3>2. loaded' \in [Workers -> Loads] BY <2>8, <2>load DEF Progress
    <3>3. QED BY <2>8, <3>1, <3>2 DEF Progress
  <2>9. CASE ProgressCommit(w)
    <3>1. pc[w] \in BusyPoints /\ job[w] \in Jobs BY <2>9, <1>f DEF ProgressCommit, At
    <3>2. Moved BY <2>9, Stay DEF ProgressCommit, At
    <3>3. loaded[w].job \in Rows /\ row[job[w]] \in Rows
      BY <3>1, <1>f, LoadTypes
    <3>4. Beaten(Flush(row[job[w]], loaded[w].job, Progressed(loaded[w].job, done[w]))) \in Rows
      BY <3>3, RowTypes, FlushType
    <3>5. TableTypeOK' BY <2>9, <3>1, <3>4 DEF ProgressCommit, TableTypeOK
    <3>6. QED BY <2>9, <3>2, <3>5, <2>unload DEF ProgressCommit
  <2>10. CASE Import(w)
    <3>1. Moved BY <2>10, Stay DEF Import, At
    <3>2. RunOf[job[w]] \in Runs BY <2>10, <1>f, JobTableAssumption DEF Import, At
    <3>3. TableTypeOK' BY <2>10, <3>2 DEF Import, TableTypeOK
    <3>4. QED BY <2>10, <3>1, <3>3 DEF Import
  <2>11. CASE Complete(w) BY <2>11, <2>outcome DEF Complete
  <2>12. CASE CancelRun(w) BY <2>12, <2>outcome DEF CancelRun
  <2>13. CASE Fail(w) BY <2>13, <2>outcome DEF Fail
  <2>store. ASSUME pc[w] \in BusyPoints, NEW new \in Rows, StoreOutcome(w, new)
            PROVE  TableTypeOK' /\ loaded' \in [Workers -> Loads] /\ Rest
    BY <2>store, <1>f, StoreTypes DEF StoreOutcome
  <2>old. loaded[w].job \in Rows BY LoadTypes
  <2>14. CASE CompleteCommit(w)
    <3>1. pc[w] \in BusyPoints /\ job[w] \in Jobs BY <2>14, <1>f DEF CompleteCommit, Loop, At
    <3>2. Finished(loaded[w].job, job[w]) \in Rows BY <3>1, <2>old, RowTypes
    <3>3. QED BY <2>14, <3>1, <3>2, <2>store, Leave DEF CompleteCommit
  <2>15. CASE CompleteAckLost(w)
    <3>1. pc[w] \in BusyPoints /\ job[w] \in Jobs BY <2>15, <1>f DEF CompleteAckLost, At
    <3>2. Finished(loaded[w].job, job[w]) \in Rows BY <3>1, <2>old, RowTypes
    <3>3. Moved BY <2>15, Stay DEF CompleteAckLost, At
    <3>4. QED BY <2>15, <3>1, <3>2, <3>3, <2>store DEF CompleteAckLost
  <2>16. CASE CancelCommit(w)
    <3>1. pc[w] \in BusyPoints BY <2>16 DEF CancelCommit, Loop, At
    <3>2. Stopped(loaded[w].job) \in Rows BY <2>old, RowTypes
    <3>3. QED BY <2>16, <3>1, <3>2, <2>old, <2>store, Leave DEF CancelCommit
  <2>17. CASE FailCommit(w)
    <3>1. pc[w] \in BusyPoints BY <2>17 DEF FailCommit, Loop, At
    <3>2. /\ Ended(loaded[w].job, "CANCELLED") \in Rows /\ GivenBack(loaded[w].job) \in Rows
          /\ Ended(loaded[w].job, "FAILED") \in Rows
      BY <2>old, RowTypes, StatusNames
    <3>3. TableTypeOK' /\ loaded' \in [Workers -> Loads] /\ Rest
      BY <2>17, <3>1, <3>2, <2>store DEF FailCommit
    <3>4. CASE Loop(w, "failCommit") BY <3>3, <3>4, Leave
    <3>5. CASE /\ At(w, "failCommit", "sleep") /\ done' = [done EXCEPT ![w] = 0]
               /\ UNCHANGED job
      <4>1. Moved BY <3>5, Stay DEF At
      <4>2. done' \in [Workers -> 0..NumCases] BY <3>5, JobTableAssumption
      <4>3. QED BY <3>3, <4>1, <4>2
    <3>6. QED BY <2>17, <3>4, <3>5 DEF FailCommit
  <2>18. CASE Wake(w)
    <3>1. Moved BY <2>18, Stay DEF Wake, At
    <3>2. QED BY <2>18, <3>1 DEF Wake
  <2>19. CASE Requeue(w)
    <3>1. CASE Loop(w, "push") /\ UNCHANGED <<tableVars, loaded, found, crashes>>
      BY <3>1, Leave
    <3>2. CASE /\ At(w, "push", "mark") /\ Push(job[w])
               /\ UNCHANGED <<row, runs, assigned, newest, held, job, done, loaded, found, crashes>>
      <4>1. Moved BY <3>2, Stay DEF At
      <4>2. TableTypeOK' BY <3>2, <1>f DEF At, Push, TableTypeOK
      <4>3. QED BY <3>2, <4>1, <4>2
    <3>3. QED BY <2>19, <3>1, <3>2 DEF Requeue
  <2>20. CASE Mark(w)
    <3>1. CASE Loop(w, "mark") BY <2>20, <3>1, Leave DEF Mark
    <3>2. CASE At(w, "mark", "markCommit") /\ UNCHANGED <<job, done>>
      BY <2>20, <3>2, Stay DEF Mark, At
    <3>3. QED BY <2>20, <3>1, <3>2 DEF Mark
  <2>21. CASE MarkCommit(w)
    <3>1. job[w] \in Jobs BY <2>21, <1>f DEF MarkCommit, Loop, At
    <3>2. TableTypeOK' BY <2>21, <3>1, RowTypes DEF MarkCommit, TableTypeOK
    <3>3. QED BY <2>21, <3>2, Leave DEF MarkCommit
  <2>22. CASE Raise(w)
    <3>1. Moved BY <2>22, Stay DEF Raise
    <3>2. QED BY <2>22, <3>1, <2>unload DEF Raise
  <2>23. CASE Crash(w)
    <3>1. Moved BY <2>23, Drop DEF Crash
    <3>2. done' \in [Workers -> 0..NumCases] BY <2>23, JobTableAssumption DEF Crash
    <3>3. found' \in [Workers -> SUBSET Workers] /\ crashes' \in Nat BY <2>23 DEF Crash
    <3>4. TableTypeOK' BY <2>23 DEF Crash, TableTypeOK
    <3>5. QED BY <2>23, <3>1, <3>2, <3>3, <3>4, <2>unload DEF Crash
  <2>24. CASE Restart(w)
    <3>1. Moved BY <2>24, Stay DEF Restart, At
    <3>2. QED BY <2>24, <3>1 DEF Restart
  <2>25. QED
    BY <1>3, <2>1, <2>2, <2>3, <2>4, <2>5, <2>6, <2>7, <2>8, <2>9, <2>10, <2>11, <2>12, <2>13,
       <2>14, <2>15, <2>16, <2>17, <2>18, <2>19, <2>20, <2>21, <2>22, <2>23, <2>24
       DEF WorkerStep, Progresses
<1>4. ASSUME NEW j \in Jobs, HeartbeatExpires(j), UNCHANGED apiVars PROVE Typed'
  <2>1. TableTypeOK' BY <1>4, RowTypes DEF HeartbeatExpires, TableTypeOK
  <2>2. QED BY <1>4, <1>a, <1>c, <2>1 DEF HeartbeatExpires
<1>5. CASE LoseNotifications /\ UNCHANGED apiVars
  <2>1. TableTypeOK' BY <1>5 DEF LoseNotifications, TableTypeOK
  <2>2. QED BY <1>5, <1>a, <1>c, <2>1 DEF LoseNotifications
<1>6. CASE UNCHANGED vars
  BY <1>6, <1>a, <1>b, <1>c DEF vars
<1>7. QED BY <1>1, <1>2, <1>3, <1>4, <1>5, <1>6 DEF Next, ApiNext, WorkerNext

\* Every variable of the jobs subsystem keeps its type.
THEOREM TypeCorrect == Spec => []TypeOK
<1>1. Spec => []Typed
  BY TypedInit, TypedStep, PTL DEF Spec
<1>2. Typed => TypeOK
  BY DEF Typed
<1>3. QED BY <1>1, <1>2, PTL

-----------------------------------------------------------------------------
(* Frames: what a worker's step leaves to the others, and how a worker gets *)
(* to the point where it commits what it loaded.                            *)

\* A worker's step leaves the control state of every other worker alone.
LEMMA WorkerFrame ==
    ASSUME Typed, NEW w \in Workers, WorkerStep(w), NEW u \in Workers \ {w}
    PROVE  /\ pc'[u] = pc[u] /\ job'[u] = job[u] /\ loaded'[u] = loaded[u]
           /\ held'[u] = held[u] /\ found'[u] = found[u]
<1> USE DEF Typed, TypeOK, TableTypeOK, WorkerTypeOK, tableVars, At, Loop, Load, Unload
<1>0. CASE Scan(w)
  BY <1>0 DEF Scan
<1>1. CASE Recover(w)
  <2>1. /\ loaded' = loaded /\ held' = [held EXCEPT ![w] = {}]
        /\ found' = [found EXCEPT ![w] = {}]
    BY <1>1 DEF Recover
  <2>2. \/ pc' = [pc EXCEPT ![w] = "receive"] /\ job' = job
        \/ pc' = [pc EXCEPT ![w] = "claim"] /\ \E j \in Jobs : job' = [job EXCEPT ![w] = j]
    BY <1>1 DEF Recover
  <2>3. QED BY <2>1, <2>2
<1>2. CASE Receive(w) \/ ReceiveNothing(w) \/ Poll(w)
  BY <1>2 DEF Receive, ReceiveNothing, Poll
<1>3. CASE Claim(w) \/ Case(w) \/ Progress(w) \/ ProgressCommit(w) \/ Import(w)
  BY <1>3 DEF Claim, Case, Progress, ProgressCommit, Import
<1>4. CASE Complete(w) \/ CancelRun(w) \/ Fail(w)
  BY <1>4 DEF Complete, CancelRun, Fail, LoadOutcome
<1>5. CASE CompleteCommit(w) \/ CompleteAckLost(w) \/ CancelCommit(w) \/ FailCommit(w)
  BY <1>5 DEF CompleteCommit, CompleteAckLost, CancelCommit, FailCommit, StoreOutcome
<1>6. CASE Wake(w) \/ Requeue(w) \/ Mark(w) \/ MarkCommit(w)
  BY <1>6 DEF Wake, Requeue, Mark, MarkCommit
<1>7. CASE Raise(w) \/ Crash(w) \/ Restart(w)
  BY <1>7 DEF Raise, Crash, Restart
<1>8. QED
  BY <1>0, <1>1, <1>2, <1>3, <1>4, <1>5, <1>6, <1>7 DEF WorkerStep, Progresses

\* A worker that is about to commit has just loaded the row it will write over.
LEMMA CommitEntry ==
    ASSUME Typed, NEW w \in Workers, WorkerStep(w), pc'[w] \in CommitPoints
    PROVE  /\ job'[w] = job[w] /\ UNCHANGED tableVars
           /\ loaded'[w] = [job |-> row[job[w]], assigned |-> assigned[w]]
           /\ \/ pc[w] = "progress" /\ pc'[w] = "progressCommit" /\ row[job[w]].status = "RUNNING"
              \/ pc[w] = "complete" /\ pc'[w] = "completeCommit"
              \/ pc[w] = "cancel" /\ pc'[w] = "cancelCommit"
              \/ pc[w] = "fail" /\ pc'[w] = "failCommit"
<1> USE DEF Typed, TypeOK, TableTypeOK, WorkerTypeOK, At, Loop, Load, CommitPoints
<1>1. CASE Scan(w) \/ Recover(w)
  <2>1. PICK to \in {"receive", "recover", "claim"} : pc' = [pc EXCEPT ![w] = to]
    <3>1. CASE Scan(w) BY <3>1 DEF Scan
    <3>2. CASE Recover(w)
      <4>1. \/ pc' = [pc EXCEPT ![w] = "receive"]
            \/ pc' = [pc EXCEPT ![w] = "claim"]
        BY <3>2 DEF Recover
      <4>2. QED BY <4>1
    <3>3. QED BY <1>1, <3>1, <3>2
  <2>2. pc'[w] = to BY <2>1
  <2>3. QED BY <2>2
<1>2. CASE Receive(w) \/ ReceiveNothing(w) \/ Poll(w)
  BY <1>2 DEF Receive, ReceiveNothing, Poll
<1>3. CASE Claim(w) \/ Case(w) \/ Progress(w) \/ ProgressCommit(w) \/ Import(w)
  BY <1>3 DEF Claim, Case, Progress, ProgressCommit, Import
<1>4. CASE Complete(w) \/ CancelRun(w) \/ Fail(w)
  BY <1>4 DEF Complete, CancelRun, Fail, LoadOutcome
<1>5. CASE CompleteCommit(w) \/ CompleteAckLost(w) \/ CancelCommit(w) \/ FailCommit(w)
  BY <1>5 DEF CompleteCommit, CompleteAckLost, CancelCommit, FailCommit
<1>6. CASE Wake(w) \/ Requeue(w) \/ Mark(w) \/ MarkCommit(w)
  BY <1>6 DEF Wake, Requeue, Mark, MarkCommit
<1>7. CASE Raise(w) \/ Crash(w) \/ Restart(w)
  BY <1>7 DEF Raise, Crash, Restart
<1>8. QED
  BY <1>1, <1>2, <1>3, <1>4, <1>5, <1>6, <1>7 DEF WorkerStep, Progresses

-----------------------------------------------------------------------------
(* How rows grow in every regime *)

\* What no transaction undoes: the row exists and belongs to its request, a
\* cancellation stays and stops further attempts, a run once linked is the
\* job's own, and completing links it.
Grows(j, old, new) ==
    /\ old.status # "ABSENT" => new.status # "ABSENT" /\ new.body = old.body
    /\ new.status = "ABSENT" => new = old
    /\ old.cancel_requested =>
           new.cancel_requested /\ new.attempt_count = old.attempt_count
    /\ \/ new.run = old.run
       \/ new.run = RunOf[j] /\ RunOf[j] \in runs
    /\ new.status \in Completed =>
           new.status = old.status \/ new.run = RunOf[j]

\* The locked updates of a row let it grow.
LEMMA GrowsByUpdate ==
    ASSUME NEW j \in Jobs, NEW r \in Rows, r.status # "ABSENT"
    PROVE  /\ Grows(j, r, Dispatched(r))
           /\ Grows(j, r, CancelledByUser(r))
           /\ ~r.cancel_requested => Grows(j, r, Started(r))
           /\ Grows(j, r, Ended(r, "CANCELLED"))
           /\ Grows(j, r, Recovered(r))
           /\ Grows(j, r, Missed(r))
<1> USE DEF Grows, Completed, Rows
<1>1. Grows(j, r, Dispatched(r)) BY DEF Dispatched
<1>2. Grows(j, r, CancelledByUser(r)) BY DEF CancelledByUser
<1>3. ~r.cancel_requested => Grows(j, r, Started(r)) BY DEF Started
<1>4. Grows(j, r, Ended(r, "CANCELLED")) BY DEF Ended
<1>5. Grows(j, r, Recovered(r)) BY DEF Recovered, Ended, GivenBack
<1>6. Grows(j, r, Missed(r)) BY DEF Missed
<1>7. QED BY <1>1, <1>2, <1>3, <1>4, <1>5, <1>6

\* The unlocked writes: what the session loaded may be out of date, except
\* that a run it saw linked still is.
LEMMA GrowsByFlush ==
    ASSUME NEW j \in Jobs, NEW cur \in Rows, NEW old \in Rows, NEW new \in Rows,
           cur.status # "ABSENT",
           cur.run # NoRun => cur.run = RunOf[j],
           old.run \in {NoRun, cur.run},
           new.status = old.status \/ new.status # "ABSENT",
           new.cancel_requested = old.cancel_requested \/ new.cancel_requested,
           new.run = old.run \/ (new.run = RunOf[j] /\ RunOf[j] \in runs),
           new.status \in Completed => new.status = old.status \/ new.run = RunOf[j]
    PROVE  Grows(j, cur, Flush(cur, old, new)) /\ Grows(j, cur, Beaten(Flush(cur, old, new)))
<1>1. RunOf[j] # NoRun BY JobTableAssumption
<1> DEFINE f == Flush(cur, old, new)
<1>2. /\ f.status = IF new.status = old.status THEN cur.status ELSE new.status
      /\ f.cancel_requested = IF new.cancel_requested = old.cancel_requested
                              THEN cur.cancel_requested ELSE new.cancel_requested
      /\ f.run = IF new.run = old.run THEN cur.run ELSE new.run
      /\ f.attempt_count = cur.attempt_count
      /\ f.body = cur.body
      /\ f \in Rows
  BY FlushFields, FlushType
<1> HIDE DEF f
<1>3. Grows(j, cur, f) BY <1>1, <1>2 DEF Grows
<1>4. Grows(j, cur, Beaten(f)) BY <1>1, <1>2 DEF Grows, Beaten, Rows
<1>5. QED BY <1>3, <1>4 DEF f

\* A step that rewrites one row as Grows allows leaves every row so.
LEMMA GrowsOneRow ==
    ASSUME Typed, NEW k \in Jobs, NEW new, row' = [row EXCEPT ![k] = new],
           Grows(k, row[k], new)
    PROVE  \A j \in Jobs : Grows(j, row[j], row'[j])
BY DEF Grows, Typed, TypeOK, TableTypeOK

\* A step that leaves the table alone leaves every row as Grows allows.
LEMMA GrowsUnchanged ==
    ASSUME UNCHANGED row
    PROVE  \A j \in Jobs : Grows(j, row[j], row'[j])
BY DEF Grows

\* No step of any actor undoes what Grows says is kept.
LEMMA RowsGrow ==
    ASSUME Existence, [Next]_vars
    PROVE  \A j \in Jobs : Grows(j, row[j], row'[j])
<1> USE DEF Existence
<1>t. Typed BY DEF Typed
<1>r. row \in [Jobs -> Rows] BY DEF TypeOK, TableTypeOK
<1>a. ASSUME NEW k \in Jobs, NEW new, row' = [row EXCEPT ![k] = new], Grows(k, row[k], new)
      PROVE  \A j \in Jobs : Grows(j, row[j], row'[j])
  BY <1>a, <1>t, GrowsOneRow
<1>b. ASSUME UNCHANGED row PROVE \A j \in Jobs : Grows(j, row[j], row'[j])
  BY <1>b, GrowsUnchanged
<1>w. ASSUME NEW w \in Workers, pc[w] \in BusyPoints
      PROVE  /\ job[w] \in Jobs /\ row[job[w]] \in Rows /\ row[job[w]].status # "ABSENT"
             /\ loaded[w].job \in Rows
             /\ row[job[w]].run # NoRun => row[job[w]].run = RunOf[job[w]]
  BY <1>w, <1>r, LoadTypes DEF BusyHasJob, JobsExist, LinksGrow, TypeOK, WorkerTypeOK
<1>1. ASSUME NEW r \in Requests, PostStep(r) PROVE \A j \in Jobs : Grows(j, row[j], row'[j])
  <2>1. KeyOf[r] \in Jobs BY JobApiAssumption
  <2>2. CASE UNCHANGED row BY <2>2, <1>b
  <2>3. CASE Insert(r) /\ row[KeyOf[r]].status = "ABSENT"
    <3>1. Grows(KeyOf[r], row[KeyOf[r]], NewRow(BodyOf[r], newest + 1))
      BY <2>1, <2>3 DEF Grows, NewRow, NoRow, JobsExist, Completed
    <3>2. row' = [row EXCEPT ![KeyOf[r]] = NewRow(BodyOf[r], newest + 1)]
      BY <2>3 DEF Insert
    <3>3. QED BY <2>1, <3>1, <3>2, <1>a
  <2>4. CASE MarkDispatched(r)
    <3>1. row[KeyOf[r]].status # "ABSENT"
      BY <2>4 DEF MarkDispatched, Goto, JobsExist, AcceptedMatchesRow
    <3>2. Grows(KeyOf[r], row[KeyOf[r]], Dispatched(row[KeyOf[r]]))
      BY <2>1, <3>1, <1>r, GrowsByUpdate
    <3>3. QED BY <2>1, <2>4, <3>2, <1>a DEF MarkDispatched
  <2>5. QED
    BY <1>1, <2>2, <2>3, <2>4
       DEF PostStep, Post, Lookup, Insert, Enqueue, ApiCrash, tableVars
<1>2. ASSUME NEW k \in Jobs, Cancel(k) PROVE \A j \in Jobs : Grows(j, row[j], row'[j])
  <2>1. Grows(k, row[k], CancelledByUser(row[k]))
    BY <1>2, <1>r, GrowsByUpdate DEF Cancel
  <2>2. QED BY <1>2, <2>1, <1>a DEF Cancel
<1>3. ASSUME NEW w \in Workers, WorkerStep(w) PROVE \A j \in Jobs : Grows(j, row[j], row'[j])
  <2>1. CASE UNCHANGED row BY <2>1, <1>b
  <2>2. CASE Recover(w)
    <3>1. ASSUME NEW j \in Jobs PROVE Grows(j, row[j], row'[j])
      <4>1. CASE j \in held[w]
        <5>1. row[j].status # "ABSENT" BY <4>1 DEF JobsExist
        <5>2. Grows(j, row[j], Recovered(row[j])) BY <5>1, <1>r, GrowsByUpdate
        <5>3. row'[j] = Recovered(row[j]) BY <2>2, <4>1 DEF Recover
        <5>4. QED BY <5>2, <5>3
      <4>2. CASE j \notin held[w]
        <5>1. row'[j] = row[j] BY <2>2, <4>2 DEF Recover
        <5>2. QED BY <5>1 DEF Grows
      <4>3. QED BY <4>1, <4>2
    <3>2. QED BY <3>1
  <2>3. CASE Claim(w)
    <3>1. pc[w] \in BusyPoints BY <2>3, PointNames DEF Claim
    <3>2. CASE row[job[w]].status = "QUEUED" /\ row' = [row EXCEPT ![job[w]] = Ended(@, "CANCELLED")]
      BY <3>1, <3>2, <1>w, <1>a, GrowsByUpdate
    <3>3. CASE /\ ~row[job[w]].cancel_requested
               /\ row' = [row EXCEPT ![job[w]] = Started(@)]
      BY <3>1, <3>3, <1>w, <1>a, GrowsByUpdate
    <3>4. QED BY <2>3, <3>2, <3>3, <2>1 DEF Claim, Claimable
  <2>4. CASE ProgressCommit(w)
    <3>1. pc[w] \in BusyPoints /\ pc[w] \in CommitPoints
      BY <2>4, PointNames DEF ProgressCommit, At, CommitPoints
    <3> DEFINE new == Progressed(loaded[w].job, done[w])
    <3>2. new \in Rows BY <3>1, <1>w, RowTypes DEF TypeOK, WorkerTypeOK
    <3>3. /\ new.status = loaded[w].job.status /\ new.run = loaded[w].job.run
          /\ new.cancel_requested = loaded[w].job.cancel_requested
      BY <3>1, <1>w DEF Progressed, Rows
    <3>4. loaded[w].job.run \in {NoRun, row[job[w]].run} BY <3>1 DEF LinksGrow
    <3>5. Grows(job[w], row[job[w]], Beaten(Flush(row[job[w]], loaded[w].job, new)))
      BY <3>1, <3>2, <3>3, <3>4, <1>w, GrowsByFlush
    <3>6. QED BY <2>4, <3>1, <3>5, <1>w, <1>a DEF ProgressCommit
  <2>store. ASSUME pc[w] \in CommitPoints, NEW new \in Rows, StoreOutcome(w, new),
                   new.status = loaded[w].job.status \/ new.status # "ABSENT",
                   new.cancel_requested = loaded[w].job.cancel_requested \/ new.cancel_requested,
                   \/ new.run = loaded[w].job.run
                   \/ new.run = RunOf[job[w]] /\ RunOf[job[w]] \in runs,
                   new.status \in Completed =>
                       new.status = loaded[w].job.status \/ new.run = RunOf[job[w]]
            PROVE  \A j \in Jobs : Grows(j, row[j], row'[j])
    <3>1. pc[w] \in BusyPoints BY <2>store, PointNames DEF CommitPoints
    <3>2. loaded[w].job.run \in {NoRun, row[job[w]].run} BY <2>store DEF LinksGrow
    <3>3. Grows(job[w], row[job[w]], Flush(row[job[w]], loaded[w].job, new))
      BY <2>store, <3>1, <3>2, <1>w, GrowsByFlush
    <3>4. QED BY <2>store, <3>1, <3>3, <1>w, <1>a DEF StoreOutcome
  <2>old. loaded[w].job \in Rows BY LoadTypes DEF TypeOK, WorkerTypeOK
  <2>5. CASE CompleteCommit(w) \/ CompleteAckLost(w)
    <3>1. pc[w] = "completeCommit" BY <2>5 DEF CompleteCommit, CompleteAckLost, Loop, At
    <3>2. job[w] \in Jobs /\ RunOf[job[w]] \in runs
      BY <3>1, <1>w, PointNames DEF LinksGrow
    <3> DEFINE new == Finished(loaded[w].job, job[w])
    <3>3. /\ new \in Rows /\ new.run = RunOf[job[w]] /\ new.status \in Completed
          /\ new.cancel_requested = loaded[w].job.cancel_requested
      BY <3>2, <2>old, RowTypes, ZenonT(60) DEF Finished, Rows, Completed
    <3>4. new.status # "ABSENT" BY <3>3 DEF Completed
    <3>5. StoreOutcome(w, new) BY <2>5 DEF CompleteCommit, CompleteAckLost
    <3>6. pc[w] \in CommitPoints BY <3>1 DEF CommitPoints
    <3> HIDE DEF new
    <3>7. QED BY <3>2, <3>3, <3>4, <3>5, <3>6, <2>store
  <2>6. CASE CancelCommit(w)
    <3>1. pc[w] \in CommitPoints BY <2>6 DEF CancelCommit, Loop, At, CommitPoints
    <3>2. CASE StoreOutcome(w, loaded[w].job) BY <3>1, <3>2, <2>old, <2>store
    <3>3. CASE StoreOutcome(w, Stopped(loaded[w].job))
      <4>1. /\ Stopped(loaded[w].job) \in Rows
            /\ Stopped(loaded[w].job).status = "CANCELLED"
            /\ Stopped(loaded[w].job).cancel_requested
            /\ Stopped(loaded[w].job).run = loaded[w].job.run
        BY <2>old, RowTypes DEF Stopped, Rows
      <4>2. QED BY <3>1, <3>3, <4>1, <2>store DEF Completed
    <3>4. QED BY <2>6, <3>2, <3>3 DEF CancelCommit
  <2>7. CASE FailCommit(w)
    <3>1. pc[w] \in CommitPoints BY <2>7 DEF FailCommit, Loop, At, CommitPoints
    <3>2. ASSUME NEW s \in {"CANCELLED", "FAILED"}, StoreOutcome(w, Ended(loaded[w].job, s))
          PROVE  \A j \in Jobs : Grows(j, row[j], row'[j])
      <4>1. /\ Ended(loaded[w].job, s) \in Rows
            /\ Ended(loaded[w].job, s).status = s
            /\ Ended(loaded[w].job, s).cancel_requested = loaded[w].job.cancel_requested
            /\ Ended(loaded[w].job, s).run = loaded[w].job.run
        BY <2>old, RowTypes, StatusNames DEF Ended, Rows
      <4>2. QED BY <3>1, <3>2, <4>1, <2>store DEF Completed
    <3>3. CASE StoreOutcome(w, GivenBack(loaded[w].job))
      <4>1. /\ GivenBack(loaded[w].job) \in Rows
            /\ GivenBack(loaded[w].job).status = "QUEUED"
            /\ GivenBack(loaded[w].job).cancel_requested = loaded[w].job.cancel_requested
            /\ GivenBack(loaded[w].job).run = loaded[w].job.run
        BY <2>old, RowTypes DEF GivenBack, Rows
      <4>2. QED BY <3>1, <3>3, <4>1, <2>store DEF Completed
    <3>4. QED BY <2>7, <3>2, <3>3 DEF FailCommit
  <2>8. CASE MarkCommit(w)
    <3>1. pc[w] \in BusyPoints BY <2>8, PointNames DEF MarkCommit, Loop, At
    <3>2. Grows(job[w], row[job[w]], Dispatched(row[job[w]])) BY <3>1, <1>w, GrowsByUpdate
    <3>3. QED BY <2>8, <3>1, <3>2, <1>w, <1>a DEF MarkCommit
  <2>9. QED
    BY <1>3, <2>1, <2>2, <2>3, <2>4, <2>5, <2>6, <2>7, <2>8
       DEF WorkerStep, Progresses, Scan, Receive, ReceiveNothing, Poll, Case, Progress,
           Import, Complete, CancelRun, Fail, LoadOutcome, Wake, Requeue, Mark, Raise,
           Crash, Restart, tableVars
<1>4. ASSUME NEW k \in Jobs, HeartbeatExpires(k) PROVE \A j \in Jobs : Grows(j, row[j], row'[j])
  <2>1. Grows(k, row[k], Missed(row[k]))
    BY <1>4, <1>r, GrowsByUpdate DEF HeartbeatExpires
  <2>2. QED BY <1>4, <2>1, <1>a DEF HeartbeatExpires
<1>5. QED
  BY <1>1, <1>2, <1>3, <1>4, <1>b
     DEF Next, ApiNext, WorkerNext, LoseNotifications, vars, tableVars

-----------------------------------------------------------------------------
(* Existence is inductive, in every regime *)

\* The empty tables satisfy Existence.
LEMMA ExistenceInit == Init => Existence
<1> SUFFICES ASSUME Init PROVE Existence
  OBVIOUS
<1>1. Typed BY TypedInit
<1>2. JobsExist
  BY JobTableAssumption
     DEF Init, TableInit, ApiInit, WorkerInit, JobsExist, NoRow, AcceptedMatchesRow
<1>3. LinksGrow
  BY JobTableAssumption, JobApiAssumption
     DEF Init, TableInit, WorkerInit, LinksGrow, NoRow, Completed, CommitPoints
<1>4. QED BY <1>1, <1>2, <1>3 DEF Existence, Typed

\* Runs are never deleted.
LEMMA RunsKept == [Next]_vars => runs \subseteq runs'
<1> SUFFICES ASSUME [Next]_vars PROVE runs \subseteq runs'
  OBVIOUS
<1>1. ASSUME NEW r \in Requests, PostStep(r) PROVE runs' = runs
  BY <1>1 DEF PostStep, Post, Lookup, Insert, Enqueue, MarkDispatched, ApiCrash, tableVars
<1>2. ASSUME NEW w \in Workers, WorkerStep(w) PROVE runs \subseteq runs'
  <2>1. CASE Import(w) BY <2>1 DEF Import
  <2>2. CASE Scan(w) \/ Recover(w) \/ Receive(w) \/ ReceiveNothing(w) \/ Poll(w) \/ Claim(w)
             \/ Case(w) \/ Progress(w) \/ ProgressCommit(w)
    BY <2>2 DEF Scan, Recover, Receive, ReceiveNothing, Poll, Claim, Case, Progress,
                ProgressCommit, tableVars
  <2>3. CASE Complete(w) \/ CancelRun(w) \/ Fail(w) \/ CompleteCommit(w) \/ CompleteAckLost(w)
             \/ CancelCommit(w) \/ FailCommit(w)
    BY <2>3 DEF Complete, CancelRun, Fail, LoadOutcome, CompleteCommit, CompleteAckLost,
                CancelCommit, FailCommit, StoreOutcome, tableVars
  <2>4. CASE Wake(w) \/ Requeue(w) \/ Mark(w) \/ MarkCommit(w) \/ Raise(w) \/ Crash(w) \/ Restart(w)
    BY <2>4 DEF Wake, Requeue, Mark, MarkCommit, Raise, Crash, Restart, tableVars
  <2>5. QED BY <1>2, <2>1, <2>2, <2>3, <2>4 DEF WorkerStep, Progresses
<1>3. QED
  BY <1>1, <1>2
     DEF Next, ApiNext, WorkerNext, Cancel, HeartbeatExpires, LoseNotifications, vars, tableVars

\* A worker's job was its job before, or is a stored one it took up.
LEMMA JobTaken ==
    ASSUME Existence, NEW w \in Workers, WorkerStep(w), job'[w] \in Jobs
    PROVE  row[job'[w]].status # "ABSENT"
<1> USE DEF Existence, TypeOK, TableTypeOK, WorkerTypeOK, JobsExist
<1>0. CASE job' = job BY <1>0
<1>1. CASE Recover(w)
  <2>1. CASE \E j \in held[w] : job' = [job EXCEPT ![w] = j] BY <2>1
  <2>2. QED BY <1>0, <1>1, <2>1 DEF Recover
<1>2. CASE Receive(w)
  <2>1. 1 \in DOMAIN redis /\ Head(redis) = redis[1] BY <1>2 DEF Receive
  <2>2. QED BY <1>2, <2>1 DEF Receive
<1>3. CASE job' = [job EXCEPT ![w] = NoJob]
  BY <1>3, JobTableAssumption
<1>4. CASE Poll(w)
  <2>1. CASE Queued # {}
    <3>1. PICK j \in Queued : job' = [job EXCEPT ![w] = j] BY <1>4, <2>1 DEF Poll
    <3>2. QED BY <3>1 DEF Queued
  <2>2. QED BY <1>3, <1>4, <2>1 DEF Poll, Loop
<1>5. CASE Claim(w) BY <1>0, <1>3, <1>5 DEF Claim, Loop
<1>6. CASE CompleteCommit(w) \/ CompleteAckLost(w) \/ CancelCommit(w) \/ FailCommit(w)
           \/ Requeue(w) \/ Mark(w) \/ MarkCommit(w) \/ Crash(w)
  BY <1>0, <1>3, <1>6
     DEF CompleteCommit, CompleteAckLost, CancelCommit, FailCommit, Requeue, Mark, MarkCommit,
         Crash, Loop
<1>7. CASE Scan(w) \/ ReceiveNothing(w) \/ Case(w) \/ Progress(w) \/ ProgressCommit(w)
           \/ Import(w) \/ Complete(w) \/ CancelRun(w) \/ Fail(w) \/ Wake(w) \/ Raise(w)
           \/ Restart(w)
  BY <1>0, <1>7
     DEF Scan, ReceiveNothing, Case, Progress, ProgressCommit, Import, Complete, CancelRun,
         Fail, LoadOutcome, Wake, Raise, Restart
<1>8. QED
  BY <1>1, <1>2, <1>4, <1>5, <1>6, <1>7 DEF WorkerStep, Progresses

\* Who is new in the Redis list is stored already.
LEMMA NotifiedExist ==
    ASSUME Existence, [Next]_vars
    PROVE  \A i \in DOMAIN redis' : row[redis'[i]].status # "ABSENT"
<1> USE DEF Existence, TypeOK, TableTypeOK, WorkerTypeOK, JobsExist
<1>0. CASE UNCHANGED redis BY <1>0
<1>1. CASE redis # <<>> /\ redis' = Tail(redis) BY <1>1
<1>2. CASE redis' = <<>> BY <1>2
<1>3. ASSUME NEW j \in Jobs, row[j].status # "ABSENT", redis' = Append(redis, j)
      PROVE  \A i \in DOMAIN redis' : row[redis'[i]].status # "ABSENT"
  BY <1>3
<1>4. ASSUME NEW r \in Requests, PostStep(r)
      PROVE  \A i \in DOMAIN redis' : row[redis'[i]].status # "ABSENT"
  <2>1. CASE Enqueue(r) /\ Push(KeyOf[r])
    <3>1. KeyOf[r] \in Jobs /\ row[KeyOf[r]].status # "ABSENT"
      BY <2>1, JobApiAssumption DEF Enqueue, Goto, AcceptedMatchesRow
    <3>2. QED BY <2>1, <3>1, <1>3 DEF Push
  <2>2. QED
    BY <1>0, <1>4, <2>1
       DEF PostStep, Post, Lookup, Insert, Enqueue, MarkDispatched, ApiCrash, tableVars
<1>5. ASSUME NEW w \in Workers, WorkerStep(w)
      PROVE  \A i \in DOMAIN redis' : row[redis'[i]].status # "ABSENT"
  <2>1. CASE Receive(w) \/ ReceiveNothing(w) BY <1>0, <1>1, <2>1 DEF Receive, ReceiveNothing
  <2>2. CASE Requeue(w)
    <3>1. CASE pc[w] = "push" /\ Push(job[w])
      <4>1. job[w] \in Jobs BY <3>1, PointNames DEF BusyHasJob
      <4>2. QED BY <3>1, <4>1, <1>3 DEF Push
    <3>2. QED BY <1>0, <2>2, <3>1 DEF Requeue, At, tableVars
  <2>3. CASE Scan(w) \/ Recover(w) \/ Poll(w) \/ Claim(w)
             \/ Case(w) \/ Progress(w) \/ ProgressCommit(w) \/ Import(w)
    BY <1>0, <2>3 DEF Scan, Recover, Poll, Claim, Case, Progress, ProgressCommit, Import, tableVars
  <2>4. CASE Complete(w) \/ CancelRun(w) \/ Fail(w) \/ CompleteCommit(w) \/ CompleteAckLost(w)
             \/ CancelCommit(w) \/ FailCommit(w)
    BY <1>0, <2>4 DEF Complete, CancelRun, Fail, LoadOutcome, CompleteCommit, CompleteAckLost,
                CancelCommit, FailCommit, StoreOutcome, tableVars
  <2>5. CASE Wake(w) \/ Mark(w) \/ MarkCommit(w) \/ Raise(w) \/ Crash(w) \/ Restart(w)
    BY <1>0, <2>5 DEF Wake, Mark, MarkCommit, Raise, Crash, Restart, tableVars
  <2>6. QED BY <1>5, <2>1, <2>2, <2>3, <2>4, <2>5 DEF WorkerStep, Progresses
<1>6. QED
  BY <1>0, <1>2, <1>4, <1>5
     DEF Next, ApiNext, WorkerNext, Cancel, HeartbeatExpires, LoseNotifications, vars, tableVars

\* Recovery locks stored rows.
LEMMA LockedExist ==
    ASSUME Existence, NEW w \in Workers, WorkerStep(w), NEW j \in held'[w]
    PROVE  row[j].status # "ABSENT"
<1> USE DEF Existence, TypeOK, TableTypeOK, JobsExist
<1>1. CASE Scan(w) BY <1>1 DEF Scan, StaleRows, Stale
<1>2. CASE Recover(w) \/ Crash(w) BY <1>2 DEF Recover, Crash
<1>3. CASE held' = held BY <1>3
<1>4. CASE Receive(w) \/ ReceiveNothing(w) \/ Poll(w) \/ Claim(w) \/ Case(w) \/ Progress(w)
           \/ ProgressCommit(w) \/ Import(w) \/ Wake(w) \/ Requeue(w) \/ Mark(w)
           \/ MarkCommit(w) \/ Raise(w) \/ Restart(w)
  BY <1>3, <1>4
     DEF Receive, ReceiveNothing, Poll, Claim, Case, Progress, ProgressCommit, Import, Wake,
         Requeue, Mark, MarkCommit, Raise, Restart, tableVars
<1>5. CASE Complete(w) \/ CancelRun(w) \/ Fail(w) \/ CompleteCommit(w) \/ CompleteAckLost(w)
           \/ CancelCommit(w) \/ FailCommit(w)
  BY <1>3, <1>5 DEF Complete, CancelRun, Fail, LoadOutcome, CompleteCommit, CompleteAckLost,
              CancelCommit, FailCommit, StoreOutcome, tableVars
<1>6. QED BY <1>1, <1>2, <1>4, <1>5 DEF WorkerStep, Progresses

\* A run is complete in this attempt only once it is persisted.
LEMMA CompleteEntry ==
    ASSUME Typed, NEW w \in Workers, WorkerStep(w), pc'[w] = "complete"
    PROVE  Import(w)
<1> USE DEF Typed, TypeOK, WorkerTypeOK, At, Loop
<1>0. CASE Scan(w) BY <1>0 DEF Scan
<1>1. CASE Recover(w)
  <2>1. \/ pc' = [pc EXCEPT ![w] = "receive"]
        \/ pc' = [pc EXCEPT ![w] = "claim"]
    BY <1>1 DEF Recover
  <2>2. QED BY <2>1
<1>2. CASE Receive(w) \/ ReceiveNothing(w) \/ Poll(w) \/ Claim(w)
  BY <1>2 DEF Receive, ReceiveNothing, Poll, Claim
<1>3. CASE Case(w) \/ Progress(w) \/ ProgressCommit(w)
  BY <1>3 DEF Case, Progress, ProgressCommit
<1>4. CASE Complete(w) \/ CancelRun(w) \/ Fail(w)
  BY <1>4 DEF Complete, CancelRun, Fail, LoadOutcome
<1>5. CASE CompleteCommit(w) \/ CompleteAckLost(w) \/ CancelCommit(w) \/ FailCommit(w)
  BY <1>5 DEF CompleteCommit, CompleteAckLost, CancelCommit, FailCommit
<1>6. CASE Wake(w) \/ Requeue(w) \/ Mark(w) \/ MarkCommit(w) \/ Raise(w) \/ Crash(w) \/ Restart(w)
  BY <1>6 DEF Wake, Requeue, Mark, MarkCommit, Raise, Crash, Restart
<1>7. QED
  BY <1>0, <1>1, <1>2, <1>3, <1>4, <1>5, <1>6 DEF WorkerStep, Progresses

\* A request is answered 202 only for its own row.
LEMMA AnswersMatch ==
    ASSUME Existence, [Next]_vars, NEW r \in Requests,
           apc'[r] \in {"dispatch", "mark", "accepted"}
    PROVE  row[KeyOf[r]].status # "ABSENT" /\ row[KeyOf[r]].body = BodyOf[r]
<1> USE DEF Existence, TypeOK, ApiTypeOK, JobsExist, AcceptedMatchesRow
<1>1. CASE apc'[r] = apc[r] BY <1>1
<1>2. ASSUME NEW q \in Requests, PostStep(q), q # r PROVE apc'[r] = apc[r]
  BY <1>2 DEF PostStep, Post, Lookup, Insert, Enqueue, MarkDispatched, ApiCrash, Goto
<1>3. CASE Lookup(r)
  <2>1. /\ KeyOf[r] \in Jobs /\ BodyOf[r] \in Bodies /\ NoBody \notin Bodies
    BY JobApiAssumption, JobTableAssumption
  <2>2. row[KeyOf[r]].body = BodyOf[r]
    BY <1>3 DEF Lookup, Goto
  <2>3. row[KeyOf[r]].status # "ABSENT" BY <2>1, <2>2 DEF NoRow
  <2>4. QED BY <2>2, <2>3
<1>4. CASE Enqueue(r) \/ MarkDispatched(r)
  BY <1>4 DEF Enqueue, MarkDispatched, Goto
<1>5. CASE Post(r) \/ Insert(r) \/ ApiCrash(r)
  BY <1>5 DEF Post, Insert, ApiCrash, Goto
<1>6. CASE PostStep(r) BY <1>3, <1>4, <1>5, <1>6 DEF PostStep
<1>7. QED
  BY <1>1, <1>2, <1>6
     DEF Next, ApiNext, WorkerNext, Cancel, vars, apiVars

\* Every step keeps Existence: what is named is stored, what is linked stays.
LEMMA ExistenceStep == Existence /\ [Next]_vars => Existence'
<1> SUFFICES ASSUME Existence, [Next]_vars PROVE Existence'
  OBVIOUS
<1>1. Typed BY DEF Existence, Typed
<1>2. Typed' BY <1>1, TypedStep
<1>3. \A j \in Jobs : Grows(j, row[j], row'[j]) BY RowsGrow
<1>4. runs \subseteq runs' BY RunsKept
<1>5. \A j \in Jobs : row[j].status # "ABSENT" =>
          row'[j].status # "ABSENT" /\ row'[j].body = row[j].body
  BY <1>3 DEF Grows
<1>6. \A j \in Jobs : row[j] \in Rows /\ row'[j] \in Rows
  BY <1>1, <1>2 DEF Typed, TypeOK, TableTypeOK
<1>7. \/ UNCHANGED workerVars /\ UNCHANGED held
      \/ \E w \in Workers : WorkerStep(w)
  BY DEF Next, ApiNext, WorkerNext, PostStep, Post, Lookup, Insert, Enqueue, MarkDispatched,
         ApiCrash, Cancel, HeartbeatExpires, LoseNotifications, tableVars, vars
<1>8. JobsExist'
  <2>1. ASSUME NEW w \in Workers, job'[w] \in Jobs PROVE row'[job'[w]].status # "ABSENT"
    <3>1. row[job'[w]].status # "ABSENT"
      <4>1. CASE job'[w] = job[w] BY <2>1, <4>1 DEF Existence, JobsExist
      <4>2. CASE WorkerStep(w) BY <2>1, <4>2, JobTaken
      <4>3. ASSUME NEW u \in Workers \ {w}, WorkerStep(u) PROVE job'[w] = job[w]
        BY <1>1, <4>3, WorkerFrame
      <4>4. QED BY <1>7, <4>1, <4>2, <4>3 DEF workerVars
    <3>2. QED BY <1>5, <2>1, <3>1
  <2>2. ASSUME NEW w \in Workers, NEW j \in held'[w] PROVE row'[j].status # "ABSENT"
    <3>1. j \in Jobs BY <1>2 DEF Typed, TypeOK, TableTypeOK
    <3>2. row[j].status # "ABSENT"
      <4>1. CASE held'[w] = held[w] BY <4>1 DEF Existence, JobsExist
      <4>2. CASE WorkerStep(w) BY <4>2, LockedExist
      <4>3. ASSUME NEW u \in Workers \ {w}, WorkerStep(u) PROVE held'[w] = held[w]
        BY <1>1, <4>3, WorkerFrame
      <4>4. QED BY <1>7, <4>1, <4>2, <4>3
    <3>3. QED BY <1>5, <3>1, <3>2
  <2>3. ASSUME NEW i \in DOMAIN redis' PROVE row'[redis'[i]].status # "ABSENT"
    <3>1. redis'[i] \in Jobs BY <1>2 DEF Typed, TypeOK, TableTypeOK
    <3>2. QED BY <1>5, <3>1, NotifiedExist
  <2>4. ASSUME NEW j \in Jobs, row'[j].status = "ABSENT"
        PROVE  row'[j] = NoRow
    BY <1>3, <2>4 DEF Grows, Existence, JobsExist
  <2>5. AcceptedMatchesRow'
    BY <1>5, AnswersMatch, JobApiAssumption DEF AcceptedMatchesRow
  <2>6. QED BY <2>1, <2>2, <2>3, <2>4, <2>5 DEF JobsExist
<1>9. LinksGrow'
  <2>1. \A j \in Jobs : RunOf[j] # NoRun BY JobTableAssumption
  <2>2. ASSUME NEW j \in Jobs
        PROVE  /\ row'[j].run # NoRun => row'[j].run = RunOf[j] /\ RunOf[j] \in runs'
               /\ row'[j].status \in Completed => row'[j].run # NoRun
               /\ row[j].run # NoRun => row'[j].run = row[j].run
    BY <1>3, <1>4, <2>1 DEF Grows, Existence, LinksGrow
  <2>3. ASSUME NEW w \in Workers, pc'[w] \in CommitPoints
        PROVE  loaded'[w].job.run \in {NoRun, row'[job'[w]].run}
    <3>1. CASE pc'[w] = pc[w] /\ job'[w] = job[w] /\ loaded'[w] = loaded[w]
      <4>1. job[w] \in Jobs
        BY <2>3, <3>1, PointNames DEF Existence, BusyHasJob, CommitPoints
      <4>2. QED BY <2>2, <2>3, <3>1, <4>1 DEF Existence, LinksGrow
    <3>2. CASE WorkerStep(w)
      <4>1. loaded'[w].job = row'[job'[w]]
        <5>1. /\ job'[w] = job[w] /\ UNCHANGED tableVars
              /\ loaded'[w] = [job |-> row[job[w]], assigned |-> assigned[w]]
          BY <1>1, <2>3, <3>2, CommitEntry
        <5>2. row' = row BY <5>1 DEF tableVars
        <5>3. QED BY <5>1, <5>2
      <4>2. QED BY <4>1
    <3>3. ASSUME NEW u \in Workers \ {w}, WorkerStep(u)
          PROVE  pc'[w] = pc[w] /\ job'[w] = job[w] /\ loaded'[w] = loaded[w]
      BY <1>1, <3>3, WorkerFrame
    <3>4. QED BY <1>7, <3>1, <3>2, <3>3 DEF workerVars
  <2>4. ASSUME NEW w \in Workers, pc'[w] \in {"complete", "completeCommit"}
        PROVE  RunOf[job'[w]] \in runs'
    <3>1. CASE pc'[w] = pc[w] /\ job'[w] = job[w]
      BY <1>4, <2>4, <3>1 DEF Existence, LinksGrow
    <3>2. CASE WorkerStep(w) /\ pc'[w] = "complete"
      <4>1. Import(w) BY <1>1, <3>2, CompleteEntry
      <4>2. QED BY <4>1 DEF Import
    <3>3. CASE WorkerStep(w) /\ pc'[w] = "completeCommit"
      <4>1. job'[w] = job[w] /\ pc[w] = "complete"
        BY <1>1, <3>3, CommitEntry DEF CommitPoints
      <4>2. QED BY <1>4, <4>1 DEF Existence, LinksGrow
    <3>4. ASSUME NEW u \in Workers \ {w}, WorkerStep(u) PROVE pc'[w] = pc[w] /\ job'[w] = job[w]
      BY <1>1, <3>4, WorkerFrame
    <3>5. QED BY <1>7, <2>4, <3>1, <3>2, <3>3, <3>4 DEF workerVars
  <2>5. QED BY <2>2, <2>3, <2>4 DEF LinksGrow
<1>10. QED BY <1>2, <1>8, <1>9 DEF Existence, Typed

\* Notifications, locks, jobs of workers and answered requests name stored rows,
\* and links to runs hold, in every regime of clocks, crashes and lost messages.
THEOREM ExistenceHolds == Spec => []Existence
BY ExistenceInit, ExistenceStep, PTL DEF Spec

\* No two requests that differ ever share a row that both were accepted for,
\* whatever the interleaving of their lookups, inserts and dispatches.
THEOREM AcceptedIsOwn == Spec => []AcceptedMatchesRow
<1>1. Existence => AcceptedMatchesRow
  BY DEF Existence, JobsExist
<1>2. QED BY <1>1, ExistenceHolds, PTL

\* A completed job links its own persisted run, even when executors overlap.
THEOREM LinksAreIntact == Spec => []LinkIntegrity
<1>1. Existence => LinkIntegrity
  BY DEF Existence, LinksGrow, LinkIntegrity
<1>2. QED BY <1>1, ExistenceHolds, PTL

\* Once a cancellation is stored no worker starts another attempt.
THEOREM CancellationSticks == Spec => CancelledNeverStarts
<1>1. Existence /\ [Next]_vars =>
          [\A j \in Jobs : row[j].cancel_requested =>
              row'[j].cancel_requested /\ row'[j].attempt_count = row[j].attempt_count]_vars
  BY RowsGrow DEF Grows
<1>2. QED BY <1>1, ExistenceHolds, PTL DEF Spec, CancelledNeverStarts

-----------------------------------------------------------------------------
(* The timely regime: Discipline is inductive, and every step is a step of *)
(* the abstract lifecycle of each job.  First what a step can do to a row. *)

Created(j) == /\ row[j].status = "ABSENT"
              /\ \E b \in Bodies : \E n \in Nat : row'[j] = NewRow(b, n)

Marked(j) == ~Locked(j) /\ row[j].status # "ABSENT" /\ row'[j] = Dispatched(row[j])

Asked(j) == /\ ~Locked(j) /\ row[j].status \in {"QUEUED", "RUNNING"}
            /\ row'[j] = CancelledByUser(row[j])

Salvaged(w, j) == Recover(w) /\ j \in held[w] /\ row'[j] = Recovered(row[j])

\* A claim that takes the job, or finds it cancelled.
Taken(w, j) ==
    /\ Claim(w) /\ job[w] = j /\ ~Locked(j) /\ row[j].status = "QUEUED"
    /\ \/ ~row[j].cancel_requested /\ row'[j] = Started(row[j])
       \/ row[j].cancel_requested /\ row'[j] = Ended(row[j], "CANCELLED")

Advanced(w, j) ==
    /\ ProgressCommit(w) /\ job[w] = j /\ ~Locked(j)
    /\ row'[j] = Beaten(Flush(row[j], loaded[w].job, Progressed(loaded[w].job, done[w])))

\* The new row of an outcome, as a function of what was loaded.
Outcome(w, j, new) ==
    LET l == loaded[w].job
    IN  \/ /\ pc[w] = "completeCommit"
           /\ new = Finished(l, j)
        \/ /\ pc[w] = "cancelCommit"
           /\ new = IF l.status = "RUNNING" THEN Stopped(l) ELSE l
        \/ /\ pc[w] = "failCommit" /\ l.cancel_requested
           /\ new = Ended(l, "CANCELLED")
        \/ /\ pc[w] = "failCommit" /\ ~l.cancel_requested /\ l.attempt_count < MaxAttempts
           /\ new = GivenBack(l)
        \/ /\ pc[w] = "failCommit" /\ ~l.cancel_requested /\ l.attempt_count >= MaxAttempts
           /\ new = Ended(l, "FAILED")

Stored(w, j) ==
    /\ WorkerStep(w) /\ job[w] = j /\ ~Locked(j)
    /\ \E new \in Rows : /\ Outcome(w, j, new) /\ StoreOutcome(w, new)
                         /\ row'[j] = Flush(row[j], loaded[w].job, new)

Expired(j) == /\ row[j].status = "RUNNING" /\ row[j].heartbeat_fresh
              /\ SlowWorkers \/ \A w \in Workers : ~Executing(w, j)
              /\ row'[j] = Missed(row[j])

ByWorker(w, j) == Salvaged(w, j) \/ Taken(w, j) \/ Advanced(w, j) \/ Stored(w, j)
                  \/ (WorkerStep(w) /\ pc[w] = "markCommit" /\ Marked(j))

\* A worker writes only the rows it has locked, or the row of its job.
LEMMA RowsOfWorker ==
    ASSUME Existence, NEW w \in Workers, WorkerStep(w), NEW j \in Jobs
    PROVE  row'[j] = row[j] \/ ByWorker(w, j)
<1> USE DEF ByWorker
<1>r. row \in [Jobs -> Rows] BY DEF Existence, TypeOK, TableTypeOK
<1>a. ASSUME NEW k \in Jobs, NEW new, row' = [row EXCEPT ![k] = new], j # k
      PROVE  row'[j] = row[j]
  BY <1>a, <1>r
<1>w. ASSUME pc[w] \in BusyPoints
      PROVE  /\ job[w] \in Jobs /\ row[job[w]] \in Rows /\ row[job[w]].status # "ABSENT"
             /\ loaded[w].job \in Rows
  BY <1>w, <1>r, LoadTypes DEF Existence, BusyHasJob, JobsExist, TypeOK, WorkerTypeOK
<1>u. CASE UNCHANGED row BY <1>u
<1>1. CASE Recover(w)
  BY <1>1 DEF Recover, Salvaged
<1>2. CASE Claim(w)
  <2>1. pc[w] \in BusyPoints BY <1>2, PointNames DEF Claim
  <2>2. job[w] \in Jobs /\ ~Locked(job[w]) BY <1>2, <2>1, <1>w DEF Claim
  <2>3. CASE row[job[w]].status = "QUEUED" /\ row[job[w]].cancel_requested
             /\ row' = [row EXCEPT ![job[w]] = Ended(@, "CANCELLED")]
    <3>1. CASE j = job[w]
      <4>1. row'[j] = Ended(row[j], "CANCELLED") BY <2>3, <3>1, <1>r
      <4>2. QED BY <1>2, <2>2, <2>3, <3>1, <4>1 DEF Taken
    <3>2. QED BY <2>2, <2>3, <3>1, <1>a
  <2>4. CASE row[job[w]].status = "QUEUED" /\ ~row[job[w]].cancel_requested
             /\ row' = [row EXCEPT ![job[w]] = Started(@)]
    <3>1. CASE j = job[w]
      <4>1. row'[j] = Started(row[j]) BY <2>4, <3>1, <1>r
      <4>2. QED BY <1>2, <2>2, <2>4, <3>1, <4>1 DEF Taken
    <3>2. QED BY <2>2, <2>4, <3>1, <1>a
  <2>5. QED BY <1>2, <2>3, <2>4, <1>u DEF Claim, Claimable
<1>3. CASE ProgressCommit(w)
  <2>1. pc[w] \in BusyPoints BY <1>3, PointNames DEF ProgressCommit, At
  <2>2. job[w] \in Jobs BY <2>1, <1>w
  <2> DEFINE new == Beaten(Flush(row[job[w]], loaded[w].job, Progressed(loaded[w].job, done[w])))
  <2>3. row' = [row EXCEPT ![job[w]] = new] /\ ~Locked(job[w]) BY <1>3 DEF ProgressCommit
  <2>4. CASE j = job[w]
    <3>1. row'[j] = new BY <2>3, <2>4, <1>r
    <3>2. QED BY <1>3, <2>3, <2>4, <3>1 DEF Advanced
  <2>5. CASE j # job[w]
    <3> HIDE DEF new
    <3>1. QED BY <2>2, <2>3, <2>5, <1>a
  <2>6. QED BY <2>4, <2>5
<1>4. ASSUME pc[w] \in BusyPoints, NEW new \in Rows, StoreOutcome(w, new), Outcome(w, job[w], new)
      PROVE  row'[j] = row[j] \/ Stored(w, j)
  <2>1. job[w] \in Jobs BY <1>4, <1>w
  <2> DEFINE f == Flush(row[job[w]], loaded[w].job, new)
  <2>2. row' = [row EXCEPT ![job[w]] = f] /\ ~Locked(job[w]) BY <1>4 DEF StoreOutcome
  <2>3. CASE j = job[w]
    <3>1. row'[j] = f BY <2>2, <2>3, <1>r
    <3>2. QED BY <1>4, <2>2, <2>3, <3>1 DEF Stored
  <2>4. CASE j # job[w]
    <3> HIDE DEF f
    <3>1. QED BY <2>1, <2>2, <2>4, <1>a
  <2>5. QED BY <2>3, <2>4
<1>5. CASE CompleteCommit(w) \/ CompleteAckLost(w)
  <2>1. pc[w] = "completeCommit" BY <1>5 DEF CompleteCommit, CompleteAckLost, Loop, At
  <2>2. pc[w] \in BusyPoints BY <2>1, PointNames
  <2>3. Finished(loaded[w].job, job[w]) \in Rows BY <2>2, <1>w, RowTypes
  <2>4. StoreOutcome(w, Finished(loaded[w].job, job[w]))
    BY <1>5 DEF CompleteCommit, CompleteAckLost
  <2>5. Outcome(w, job[w], Finished(loaded[w].job, job[w])) BY <2>1 DEF Outcome
  <2>6. QED BY <2>2, <2>3, <2>4, <2>5, <1>4
<1>6. CASE CancelCommit(w)
  <2>1. pc[w] = "cancelCommit" BY <1>6 DEF CancelCommit, Loop, At
  <2>2. pc[w] \in BusyPoints BY <2>1, PointNames
  <2> DEFINE l == loaded[w].job
             new == IF l.status = "RUNNING" THEN Stopped(l) ELSE l
  <2>3. new \in Rows BY <2>2, <1>w, RowTypes
  <2>4. StoreOutcome(w, new) BY <1>6 DEF CancelCommit
  <2>5. Outcome(w, job[w], new) BY <2>1 DEF Outcome
  <2> HIDE DEF new
  <2>6. QED BY <2>2, <2>3, <2>4, <2>5, <1>4
<1>7. CASE FailCommit(w)
  <2>1. pc[w] = "failCommit" BY <1>7 DEF FailCommit, Loop, At
  <2>2. pc[w] \in BusyPoints BY <2>1, PointNames
  <2> DEFINE l == loaded[w].job
  <2>3. /\ Ended(l, "CANCELLED") \in Rows /\ Ended(l, "FAILED") \in Rows
        /\ GivenBack(l) \in Rows
    BY <2>2, <1>w, RowTypes, StatusNames
  <2>4. \/ l.cancel_requested /\ StoreOutcome(w, Ended(l, "CANCELLED"))
        \/ /\ ~l.cancel_requested /\ l.attempt_count < MaxAttempts
           /\ StoreOutcome(w, GivenBack(l))
        \/ /\ ~l.cancel_requested /\ l.attempt_count >= MaxAttempts
           /\ StoreOutcome(w, Ended(l, "FAILED"))
    BY <1>7 DEF FailCommit
  <2>5. CASE l.cancel_requested /\ StoreOutcome(w, Ended(l, "CANCELLED"))
    <3>1. Outcome(w, job[w], Ended(l, "CANCELLED")) BY <2>1, <2>5 DEF Outcome
    <3>2. QED BY <2>2, <2>3, <2>5, <3>1, <1>4
  <2>6. CASE /\ ~l.cancel_requested /\ l.attempt_count < MaxAttempts
             /\ StoreOutcome(w, GivenBack(l))
    <3>1. Outcome(w, job[w], GivenBack(l)) BY <2>1, <2>6 DEF Outcome
    <3>2. QED BY <2>2, <2>3, <2>6, <3>1, <1>4
  <2>7. CASE /\ ~l.cancel_requested /\ l.attempt_count >= MaxAttempts
             /\ StoreOutcome(w, Ended(l, "FAILED"))
    <3>1. Outcome(w, job[w], Ended(l, "FAILED")) BY <2>1, <2>7 DEF Outcome
    <3>2. QED BY <2>2, <2>3, <2>7, <3>1, <1>4
  <2>8. QED BY <2>4, <2>5, <2>6, <2>7
<1>8. CASE MarkCommit(w)
  <2>1. pc[w] = "markCommit" /\ pc[w] \in BusyPoints BY <1>8, PointNames DEF MarkCommit, Loop, At
  <2>2. job[w] \in Jobs /\ row[job[w]].status # "ABSENT" BY <2>1, <1>w
  <2>3. row' = [row EXCEPT ![job[w]] = Dispatched(@)] /\ ~Locked(job[w]) BY <1>8 DEF MarkCommit
  <2>4. CASE j = job[w]
    <3>1. row'[j] = Dispatched(row[j]) BY <2>3, <2>4, <1>r
    <3>2. QED BY <2>1, <2>2, <2>3, <2>4, <3>1 DEF Marked
  <2>5. QED BY <2>2, <2>3, <2>4, <1>a
<1>9. QED
  BY <1>u, <1>1, <1>2, <1>3, <1>5, <1>6, <1>7, <1>8
     DEF WorkerStep, Progresses, Scan, Receive, ReceiveNothing, Poll, Case, Progress,
         Import, Complete, CancelRun, Fail, LoadOutcome, Wake, Requeue, Mark, Raise,
         Crash, Restart, tableVars

\* A step of anybody does one of these to a row.
LEMMA RowSteps ==
    ASSUME Existence, [Next]_vars, NEW j \in Jobs
    PROVE  \/ row'[j] = row[j]
           \/ UNCHANGED workerVars /\ UNCHANGED <<assigned, held>>
              /\ (Created(j) \/ Marked(j) \/ Asked(j) \/ Expired(j))
           \/ \E w \in Workers : WorkerStep(w) /\ ByWorker(w, j)
<1>r. row \in [Jobs -> Rows] BY DEF Existence, TypeOK, TableTypeOK
<1>u. CASE UNCHANGED row BY <1>u
<1>a. ASSUME NEW k \in Jobs, NEW new, row' = [row EXCEPT ![k] = new], j # k
      PROVE  row'[j] = row[j]
  BY <1>a, <1>r
<1>1. ASSUME NEW r \in Requests, Insert(r), row[KeyOf[r]].status = "ABSENT"
      PROVE  row'[j] = row[j] \/ (Created(j) /\ UNCHANGED <<assigned, held>>)
  <2>1. KeyOf[r] \in Jobs /\ BodyOf[r] \in Bodies /\ newest + 1 \in Nat
    BY JobApiAssumption DEF Existence, TypeOK, TableTypeOK
  <2>2. row' = [row EXCEPT ![KeyOf[r]] = NewRow(BodyOf[r], newest + 1)]
    BY <1>1 DEF Insert
  <2>3. CASE j = KeyOf[r]
    <3>1. row'[j] = NewRow(BodyOf[r], newest + 1) BY <2>2, <2>3, <1>r
    <3>2. QED BY <1>1, <2>1, <2>3, <3>1 DEF Created, Insert
  <2>4. QED BY <2>1, <2>2, <2>3, <1>a
<1>2. ASSUME NEW r \in Requests, MarkDispatched(r)
      PROVE  row'[j] = row[j] \/ (Marked(j) /\ UNCHANGED <<assigned, held>>)
  <2>1. KeyOf[r] \in Jobs BY JobApiAssumption
  <2>2. row' = [row EXCEPT ![KeyOf[r]] = Dispatched(@)] /\ ~Locked(KeyOf[r])
        /\ UNCHANGED <<assigned, held>>
    BY <1>2 DEF MarkDispatched
  <2>3. CASE j = KeyOf[r]
    <3>1. row'[j] = Dispatched(row[j]) BY <2>2, <2>3, <1>r
    <3>2. row[j].status # "ABSENT"
      BY <1>2, <2>3 DEF MarkDispatched, Goto, Existence, JobsExist, AcceptedMatchesRow
    <3>3. QED BY <2>2, <2>3, <3>1, <3>2 DEF Marked
  <2>4. QED BY <2>1, <2>2, <2>3, <1>a
<1>3. ASSUME NEW k \in Jobs, Cancel(k)
      PROVE  row'[j] = row[j] \/ (Asked(j) /\ UNCHANGED <<assigned, held>>)
  <2>1. CASE j = k
    <3>1. row'[j] = CancelledByUser(row[j]) BY <1>3, <2>1, <1>r DEF Cancel
    <3>2. QED BY <1>3, <2>1, <3>1 DEF Asked, Cancel
  <2>2. QED BY <1>3, <2>1, <1>a DEF Cancel
<1>4. ASSUME NEW k \in Jobs, HeartbeatExpires(k)
      PROVE  row'[j] = row[j]
             \/ (Expired(j) /\ UNCHANGED workerVars /\ UNCHANGED <<assigned, held>>)
  <2>1. CASE j = k
    <3>1. row'[j] = Missed(row[j]) BY <1>4, <2>1, <1>r DEF HeartbeatExpires
    <3>2. QED BY <1>4, <2>1, <3>1 DEF Expired, HeartbeatExpires
  <2>2. QED BY <1>4, <2>1, <1>a DEF HeartbeatExpires
<1>5. ASSUME NEW w \in Workers, WorkerStep(w)
      PROVE  row'[j] = row[j] \/ ByWorker(w, j)
  BY <1>5, RowsOfWorker
<1>6. ASSUME NEW r \in Requests, PostStep(r), UNCHANGED workerVars
      PROVE  \/ row'[j] = row[j]
             \/ (Created(j) \/ Marked(j)) /\ UNCHANGED <<assigned, held>>
  BY <1>u, <1>1, <1>2, <1>6
     DEF PostStep, Post, Lookup, Insert, Enqueue, ApiCrash, tableVars
<1>7. QED
  BY <1>u, <1>3, <1>4, <1>5, <1>6
     DEF Next, ApiNext, WorkerNext, LoseNotifications, vars, tableVars
-----------------------------------------------------------------------------
(* In the timely regime the row is what its executor loaded *)

\* What a job's executor makes of its row.
Ran(j, r, n) ==
    /\ n.attempt_count = r.attempt_count
    /\ n.heartbeat_fresh = r.heartbeat_fresh
    /\ \/ /\ n.status = "RUNNING" /\ n.run = r.run
          /\ n.cancel_requested = r.cancel_requested
          /\ n.completed_case_count \in r.completed_case_count..NumCases
       \/ /\ n.status = (IF RunOf[j] \in CleanRuns THEN "COMPLETED" ELSE "COMPLETED_WITH_ERRORS")
          /\ n.run = RunOf[j] /\ n.completed_case_count = NumCases
          /\ n.cancel_requested = r.cancel_requested
       \/ /\ n.run = r.run /\ n.completed_case_count = r.completed_case_count
          /\ n.cancel_requested = r.cancel_requested
          /\ \/ n.status = "CANCELLED" /\ r.cancel_requested
             \/ n.status = "QUEUED" /\ r.attempt_count < MaxAttempts
             \/ n.status = "FAILED" /\ r.attempt_count >= MaxAttempts

\* A progress write moves the row of a live executor on, and nothing else.
LEMMA AdvancedRuns ==
    ASSUME Discipline, NEW w \in Workers, NEW j \in Jobs, Advanced(w, j)
    PROVE  /\ Executing(w, j) /\ row[j].status = "RUNNING"
           /\ Ran(j, row[j], row'[j]) /\ row'[j].status = "RUNNING"
<1> DEFINE r == row[j]
           l == loaded[w].job
           p == Progressed(l, done[w])
           f == Flush(r, l, p)
<1>1. pc[w] = "progressCommit" BY DEF Advanced, ProgressCommit, At
<1>2. pc[w] \in ExecutingPoints /\ pc[w] \in CommitPoints
  BY <1>1 DEF ExecutingPoints, CommitPoints
<1>3. job[w] = j BY DEF Advanced
<1>4. Executing(w, j) BY <1>2, <1>3 DEF Executing
<1>5. r.status = "RUNNING" /\ r.heartbeat_fresh
  BY <1>2, <1>3 DEF Discipline, ExecutorOwnsRow
<1>6. /\ l.status = r.status /\ l.completed_case_count = r.completed_case_count /\ l.run = r.run
  BY <1>2, <1>3 DEF Discipline, ExecutorOwnsRow
<1>7. r \in Rows /\ l \in Rows /\ done[w] \in 0..NumCases
  BY LoadTypes DEF Discipline, Existence, TypeOK, TableTypeOK, WorkerTypeOK
<1>8. p \in Rows BY <1>7, RowTypes
<1>9. /\ p.status = l.status /\ p.run = l.run /\ p.cancel_requested = l.cancel_requested
      /\ p.completed_case_count = AtLeast(l.completed_case_count, done[w])
  BY <1>7 DEF Progressed, Rows
<1>10. row'[j] = Beaten(f) BY DEF Advanced
<1> HIDE DEF p
<1>11. /\ f.status = r.status /\ f.run = r.run /\ f.cancel_requested = r.cancel_requested
       /\ f.attempt_count = r.attempt_count
       /\ f.completed_case_count = IF p.completed_case_count = l.completed_case_count
                                   THEN r.completed_case_count ELSE p.completed_case_count
  BY <1>6, <1>7, <1>8, <1>9, FlushFields
<1>12. f \in Rows BY <1>7, <1>8, FlushType
<1>13. r.completed_case_count \in 0..NumCases BY <1>7 DEF Rows
<1>14. f.completed_case_count \in r.completed_case_count..NumCases
  BY <1>6, <1>7, <1>9, <1>11, <1>13, JobTableAssumption DEF AtLeast
<1> HIDE DEF f
<1>15. /\ Beaten(f).status = f.status /\ Beaten(f).run = f.run
       /\ Beaten(f).cancel_requested = f.cancel_requested
       /\ Beaten(f).attempt_count = f.attempt_count
       /\ Beaten(f).completed_case_count = f.completed_case_count
       /\ Beaten(f).heartbeat_fresh
  BY <1>12 DEF Beaten, Rows
<1>16. r.heartbeat_fresh = TRUE /\ Beaten(f).heartbeat_fresh = TRUE
  BY <1>5, <1>7, <1>12 DEF Beaten, Rows
<1>17. QED BY <1>4, <1>5, <1>10, <1>11, <1>14, <1>15, <1>16 DEF Ran

\* An outcome ends the attempt of a live executor, as the row stands.
LEMMA StoredRuns ==
    ASSUME Discipline, NEW w \in Workers, NEW j \in Jobs, Stored(w, j)
    PROVE  /\ Executing(w, j) /\ row[j].status = "RUNNING"
           /\ Ran(j, row[j], row'[j]) /\ row'[j].status # "RUNNING"
<1> DEFINE r == row[j]
           l == loaded[w].job
<1>1. PICK new \in Rows : Outcome(w, j, new) /\ row'[j] = Flush(r, l, new)
  BY DEF Stored
<1>2. pc[w] \in ExecutingPoints /\ pc[w] \in CommitPoints
  BY <1>1 DEF ExecutingPoints, CommitPoints, Outcome
<1>3. job[w] = j BY DEF Stored
<1>4. Executing(w, j) BY <1>2, <1>3 DEF Executing
<1>5. r.status = "RUNNING" BY <1>2, <1>3 DEF Discipline, ExecutorOwnsRow
<1>6. /\ l.status = r.status /\ l.completed_case_count = r.completed_case_count /\ l.run = r.run
      /\ l.attempt_count = r.attempt_count /\ (l.cancel_requested => r.cancel_requested)
  BY <1>2, <1>3 DEF Discipline, ExecutorOwnsRow
<1>7. r \in Rows /\ l \in Rows
  BY LoadTypes DEF Discipline, Existence, TypeOK, TableTypeOK, WorkerTypeOK
<1> DEFINE f == Flush(r, l, new)
<1>8. /\ f.status = IF new.status = l.status THEN r.status ELSE new.status
      /\ f.cancel_requested = IF new.cancel_requested = l.cancel_requested
                              THEN r.cancel_requested ELSE new.cancel_requested
      /\ f.completed_case_count = IF new.completed_case_count = l.completed_case_count
                                  THEN r.completed_case_count ELSE new.completed_case_count
      /\ f.run = IF new.run = l.run THEN r.run ELSE new.run
      /\ f.attempt_count = r.attempt_count /\ f.heartbeat_fresh = r.heartbeat_fresh
  BY <1>1, <1>7, FlushFields
<1> HIDE DEF f
<1>9. CASE new = Finished(l, j)
  <2>1. /\ new.run = RunOf[j] /\ new.completed_case_count = NumCases
        /\ new.status = (IF RunOf[j] \in CleanRuns THEN "COMPLETED" ELSE "COMPLETED_WITH_ERRORS")
        /\ new.cancel_requested = l.cancel_requested
    BY <1>7, <1>9 DEF Finished, Rows
  <2>2. new.status # l.status BY <2>1, <1>5, <1>6
  <2>3. Ran(j, r, f) /\ f.status # "RUNNING" BY <2>1, <2>2, <1>5, <1>6, <1>8 DEF Ran
  <2>4. QED BY <2>3, <1>1, <1>4, <1>5 DEF f
<1>10. ASSUME NEW s \in {"CANCELLED", "QUEUED", "FAILED"},
              new.status = s, new.run = l.run, new.cancel_requested = l.cancel_requested,
              new.completed_case_count = l.completed_case_count,
              s = "CANCELLED" => r.cancel_requested,
              s = "QUEUED" => r.attempt_count < MaxAttempts,
              s = "FAILED" => r.attempt_count >= MaxAttempts
       PROVE  Ran(j, r, row'[j]) /\ row'[j].status # "RUNNING"
  <2>1. new.status # l.status BY <1>5, <1>6, <1>10
  <2>2. /\ f.status = s /\ f.run = r.run /\ f.cancel_requested = r.cancel_requested
        /\ f.completed_case_count = r.completed_case_count
    BY <2>1, <1>6, <1>8, <1>10
  <2>3. Ran(j, r, f) /\ f.status # "RUNNING" BY <2>2, <1>8, <1>10 DEF Ran
  <2>4. QED BY <2>3, <1>1 DEF f
<1>11. ASSUME NEW s \in Statuses
       PROVE  /\ Ended(l, s).status = s /\ Ended(l, s).run = l.run
              /\ Ended(l, s).cancel_requested = l.cancel_requested
              /\ Ended(l, s).completed_case_count = l.completed_case_count
  BY <1>7 DEF Ended, Rows
<1>12. CASE pc[w] = "cancelCommit" /\ new = IF l.status = "RUNNING" THEN Stopped(l) ELSE l
  <2>1. l.cancel_requested = TRUE
    BY <1>7, <1>12 DEF Discipline, ExecutorOwnsRow, Rows
  <2>2. new = Stopped(l) BY <1>5, <1>6, <1>12
  <2>3. /\ new.status = "CANCELLED" /\ new.run = l.run
        /\ new.cancel_requested = l.cancel_requested
        /\ new.completed_case_count = l.completed_case_count
    BY <2>1, <2>2, <1>7 DEF Stopped, Rows
  <2>4. r.cancel_requested BY <2>1, <1>6
  <2>5. QED BY <2>3, <2>4, <1>4, <1>5, <1>10
<1>13. CASE l.cancel_requested /\ new = Ended(l, "CANCELLED")
  BY <1>4, <1>5, <1>6, <1>10, <1>11, <1>13, StatusNames
<1>14. CASE l.attempt_count < MaxAttempts /\ new = GivenBack(l)
  <2>1. /\ new.status = "QUEUED" /\ new.run = l.run
        /\ new.cancel_requested = l.cancel_requested
        /\ new.completed_case_count = l.completed_case_count
    BY <1>7, <1>14 DEF GivenBack, Rows
  <2>2. QED BY <2>1, <1>4, <1>5, <1>6, <1>10, <1>14
<1>15. CASE l.attempt_count >= MaxAttempts /\ new = Ended(l, "FAILED")
  BY <1>4, <1>5, <1>6, <1>10, <1>11, <1>15, StatusNames
<1>16. QED BY <1>1, <1>9, <1>12, <1>13, <1>14, <1>15 DEF Outcome

-----------------------------------------------------------------------------
(* Each step on a row is a step of the job's lifecycle *)

\* The steps on a row, once Discipline holds.
Steps(j) == \/ row'[j] = row[j]
            \/ Created(j) \/ Marked(j) \/ Asked(j) \/ Expired(j)
            \/ \E w \in Workers : /\ WorkerStep(w)
                                  /\ \/ Salvaged(w, j) \/ Taken(w, j)
                                     \/ /\ Executing(w, j) /\ row[j].status = "RUNNING"
                                        /\ Ran(j, row[j], row'[j])

\* Every step does one of these to a row.
LEMMA AllSteps ==
    ASSUME Discipline, [Next]_vars, NEW j \in Jobs
    PROVE  Steps(j)
<1>1. Existence BY DEF Discipline
<1>2. ASSUME NEW w \in Workers, WorkerStep(w), ByWorker(w, j)
      PROVE  Steps(j)
  BY <1>2, AdvancedRuns, StoredRuns DEF ByWorker, Steps
<1>3. QED BY <1>1, <1>2, RowSteps DEF Steps

\* What Discipline says of one row.
Bounded(r) == /\ r.attempt_count <= MaxAttempts
              /\ r.status = "QUEUED" => r.attempt_count < MaxAttempts
              /\ r.run # NoRun <=> r.status \in Completed
              /\ r.status \in Completed => r.completed_case_count = NumCases

\* Discipline bounds every row.
LEMMA AllBounded ==
    ASSUME Discipline, NEW j \in Jobs
    PROVE  row[j] \in Rows /\ Bounded(row[j])
BY DEF Discipline, Existence, TypeOK, TableTypeOK, BudgetLeft, AttemptsBounded, ResultExact,
       Bounded

LifeStep(j) == Lifecycle(j)!Next \/ UNCHANGED Lifecycle(j)!vars

\* What an executor makes of its row is a step of the lifecycle.
LEMMA RanIsLife ==
    ASSUME NEW j \in Jobs, row[j] \in Rows, row'[j] \in Rows, Bounded(row[j]),
           row[j].status = "RUNNING", Ran(j, row[j], row'[j])
    PROVE  LifeStep(j) /\ Bounded(row'[j])
<1> DEFINE r == row[j]
           n == row'[j]
<1>0. /\ r.attempt_count \in Nat /\ r.completed_case_count \in 0..NumCases
      /\ n.completed_case_count \in 0..NumCases
      /\ r.run = NoRun /\ RunOf[j] # NoRun /\ n.attempt_count = r.attempt_count
      /\ MaxAttempts \in Nat /\ NumCases \in Nat
  BY JobTableAssumption DEF Rows, Bounded, Completed, Ran
<1>1. CASE /\ n.status = "RUNNING" /\ n.run = r.run
           /\ n.cancel_requested = r.cancel_requested
           /\ n.completed_case_count \in r.completed_case_count..NumCases
  <2>1. Bounded(n) BY <1>0, <1>1 DEF Bounded, Completed
  <2>2. CASE n.completed_case_count = r.completed_case_count
    BY <1>0, <1>1, <2>1, <2>2 DEF LifeStep, Lifecycle!vars
  <2>3. CASE n.completed_case_count # r.completed_case_count
    <3>1. n.completed_case_count \in (r.completed_case_count + 1)..NumCases
      BY <1>0, <1>1, <2>3
    <3>2. Lifecycle(j)!Advance BY <1>0, <1>1, <3>1 DEF Lifecycle!Advance
    <3>3. QED BY <2>1, <3>2 DEF LifeStep, Lifecycle!Next
  <2>4. QED BY <2>2, <2>3
<1>2. CASE /\ n.status = (IF RunOf[j] \in CleanRuns THEN "COMPLETED" ELSE "COMPLETED_WITH_ERRORS")
           /\ n.run = RunOf[j] /\ n.completed_case_count = NumCases
           /\ n.cancel_requested = r.cancel_requested
  <2>1. Bounded(n) BY <1>0, <1>2 DEF Bounded, Completed
  <2>2. Lifecycle(j)!Finish BY <1>0, <1>2 DEF Lifecycle!Finish
  <2>3. QED BY <2>1, <2>2 DEF LifeStep, Lifecycle!Next
<1>3. CASE /\ n.run = r.run /\ n.completed_case_count = r.completed_case_count
           /\ n.cancel_requested = r.cancel_requested
           /\ n.status = "CANCELLED" /\ r.cancel_requested
  <2>1. Bounded(n) BY <1>0, <1>3 DEF Bounded, Completed
  <2>2. Lifecycle(j)!Stop BY <1>0, <1>3 DEF Lifecycle!Stop
  <2>3. QED BY <2>1, <2>2 DEF LifeStep, Lifecycle!Next
<1>4. CASE /\ n.run = r.run /\ n.completed_case_count = r.completed_case_count
           /\ n.cancel_requested = r.cancel_requested
           /\ n.status = "QUEUED" /\ r.attempt_count < MaxAttempts
  <2>1. Bounded(n) BY <1>0, <1>4 DEF Bounded, Completed
  <2>2. Lifecycle(j)!GiveBack BY <1>0, <1>4 DEF Lifecycle!GiveBack
  <2>3. QED BY <2>1, <2>2 DEF LifeStep, Lifecycle!Next
<1>5. CASE /\ n.run = r.run /\ n.completed_case_count = r.completed_case_count
           /\ n.cancel_requested = r.cancel_requested
           /\ n.status = "FAILED" /\ r.attempt_count >= MaxAttempts
  <2>1. Bounded(n) BY <1>0, <1>5 DEF Bounded, Completed
  <2>2. r.attempt_count = MaxAttempts BY <1>0, <1>5 DEF Bounded
  <2>3. Lifecycle(j)!GiveUp BY <1>0, <1>5, <2>2 DEF Lifecycle!GiveUp
  <2>4. QED BY <2>1, <2>3 DEF LifeStep, Lifecycle!Next
<1>6. QED BY <1>1, <1>2, <1>3, <1>4, <1>5 DEF Ran

\* What recovery makes of a stale row is a step of the lifecycle.
LEMMA SalvagedIsLife ==
    ASSUME NEW j \in Jobs, row[j] \in Rows, Bounded(row[j]),
           row[j].status = "RUNNING", row'[j] = Recovered(row[j])
    PROVE  LifeStep(j) /\ Bounded(row'[j])
<1> DEFINE r == row[j]
           n == row'[j]
<1>0. r.attempt_count \in Nat /\ r.run = NoRun /\ MaxAttempts \in Nat
  BY JobTableAssumption DEF Rows, Bounded, Completed
<1>1. /\ n.status = IF r.cancel_requested THEN "CANCELLED"
                    ELSE IF r.attempt_count < MaxAttempts THEN "QUEUED" ELSE "FAILED"
      /\ n.run = r.run /\ n.completed_case_count = r.completed_case_count
      /\ n.cancel_requested = r.cancel_requested /\ n.attempt_count = r.attempt_count
  BY DEF Recovered, Ended, GivenBack, Rows
<1>2. Bounded(n) BY <1>0, <1>1 DEF Bounded, Completed
<1>3. CASE r.cancel_requested
  <2>1. Lifecycle(j)!Stop BY <1>1, <1>3 DEF Lifecycle!Stop
  <2>2. QED BY <2>1, <1>2 DEF LifeStep, Lifecycle!Next
<1>4. CASE ~r.cancel_requested /\ r.attempt_count < MaxAttempts
  <2>1. Lifecycle(j)!GiveBack BY <1>1, <1>4 DEF Lifecycle!GiveBack
  <2>2. QED BY <2>1, <1>2 DEF LifeStep, Lifecycle!Next
<1>5. CASE ~r.cancel_requested /\ ~(r.attempt_count < MaxAttempts)
  <2>1. r.attempt_count = MaxAttempts BY <1>0, <1>5 DEF Bounded
  <2>2. Lifecycle(j)!GiveUp BY <1>1, <1>5, <2>1 DEF Lifecycle!GiveUp
  <2>3. QED BY <2>2, <1>2 DEF LifeStep, Lifecycle!Next
<1>6. QED BY <1>3, <1>4, <1>5

\* A claim is a step of the lifecycle.
LEMMA TakenIsLife ==
    ASSUME NEW j \in Jobs, row[j] \in Rows, Bounded(row[j]), NEW w, Taken(w, j)
    PROVE  LifeStep(j) /\ Bounded(row'[j])
<1> DEFINE r == row[j]
           n == row'[j]
<1>0. r.attempt_count \in Nat /\ r.run = NoRun /\ r.status = "QUEUED" /\ MaxAttempts \in Nat
      /\ r.attempt_count < MaxAttempts
  BY JobTableAssumption DEF Rows, Bounded, Completed, Taken
<1>1. CASE ~r.cancel_requested /\ n = Started(r)
  <2>1. /\ n.status = "RUNNING" /\ n.attempt_count = r.attempt_count + 1
        /\ n.run = r.run /\ n.completed_case_count = r.completed_case_count
        /\ n.cancel_requested = r.cancel_requested
    BY <1>1 DEF Started, Rows
  <2>2. Bounded(n) BY <1>0, <2>1 DEF Bounded, Completed
  <2>3. Lifecycle(j)!Start BY <1>0, <1>1, <2>1 DEF Lifecycle!Start
  <2>4. QED BY <2>2, <2>3 DEF LifeStep, Lifecycle!Next
<1>2. CASE r.cancel_requested /\ n = Ended(r, "CANCELLED")
  <2>1. /\ n.status = "CANCELLED" /\ n.attempt_count = r.attempt_count
        /\ n.run = r.run /\ n.completed_case_count = r.completed_case_count
        /\ n.cancel_requested = r.cancel_requested
    BY <1>2 DEF Ended, Rows
  <2>2. Bounded(n) BY <1>0, <2>1 DEF Bounded, Completed
  <2>3. Lifecycle(j)!Stop BY <1>0, <1>2, <2>1 DEF Lifecycle!Stop
  <2>4. QED BY <2>2, <2>3 DEF LifeStep, Lifecycle!Next
<1>3. QED BY <1>1, <1>2 DEF Taken

\* What the API does to a row is a step of the lifecycle or none of its business.
LEMMA ApiIsLife ==
    ASSUME Existence, NEW j \in Jobs, Bounded(row[j]),
           Created(j) \/ Marked(j) \/ Asked(j) \/ Expired(j)
    PROVE  LifeStep(j) /\ Bounded(row'[j])
<1> DEFINE r == row[j]
           n == row'[j]
<1>r. r \in Rows BY DEF Existence, TypeOK, TableTypeOK
<1>1. CASE Created(j)
  <2>1. r = NoRow BY <1>1 DEF Created, Existence, JobsExist
  <2>2. PICK b \in Bodies, k \in Nat : n = NewRow(b, k) BY <1>1 DEF Created
  <2>3. /\ n.status = "QUEUED" /\ n.attempt_count = 0 /\ n.run = NoRun
        /\ n.completed_case_count = 0 /\ n.cancel_requested = FALSE
    BY <2>2 DEF NewRow, NoRow
  <2>4. /\ r.status = "ABSENT" /\ r.attempt_count = 0 /\ r.run = NoRun
        /\ r.completed_case_count = 0 /\ r.cancel_requested = FALSE
    BY <2>1 DEF NoRow
  <2>5. Bounded(n) BY <2>3, JobTableAssumption DEF Bounded, Completed
  <2>6. Lifecycle(j)!Submit BY <2>3, <2>4 DEF Lifecycle!Submit
  <2>7. QED BY <2>5, <2>6 DEF LifeStep, Lifecycle!Next
<1>2. CASE Marked(j) \/ Expired(j)
  <2>1. /\ n.status = r.status /\ n.attempt_count = r.attempt_count /\ n.run = r.run
        /\ n.completed_case_count = r.completed_case_count
        /\ n.cancel_requested = r.cancel_requested
    BY <1>r, <1>2 DEF Marked, Expired, Dispatched, Missed, Rows
  <2>2. QED BY <2>1 DEF LifeStep, Lifecycle!vars, Bounded
<1>3. CASE Asked(j)
  <2>1. /\ n.status = IF r.status = "QUEUED" THEN "CANCELLED" ELSE r.status
        /\ n.attempt_count = r.attempt_count /\ n.run = r.run
        /\ n.completed_case_count = r.completed_case_count /\ n.cancel_requested = TRUE
    BY <1>r, <1>3 DEF Asked, CancelledByUser, Rows
  <2>2. r.status \in {"QUEUED", "RUNNING"} BY <1>3 DEF Asked
  <2>3. Bounded(n) BY <2>1, <2>2 DEF Bounded, Completed
  <2>4. Lifecycle(j)!Cancel BY <2>1, <2>2 DEF Lifecycle!Cancel
  <2>5. QED BY <2>3, <2>4 DEF LifeStep, Lifecycle!Next
<1>4. QED BY <1>1, <1>2, <1>3

\* Every step is a step of the lifecycle of each job, and keeps its bounds.
LEMMA AllStepsAreLife ==
    ASSUME Discipline, [Next]_vars, NEW j \in Jobs
    PROVE  LifeStep(j) /\ Bounded(row'[j])
<1>1. Existence /\ Existence' BY ExistenceStep DEF Discipline
<1>2. row[j] \in Rows /\ row'[j] \in Rows BY <1>1 DEF Existence, TypeOK, TableTypeOK
<1>3. Bounded(row[j]) BY AllBounded
<1>4. CASE row'[j] = row[j]
  BY <1>3, <1>4 DEF LifeStep, Lifecycle!vars
<1>5. ASSUME NEW w \in Workers, Salvaged(w, j)
      PROVE  LifeStep(j) /\ Bounded(row'[j])
  <2>1. row[j].status = "RUNNING" /\ row'[j] = Recovered(row[j])
    BY <1>5 DEF Salvaged, Discipline, LocksAreStale, Stale
  <2>2. QED BY <2>1, <1>2, <1>3, SalvagedIsLife
<1>6. QED BY <1>1, <1>2, <1>3, <1>4, <1>5, AllSteps, ApiIsLife, TakenIsLife, RanIsLife DEF Steps

-----------------------------------------------------------------------------
(* Rows that somebody executes or has locked *)

\* What others leave of the row of an executor.
Owned(r, n) == /\ n.status = r.status /\ n.attempt_count = r.attempt_count
               /\ n.completed_case_count = r.completed_case_count /\ n.run = r.run
               /\ n.heartbeat_fresh = r.heartbeat_fresh
               /\ r.cancel_requested => n.cancel_requested

\* In the timely regime only the executor of a job changes its row, but for
\* the cancellation flag.
LEMMA OthersKeep ==
    ASSUME Discipline, Timely, [Next]_vars, NEW u \in Workers, NEW j \in Jobs,
           Executing(u, j), ~WorkerStep(u)
    PROVE  Owned(row[j], row'[j])
<1>1. row[j].status = "RUNNING" /\ row[j].heartbeat_fresh /\ row[j] \in Rows
  BY DEF Executing, Discipline, ExecutorOwnsRow, Existence, TypeOK, TableTypeOK
<1>2. CASE row'[j] = row[j] BY <1>2 DEF Owned
<1>3. CASE Created(j) BY <1>1, <1>3 DEF Created
<1>4. CASE Marked(j) BY <1>1, <1>4 DEF Marked, Dispatched, Owned, Rows
<1>5. CASE Asked(j) BY <1>1, <1>5 DEF Asked, CancelledByUser, Owned, Rows
<1>6. CASE Expired(j) BY <1>6 DEF Expired, Timely
<1>7. ASSUME NEW w \in Workers, WorkerStep(w), Salvaged(w, j)
      PROVE  FALSE
  BY <1>1, <1>7 DEF Salvaged, Discipline, LocksAreStale, Stale
<1>8. ASSUME NEW w \in Workers, WorkerStep(w), Taken(w, j)
      PROVE  FALSE
  BY <1>1, <1>8 DEF Taken
<1>9. ASSUME NEW w \in Workers, WorkerStep(w), Executing(w, j)
      PROVE  FALSE
  BY <1>9 DEF Discipline, ExecutorOwnsRow, SingleExecutor
<1>10. QED BY <1>2, <1>3, <1>4, <1>5, <1>6, <1>7, <1>8, <1>9, AllSteps DEF Steps

\* In the timely regime a locked row stays as it is until its recovery.
LEMMA LockedKeep ==
    ASSUME Discipline, Timely, [Next]_vars, NEW w \in Workers, NEW j \in held[w],
           ~Recover(w)
    PROVE  row'[j] = row[j]
<1>1. Stale(j) /\ j \in Jobs
  BY DEF Discipline, LocksAreStale, Existence, TypeOK, TableTypeOK
<1>2. row[j].status = "RUNNING" /\ ~row[j].heartbeat_fresh /\ Locked(j)
  BY <1>1 DEF Stale, Locked
<1>3. ~Created(j) /\ ~Marked(j) /\ ~Asked(j) /\ ~Expired(j)
  BY <1>2 DEF Created, Marked, Asked, Expired
<1>4. ASSUME NEW v \in Workers, Salvaged(v, j)
      PROVE  FALSE
  BY <1>4 DEF Salvaged, Discipline, LocksAreStale
<1>5. ASSUME NEW v \in Workers, Taken(v, j)
      PROVE  FALSE
  BY <1>2, <1>5 DEF Taken
<1>6. ASSUME NEW v \in Workers, Executing(v, j)
      PROVE  FALSE
  BY <1>2, <1>6 DEF Executing, Discipline, ExecutorOwnsRow
<1>7. QED BY <1>1, <1>3, <1>4, <1>5, <1>6, AllSteps DEF Steps

\* A claim that succeeds.
Starts(w) == /\ Claim(w) /\ job[w] \in Jobs
             /\ ~Locked(job[w]) /\ row[job[w]].status = "QUEUED"
             /\ row' = [row EXCEPT ![job[w]] = Started(@)]
             /\ assigned' = [assigned EXCEPT ![w] = job[w]]
             /\ pc'[w] = "case" /\ job'[w] = job[w]

\* How a worker gets to, or stays at, an executing point.
LEMMA ExecutionSteps ==
    ASSUME Existence, Timely, NEW w \in Workers, WorkerStep(w), pc'[w] \in ExecutingPoints
    PROVE  \/ Starts(w)
           \/ /\ pc[w] \in ExecutingPoints /\ job'[w] = job[w]
              /\ UNCHANGED <<row, assigned>>
              /\ pc'[w] = "cancel" => row[job[w]].cancel_requested
           \/ ProgressCommit(w) /\ job'[w] = job[w] /\ pc'[w] = "case"
<1> USE DEF ExecutingPoints
<1>t. pc \in [Workers -> WorkerPoints] /\ job \in [Workers -> Jobs \union {NoJob}]
  BY DEF Existence, TypeOK, WorkerTypeOK
<1>a. ASSUME NEW from, NEW to, At(w, from, to)
      PROVE  pc[w] = from /\ pc'[w] = to
  BY <1>a, <1>t DEF At
<1>1. CASE Scan(w) BY <1>1, <1>a DEF Scan
<1>2. CASE Recover(w) BY <1>2, <1>t DEF Recover
<1>3. CASE Receive(w) \/ ReceiveNothing(w) BY <1>3, <1>a DEF Receive, ReceiveNothing
<1>4. CASE Poll(w) BY <1>4, <1>a DEF Poll, Loop
<1>5. CASE Claim(w)
  <2>1. pc[w] = "claim" /\ ~Locked(job[w]) BY <1>5 DEF Claim
  <2>2. job[w] \in Jobs BY <2>1, PointNames DEF Existence, BusyHasJob
  <2>3. CASE Loop(w, "claim") BY <2>3, <1>a DEF Loop
  <2>4. CASE /\ row[job[w]].status = "QUEUED"
             /\ row' = [row EXCEPT ![job[w]] = Started(@)]
             /\ assigned' = [assigned EXCEPT ![w] = job[w]]
             /\ At(w, "claim", "case") /\ UNCHANGED job
    BY <1>5, <2>1, <2>2, <2>4, <1>a DEF Starts
  <2>5. QED BY <1>5, <2>3, <2>4 DEF Claim, Claimable
<1>6. CASE Case(w) BY <1>6, <1>a DEF Case, tableVars
<1>7. CASE Progress(w) BY <1>7, <1>a DEF Progress, tableVars
<1>8. CASE ProgressCommit(w)
  <2>1. At(w, "progressCommit", "case") /\ UNCHANGED job BY <1>8 DEF ProgressCommit
  <2>2. QED BY <2>1, <1>8, <1>a
<1>9. CASE Import(w) BY <1>9, <1>a DEF Import
<1>10. CASE Complete(w) \/ CancelRun(w) \/ Fail(w)
  BY <1>10, <1>a DEF Complete, CancelRun, Fail, LoadOutcome, tableVars
<1>11. CASE CompleteCommit(w) \/ CancelCommit(w)
  BY <1>11, <1>a DEF CompleteCommit, CancelCommit, Loop
<1>12. CASE FailCommit(w) BY <1>12, <1>a DEF FailCommit, Loop
<1>13. CASE Wake(w) \/ Requeue(w) \/ Mark(w) \/ MarkCommit(w)
  BY <1>13, <1>a DEF Wake, Requeue, Mark, MarkCommit, Loop
<1>14. CASE CompleteAckLost(w) BY <1>14 DEF CompleteAckLost, Timely
<1>15. CASE Raise(w) BY <1>15, <1>t DEF Raise, tableVars
<1>16. CASE Crash(w) BY <1>16, <1>t DEF Crash
<1>17. CASE Restart(w) BY <1>17, <1>a DEF Restart
<1>18. QED
  BY <1>1, <1>2, <1>3, <1>4, <1>5, <1>6, <1>7, <1>8, <1>9, <1>10, <1>11, <1>12, <1>13,
     <1>14, <1>15, <1>16, <1>17 DEF WorkerStep, Progresses

\* Whoever does not step stays where it is.
LEMMA OthersStay ==
    ASSUME Existence, [Next]_vars, NEW u \in Workers, ~WorkerStep(u)
    PROVE  /\ pc'[u] = pc[u] /\ job'[u] = job[u] /\ loaded'[u] = loaded[u]
           /\ held'[u] = held[u] /\ found'[u] = found[u]
<1>1. Typed BY DEF Existence, Typed
<1>2. CASE \E w \in Workers : WorkerStep(w) BY <1>1, <1>2, WorkerFrame
<1>3. CASE UNCHANGED workerVars /\ UNCHANGED held BY <1>3 DEF workerVars
<1>4. ASSUME NEW j, HeartbeatExpires(j) PROVE UNCHANGED workerVars /\ UNCHANGED held
  BY <1>4 DEF HeartbeatExpires
<1>5. CASE LoseNotifications BY <1>3, <1>5 DEF LoseNotifications
<1>6. ASSUME NEW r, PostStep(r) PROVE UNCHANGED held
  BY <1>6 DEF PostStep, Post, Lookup, Insert, Enqueue, MarkDispatched, ApiCrash, tableVars
<1>7. ASSUME NEW j, Cancel(j) PROVE UNCHANGED held
  BY <1>7 DEF Cancel
<1>8. QED BY <1>2, <1>3, <1>4, <1>5, <1>6, <1>7
         DEF Next, ApiNext, WorkerNext, vars, tableVars, workerVars

-----------------------------------------------------------------------------
(* Executors own their rows *)

\* Two workers never start at once.
LEMMA OneStarts ==
    ASSUME Existence, NEW v \in Workers, NEW w \in Workers, Starts(v), Starts(w)
    PROVE  v = w
<1>1. Typed /\ WorkerStep(v) BY DEF Existence, Typed, Starts, WorkerStep, Progresses
<1>2. pc[w] = "claim" /\ pc'[w] = "case" BY DEF Starts, Claim
<1>3. QED BY <1>1, <1>2, WorkerFrame

\* What ExecutorOwnsRow says of one worker.
OwnsNow(w) ==
    /\ pc[w] \in ExecutingPoints =>
           row[job[w]].status = "RUNNING" /\ row[job[w]].heartbeat_fresh
    /\ pc[w] \in CommitPoints =>
           LET r == row[job[w]]
               l == loaded[w].job
           IN  /\ l.status = r.status
               /\ l.attempt_count = r.attempt_count
               /\ l.completed_case_count = r.completed_case_count
               /\ l.run = r.run
               /\ l.cancel_requested => r.cancel_requested
    /\ pc[w] \in {"cancel", "cancelCommit"} => row[job[w]].cancel_requested
    /\ pc[w] = "cancelCommit" => loaded[w].job.cancel_requested

\* A progress write is one on the row of its executor.
LEMMA ProgressIsAdvance ==
    ASSUME Existence, NEW w \in Workers, ProgressCommit(w)
    PROVE  job[w] \in Jobs /\ Executing(w, job[w]) /\ Advanced(w, job[w])
<1>1. pc[w] = "progressCommit" BY DEF ProgressCommit, At
<1>2. job[w] \in Jobs BY <1>1, PointNames DEF Existence, BusyHasJob
<1>3. row \in [Jobs -> Rows] BY DEF Existence, TypeOK, TableTypeOK
<1> DEFINE f == Beaten(Flush(row[job[w]], loaded[w].job, Progressed(loaded[w].job, done[w])))
<1>4. row' = [row EXCEPT ![job[w]] = f] /\ ~Locked(job[w]) BY DEF ProgressCommit
<1>5. row'[job[w]] = f BY <1>2, <1>3, <1>4
<1>6. QED BY <1>1, <1>2, <1>4, <1>5 DEF Advanced, Executing, ExecutingPoints

\* A worker that executes after a step owns its row then, and executed the
\* same job before or has just started it.
LEMMA ExecutorNext ==
    ASSUME Discipline, Timely, [Next]_vars, NEW w \in Workers, pc'[w] \in ExecutingPoints
    PROVE  /\ job'[w] = job[w] /\ job[w] \in Jobs
           /\ Executing(w, job[w]) \/ Starts(w)
           /\ OwnsNow(w)'
<1> USE DEF CommitPoints, ExecutingPoints
<1>0. Existence /\ Typed BY DEF Discipline, Existence, Typed
<1>1. ASSUME pc[w] \in ExecutingPoints
      PROVE  /\ job[w] \in Jobs /\ Executing(w, job[w]) /\ OwnsNow(w)
  BY <1>0, <1>1, PointNames
     DEF Existence, BusyHasJob, Executing, Discipline, ExecutorOwnsRow, OwnsNow
<1>2. CASE ~WorkerStep(w)
  <2>1. pc'[w] = pc[w] /\ job'[w] = job[w] /\ loaded'[w] = loaded[w]
    BY <1>0, <1>2, OthersStay
  <2>2. job[w] \in Jobs /\ Executing(w, job[w]) /\ OwnsNow(w) BY <1>1, <2>1
  <2>3. Owned(row[job[w]], row'[job[w]]) BY <1>2, <2>2, OthersKeep
  <2>4. OwnsNow(w)' BY <2>1, <2>2, <2>3 DEF OwnsNow, Owned
  <2>5. QED BY <2>1, <2>2, <2>4
<1>3. CASE Starts(w)
  <2>1. job[w] \in Jobs /\ job'[w] = job[w] /\ pc'[w] = "case"
        /\ row' = [row EXCEPT ![job[w]] = Started(@)]
    BY <1>3 DEF Starts
  <2>2. row[job[w]] \in Rows /\ row'[job[w]] = Started(row[job[w]])
    BY <1>0, <2>1 DEF Existence, TypeOK, TableTypeOK
  <2>3. row'[job[w]].status = "RUNNING" /\ row'[job[w]].heartbeat_fresh
    BY <2>2 DEF Started, Rows
  <2>4. OwnsNow(w)' BY <2>1, <2>3 DEF OwnsNow
  <2>5. QED BY <1>3, <2>1, <2>4
<1>4. CASE /\ WorkerStep(w) /\ pc[w] \in ExecutingPoints /\ job'[w] = job[w]
           /\ UNCHANGED <<row, assigned>>
           /\ pc'[w] = "cancel" => row[job[w]].cancel_requested
  <2>1. OwnsNow(w) /\ job[w] \in Jobs /\ Executing(w, job[w]) BY <1>1, <1>4
  <2>2. CASE pc'[w] \in CommitPoints
    <3>1. /\ loaded'[w] = [job |-> row[job[w]], assigned |-> assigned[w]]
          /\ pc'[w] = "cancelCommit" => pc[w] = "cancel"
      BY <1>0, <1>4, <2>2, CommitEntry
    <3>2. loaded'[w].job = row[job[w]] BY <3>1
    <3>3. OwnsNow(w)' BY <1>4, <2>1, <3>1, <3>2 DEF OwnsNow
    <3>4. QED BY <1>4, <2>1, <3>3
  <2>3. CASE pc'[w] \notin CommitPoints
    <3>1. OwnsNow(w)' BY <1>4, <2>1, <2>3 DEF OwnsNow
    <3>2. QED BY <1>4, <2>1, <3>1
  <2>4. QED BY <2>2, <2>3
<1>5. CASE ProgressCommit(w) /\ job'[w] = job[w] /\ pc'[w] = "case"
  <2>1. job[w] \in Jobs /\ Executing(w, job[w]) /\ Advanced(w, job[w])
    BY <1>0, <1>5, ProgressIsAdvance
  <2>2. Ran(job[w], row[job[w]], row'[job[w]]) /\ row'[job[w]].status = "RUNNING"
    BY <2>1, AdvancedRuns
  <2>3. row[job[w]].heartbeat_fresh BY <2>1, <1>1 DEF Executing, OwnsNow
  <2>4. OwnsNow(w)' BY <1>5, <2>2, <2>3 DEF OwnsNow, Ran
  <2>5. QED BY <1>5, <2>1, <2>4
<1>6. QED BY <1>0, <1>2, <1>3, <1>4, <1>5, ExecutionSteps

\* Executors go on owning their rows, one executor to a job.
LEMMA OwnershipStep ==
    ASSUME Discipline, Timely, [Next]_vars
    PROVE  ExecutorOwnsRow'
<1>0. Existence BY DEF Discipline
<1>1. SingleExecutor'
  <2>1. SUFFICES ASSUME NEW v \in Workers, NEW w \in Workers, NEW j \in Jobs,
                        Executing(v, j)', Executing(w, j)'
                 PROVE  v = w
    BY DEF SingleExecutor
  <2>2. /\ job[v] = j /\ job[w] = j
        /\ Executing(v, j) \/ Starts(v)
        /\ Executing(w, j) \/ Starts(w)
    BY <2>1, ExecutorNext DEF Executing
  <2>3. Executing(v, j) \/ Executing(w, j) => row[j].status = "RUNNING"
    BY DEF Executing, Discipline, ExecutorOwnsRow
  <2>4. Starts(v) \/ Starts(w) => row[j].status = "QUEUED"
    BY <2>2 DEF Starts
  <2>5. CASE Starts(v) /\ Starts(w) BY <1>0, <2>5, OneStarts
  <2>6. CASE Executing(v, j) /\ Executing(w, j)
    BY <2>6 DEF Discipline, ExecutorOwnsRow, SingleExecutor
  <2>7. QED BY <2>2, <2>3, <2>4, <2>5, <2>6
<1>2. ASSUME NEW w \in Workers
      PROVE  OwnsNow(w)'
  <2>1. CASE pc'[w] \in ExecutingPoints BY <2>1, ExecutorNext
  <2>2. CASE pc'[w] \notin ExecutingPoints
    BY <2>2 DEF OwnsNow, ExecutingPoints, CommitPoints
  <2>3. QED BY <2>1, <2>2
<1>3. QED BY <1>1, <1>2 DEF ExecutorOwnsRow, OwnsNow

-----------------------------------------------------------------------------
(* Recovery's locks *)

\* A worker that steps holds locks afterwards only if it has just scanned.
LEMMA LockSteps ==
    ASSUME Discipline, NEW w \in Workers, WorkerStep(w), held'[w] # {}
    PROVE  /\ pc'[w] = "recover" /\ held'[w] = StaleRows /\ UNCHANGED <<row, assigned>>
           /\ FirstAssigned(found'[w], StaleRows)
<1>t. /\ pc \in [Workers -> WorkerPoints] /\ held \in [Workers -> SUBSET Jobs]
      /\ found \in [Workers -> SUBSET Workers]
  BY DEF Discipline, Existence, TypeOK, WorkerTypeOK, TableTypeOK
<1>k. pc[w] # "recover" => held[w] = {} BY DEF Discipline, LocksAreStale
<1>u. CASE UNCHANGED held /\ pc[w] # "recover" BY <1>u, <1>k
<1>1. CASE Scan(w)
  <2>1. CASE At(w, "scan", "receive") /\ UNCHANGED held BY <2>1, <1>u DEF At
  <2>2. CASE /\ At(w, "scan", "recover")
             /\ held' = [held EXCEPT ![w] = StaleRows]
             /\ \E vs \in SUBSET Workers : /\ FirstAssigned(vs, StaleRows)
                                           /\ found' = [found EXCEPT ![w] = vs]
    BY <1>1, <2>2, <1>t DEF At, Scan
  <2>3. QED BY <1>1, <2>1, <2>2 DEF Scan
<1>2. CASE Recover(w) \/ Crash(w) BY <1>2, <1>t DEF Recover, Crash
<1>3. CASE Receive(w) \/ ReceiveNothing(w) \/ Poll(w) \/ Claim(w) \/ Case(w) \/ Progress(w)
           \/ ProgressCommit(w)
  BY <1>3, <1>u DEF Receive, ReceiveNothing, Poll, Claim, Case, Progress, ProgressCommit,
                    At, Loop, tableVars
<1>4. CASE Import(w) \/ Complete(w) \/ CancelRun(w) \/ Fail(w)
  BY <1>4, <1>u DEF Import, Complete, CancelRun, Fail, LoadOutcome, At, tableVars
<1>5. CASE CompleteCommit(w) \/ CancelCommit(w) \/ FailCommit(w) \/ CompleteAckLost(w)
  BY <1>5, <1>u DEF CompleteCommit, CancelCommit, FailCommit, CompleteAckLost, StoreOutcome,
                    At, Loop
<1>6. CASE Wake(w) \/ Requeue(w) \/ Mark(w) \/ MarkCommit(w) \/ Raise(w) \/ Restart(w)
  BY <1>6, <1>u DEF Wake, Requeue, Mark, MarkCommit, Raise, Restart, At, Loop, tableVars
<1>7. QED BY <1>1, <1>2, <1>3, <1>4, <1>5, <1>6 DEF WorkerStep, Progresses

\* Locked rows stay stale, each locked for one worker.
LEMMA LocksStep ==
    ASSUME Discipline, Timely, [Next]_vars
    PROVE  LocksAreStale'
<1>0. Existence /\ Typed BY DEF Discipline, Existence, Typed
<1>t. held \in [Workers -> SUBSET Jobs] BY <1>0 DEF Existence, TypeOK, TableTypeOK
<1>1. ASSUME NEW w \in Workers, held'[w] # {}
      PROVE  pc'[w] = "recover"
  BY <1>0, <1>1, LockSteps, OthersStay DEF Discipline, LocksAreStale
<1>2. ASSUME NEW w \in Workers, NEW j \in held'[w]
      PROVE  Stale(j)'
  <2>1. CASE WorkerStep(w)
    BY <1>2, <2>1, LockSteps DEF StaleRows, Stale
  <2>2. CASE ~WorkerStep(w)
    <3>1. j \in held[w] /\ ~Recover(w)
      BY <1>0, <1>2, <2>2, OthersStay DEF WorkerStep, Progresses
    <3>2. row'[j] = row[j] /\ Stale(j)
      BY <3>1, LockedKeep DEF Discipline, LocksAreStale
    <3>3. QED BY <3>2 DEF Stale
  <2>3. QED BY <2>1, <2>2
<1>3. ASSUME NEW v \in Workers, NEW w \in Workers, NEW j \in held'[v], j \in held'[w], v # w,
             WorkerStep(v)
      PROVE  FALSE
  <2>1. held'[w] = held[w] BY <1>0, <1>3, WorkerFrame
  <2>2. j \in StaleRows BY <1>3, LockSteps
  <2>3. QED BY <1>3, <2>1, <2>2 DEF StaleRows, Locked
<1>4. ASSUME NEW v \in Workers, NEW w \in Workers, NEW j \in held'[v], j \in held'[w]
      PROVE  v = w
  <2>1. CASE WorkerStep(v) \/ WorkerStep(w) BY <1>3, <1>4, <2>1
  <2>2. CASE ~WorkerStep(v) /\ ~WorkerStep(w)
    <3>1. j \in held[v] /\ j \in held[w] BY <1>0, <1>4, <2>2, OthersStay
    <3>2. QED BY <3>1 DEF Discipline, LocksAreStale
  <2>3. QED BY <2>1, <2>2
<1>5. QED BY <1>1, <1>2, <1>4 DEF LocksAreStale

-----------------------------------------------------------------------------
(* The heartbeat rows *)

\* Who is assigned to a job after a step was before, or claims it or writes
\* its progress.
LEMMA AssignmentSteps ==
    ASSUME Discipline, [Next]_vars, NEW v \in Workers, NEW j \in Jobs, assigned'[v] = j
    PROVE  \/ assigned[v] = j
           \/ job[v] = j /\ ~Locked(j) /\ (Starts(v) \/ ProgressCommit(v))
<1>0. Existence BY DEF Discipline
<1>t. assigned \in [Workers -> Jobs \union {NoJob}] /\ NoJob \notin Jobs
  BY <1>0, JobTableAssumption DEF Existence, TypeOK, TableTypeOK
<1>u. CASE UNCHANGED assigned BY <1>u
<1>e. ASSUME NEW w \in Workers, NEW a, assigned' = [assigned EXCEPT ![w] = a],
             w = v => a # j
      PROVE  assigned[v] = j
  BY <1>e, <1>t
<1>1. ASSUME NEW w \in Workers, Claim(w)
      PROVE  assigned[v] = j \/ (job[v] = j /\ ~Locked(j) /\ Starts(v))
  <2>1. pc[w] = "claim" /\ ~Locked(job[w]) BY <1>1 DEF Claim
  <2>2. job[w] \in Jobs BY <2>1, <1>0, PointNames DEF Existence, BusyHasJob
  <2>3. CASE UNCHANGED assigned BY <2>3
  <2>4. CASE /\ row[job[w]].status = "QUEUED"
             /\ row' = [row EXCEPT ![job[w]] = Started(@)]
             /\ assigned' = [assigned EXCEPT ![w] = job[w]]
             /\ At(w, "claim", "case") /\ UNCHANGED job
    <3>1. pc'[w] = "case" /\ job'[w] = job[w]
      BY <2>4, <1>0 DEF At, Existence, TypeOK, WorkerTypeOK
    <3>2. Starts(w) BY <1>1, <2>1, <2>2, <2>4, <3>1 DEF Starts
    <3>3. QED BY <2>1, <2>4, <3>2, <1>e
  <2>5. QED BY <1>1, <2>3, <2>4 DEF Claim, Claimable
<1>2. ASSUME NEW w \in Workers, ProgressCommit(w)
      PROVE  assigned[v] = j \/ (job[v] = j /\ ~Locked(j) /\ ProgressCommit(v))
  <2>1. ~Locked(job[w]) BY <1>2 DEF ProgressCommit
  <2>2. CASE assigned' = [assigned EXCEPT ![w] = @] BY <2>2, <1>t
  <2>3. CASE assigned' = [assigned EXCEPT ![w] = job[w]] BY <1>2, <2>1, <2>3, <1>e
  <2>4. QED BY <1>2, <2>2, <2>3 DEF ProgressCommit
<1>3. ASSUME NEW w \in Workers, NEW new, StoreOutcome(w, new)
      PROVE  assigned[v] = j
  BY <1>3, <1>t DEF StoreOutcome
<1>4. ASSUME NEW w \in Workers, Recover(w)
      PROVE  assigned[v] = j
  BY <1>4, <1>t DEF Recover
<1>5. ASSUME NEW w \in Workers,
             CompleteCommit(w) \/ CancelCommit(w) \/ FailCommit(w) \/ CompleteAckLost(w)
      PROVE  assigned[v] = j
  BY <1>3, <1>5 DEF CompleteCommit, CancelCommit, FailCommit, CompleteAckLost
<1>6. ASSUME NEW w \in Workers, WorkerStep(w)
      PROVE  \/ UNCHANGED assigned \/ Claim(w) \/ ProgressCommit(w) \/ Recover(w)
             \/ CompleteCommit(w) \/ CancelCommit(w) \/ FailCommit(w) \/ CompleteAckLost(w)
  BY <1>6
     DEF WorkerStep, Progresses, Scan, Receive, ReceiveNothing, Poll, Case, Progress, Import,
         Complete, CancelRun, Fail, LoadOutcome, Wake, Requeue, Mark, MarkCommit, Raise,
         Crash, Restart, tableVars
<1>7. ASSUME NEW r, PostStep(r) PROVE UNCHANGED assigned
  BY <1>7 DEF PostStep, Post, Lookup, Insert, Enqueue, MarkDispatched, ApiCrash, tableVars
<1>8. QED
  BY <1>u, <1>1, <1>2, <1>4, <1>5, <1>6, <1>7
     DEF Next, ApiNext, WorkerNext, Cancel, HeartbeatExpires, LoseNotifications, vars, tableVars

\* Whoever ends an attempt, its worker or recovery, clears the assignment.
LEMMA AssignmentsEnd ==
    ASSUME Discipline, NEW w \in Workers, NEW v \in Workers, NEW j \in Jobs, assigned[v] = j,
           Salvaged(w, j) \/ Stored(w, j)
    PROVE  assigned'[v] # j
<1>t. assigned \in [Workers -> Jobs \union {NoJob}] /\ NoJob \notin Jobs
  BY JobTableAssumption DEF Discipline, Existence, TypeOK, TableTypeOK
<1>1. CASE Salvaged(w, j)
  <2>1. v \in found[w] BY <1>1 DEF Salvaged, Discipline, AssignmentsKnown
  <2>2. QED BY <1>1, <1>t, <2>1 DEF Salvaged, Recover
<1>2. CASE Stored(w, j)
  <2>1. Executing(w, j) BY <1>2, StoredRuns
  <2>2. v = w BY <2>1 DEF Executing, Discipline, AssignmentsKnown
  <2>3. PICK new \in Rows : Outcome(w, j, new) /\ StoreOutcome(w, new) BY <1>2 DEF Stored
  <2>4. pc[w] \in CommitPoints BY <2>3 DEF Outcome, CommitPoints
  <2>5. loaded[w].assigned = j
    BY <1>t, <2>2, <2>4 DEF Discipline, AssignmentsKnown
  <2>6. assigned' = [assigned EXCEPT ![w] = NoJob] BY <1>t, <2>3, <2>5 DEF StoreOutcome
  <2>7. QED BY <1>t, <2>2, <2>6
<1>3. QED BY <1>1, <1>2

\* The job a heartbeat row names after a step is running then.
LEMMA AssignedRunning ==
    ASSUME Discipline, Timely, [Next]_vars, NEW v \in Workers, NEW j \in Jobs, assigned'[v] = j
    PROVE  row'[j].status = "RUNNING"
<1>0. Existence /\ row \in [Jobs -> Rows] BY DEF Discipline, Existence, TypeOK, TableTypeOK
<1>1. CASE job[v] = j /\ Starts(v)
  <2>1. row'[j] = Started(row[j]) BY <1>0, <1>1 DEF Starts
  <2>2. QED BY <1>0, <2>1 DEF Started, Rows
<1>2. CASE job[v] = j /\ ProgressCommit(v)
  BY <1>0, <1>2, ProgressIsAdvance, AdvancedRuns
<1>3. CASE assigned[v] = j
  <2>1. row[j].status = "RUNNING" BY <1>3 DEF Discipline, AssignmentsKnown, AssignmentSound
  <2>2. CASE Marked(j) BY <1>0, <2>1, <2>2 DEF Marked, Dispatched, Rows
  <2>3. CASE Asked(j) BY <1>0, <2>1, <2>3 DEF Asked, CancelledByUser, Rows
  <2>4. CASE Expired(j) BY <1>0, <2>1, <2>4 DEF Expired, Missed, Rows
  <2>5. ~Created(j) BY <2>1 DEF Created
  <2>6. ASSUME NEW w \in Workers, ByWorker(w, j)
        PROVE  row'[j].status = "RUNNING"
    <3>1. ~Taken(w, j) BY <2>1 DEF Taken
    <3>2. ~Salvaged(w, j) /\ ~Stored(w, j) BY <1>3, AssignmentsEnd
    <3>3. QED BY <2>2, <2>6, <3>1, <3>2, AdvancedRuns DEF ByWorker
  <2>7. QED BY <1>0, <2>1, <2>2, <2>3, <2>4, <2>5, <2>6, RowSteps
<1>4. QED BY <1>1, <1>2, <1>3, AssignmentSteps

\* The heartbeat rows keep naming running jobs, one each, that only their
\* own executor or recovery knows how to clear.
LEMMA AssignmentsStep ==
    ASSUME Discipline, Timely, [Next]_vars
    PROVE  AssignmentsKnown'
<1>0. Existence /\ Existence' /\ Typed BY ExistenceStep DEF Discipline, Existence, Typed
<1>t. /\ assigned \in [Workers -> Jobs \union {NoJob}] /\ NoJob \notin Jobs
      /\ assigned' \in [Workers -> Jobs \union {NoJob}] /\ held' \in [Workers -> SUBSET Jobs]
  BY <1>0, JobTableAssumption DEF Existence, TypeOK, TableTypeOK
<1>r. ASSUME NEW v \in Workers, NEW j \in Jobs
      PROVE  /\ assigned[v] = j => row[j].status = "RUNNING"
             /\ Executing(v, j) => row[j].status = "RUNNING"
             /\ Starts(v) /\ job[v] = j => row[j].status = "QUEUED"
             /\ ProgressCommit(v) /\ job[v] = j => Executing(v, j)
  BY <1>0, ProgressIsAdvance
     DEF Executing, Starts, Discipline, ExecutorOwnsRow, AssignmentsKnown, AssignmentSound
<1>x. ASSUME NEW v \in Workers, NEW w \in Workers, NEW j \in Jobs, Executing(w, j)
      PROVE  /\ assigned[v] = j => v = w
             /\ Executing(v, j) => v = w
  BY <1>x DEF Executing, Discipline, ExecutorOwnsRow, AssignmentsKnown, SingleExecutor
<1>1. AssignmentSound'
  <2>1. SUFFICES ASSUME NEW v \in Workers, NEW w \in Workers, NEW j \in Jobs
                 PROVE  /\ assigned'[w] = j => row'[j].status = "RUNNING"
                        /\ assigned'[v] = j /\ assigned'[w] = j => v = w
    BY DEF AssignmentSound
  <2>2. ASSUME assigned'[v] = j, assigned'[w] = j
        PROVE  v = w
    <3>1. /\ assigned[v] = j \/ (job[v] = j /\ (Starts(v) \/ ProgressCommit(v)))
          /\ assigned[w] = j \/ (job[w] = j /\ (Starts(w) \/ ProgressCommit(w)))
      BY <2>2, AssignmentSteps
    <3>2. CASE assigned[v] = j /\ assigned[w] = j
      BY <3>2 DEF Discipline, AssignmentsKnown, AssignmentSound
    <3>3. CASE job[v] = j /\ ProgressCommit(v) BY <3>1, <3>3, <1>r, <1>x
    <3>4. CASE job[w] = j /\ ProgressCommit(w) BY <3>1, <3>4, <1>r, <1>x
    <3>5. CASE Starts(v) /\ Starts(w) BY <1>0, <3>5, OneStarts
    <3>6. QED BY <3>1, <3>2, <3>3, <3>4, <3>5, <1>r
  <2>3. QED BY <2>2, AssignedRunning
<1>2. ASSUME NEW v \in Workers, NEW w \in Workers, pc'[w] \in ExecutingPoints,
             assigned'[v] = job'[w]
      PROVE  v = w
  <2> DEFINE j == job[w]
  <2>1. job'[w] = j /\ j \in Jobs /\ (Executing(w, j) \/ Starts(w)) BY <1>2, ExecutorNext
  <2> HIDE DEF j
  <2>2. assigned[v] = j \/ (job[v] = j /\ (Starts(v) \/ ProgressCommit(v)))
    BY <1>2, <2>1, AssignmentSteps
  <2>3. CASE Executing(w, j) BY <2>1, <2>2, <2>3, <1>r, <1>x
  <2>4. CASE Starts(w) /\ Starts(v) BY <1>0, <2>4, OneStarts
  <2>5. CASE Starts(w) /\ ~Starts(v) BY <2>1, <2>2, <2>5, <1>r DEF j
  <2>6. QED BY <2>1, <2>3, <2>4, <2>5
<1>3. ASSUME NEW v \in Workers, NEW w \in Workers, assigned'[v] \in held'[w]
      PROVE  v \in found'[w]
  <2>1. assigned'[v] \in Jobs BY <1>3, <1>t
  <2>2. CASE WorkerStep(w)
    <3>1. /\ held'[w] = StaleRows /\ UNCHANGED assigned /\ FirstAssigned(found'[w], StaleRows)
      BY <1>3, <2>2, LockSteps
    <3>2. PICK u \in found'[w] : assigned[u] = assigned[v]
      BY <1>3, <3>1 DEF FirstAssigned
    <3>3. found'[w] \subseteq Workers BY <1>0 DEF Existence, TypeOK, WorkerTypeOK
    <3>4. u = v BY <2>1, <3>1, <3>2, <3>3 DEF Discipline, AssignmentsKnown, AssignmentSound
    <3>5. QED BY <3>2, <3>4
  <2>3. CASE ~WorkerStep(w)
    <3>1. held'[w] = held[w] /\ found'[w] = found[w] BY <1>0, <2>3, OthersStay
    <3>2. Locked(assigned'[v]) BY <1>3, <3>1 DEF Locked
    <3>3. assigned[v] = assigned'[v] BY <2>1, <3>2, AssignmentSteps
    <3>4. QED BY <1>3, <3>1, <3>3 DEF Discipline, AssignmentsKnown
  <2>4. QED BY <2>2, <2>3
<1>4. ASSUME NEW w \in Workers, pc'[w] \in CommitPoints, assigned'[w] # NoJob
      PROVE  loaded'[w].assigned = assigned'[w]
  <2>1. CASE WorkerStep(w)
    <3>1. /\ loaded'[w] = [job |-> row[job[w]], assigned |-> assigned[w]]
          /\ UNCHANGED assigned
      BY <1>0, <1>4, <2>1, CommitEntry DEF tableVars
    <3>2. QED BY <3>1
  <2>2. CASE ~WorkerStep(w)
    <3>1. pc'[w] = pc[w] /\ loaded'[w] = loaded[w] BY <1>0, <2>2, OthersStay
    <3>2. assigned'[w] \in Jobs BY <1>4, <1>t
    <3>3. ~Starts(w) /\ ~ProgressCommit(w) BY <2>2 DEF Starts, WorkerStep, Progresses
    <3>4. assigned[w] = assigned'[w] BY <3>2, <3>3, AssignmentSteps
    <3>5. QED BY <1>4, <3>1, <3>4 DEF Discipline, AssignmentsKnown
  <2>3. QED BY <2>1, <2>2
<1>5. QED BY <1>1, <1>2, <1>3, <1>4 DEF AssignmentsKnown

-----------------------------------------------------------------------------
(* The theorems of the timely regime *)

\* Nothing is stored, started, locked or assigned at first.
LEMMA DisciplineInit == Init => Discipline
<1> SUFFICES ASSUME Init PROVE Discipline
  OBVIOUS
<1>1. Existence BY ExistenceInit
<1>2. /\ \A j \in Jobs : row[j] = NoRow
      /\ \A w \in Workers : /\ pc[w] = "scan" /\ assigned[w] = NoJob /\ held[w] = {}
                            /\ pc[w] \notin ExecutingPoints /\ pc[w] \notin CommitPoints
  BY DEF Init, TableInit, WorkerInit, ExecutingPoints, CommitPoints
<1>3. ExecutorOwnsRow BY <1>2 DEF ExecutorOwnsRow, SingleExecutor, Executing
<1>4. LocksAreStale BY <1>2 DEF LocksAreStale
<1>5. BudgetLeft BY <1>2, JobTableAssumption DEF BudgetLeft, AttemptsBounded, NoRow
<1>6. ResultExact
  <2>1. NoRow.run = NoRun /\ NoRow.status \notin Completed BY DEF NoRow, Completed
  <2>2. QED BY <1>2, <2>1 DEF ResultExact
<1>7. AssignmentsKnown
  BY <1>2, JobTableAssumption DEF AssignmentsKnown, AssignmentSound
<1>8. QED BY <1>1, <1>3, <1>4, <1>5, <1>6, <1>7 DEF Discipline

\* Every step keeps the discipline, given timely heartbeats and honest commits.
LEMMA DisciplineStep == Timely /\ Discipline /\ [Next]_vars => Discipline'
<1> SUFFICES ASSUME Timely, Discipline, [Next]_vars PROVE Discipline'
  OBVIOUS
<1>1. Existence' BY ExistenceStep DEF Discipline
<1>2. \A j \in Jobs : Bounded(row'[j]) BY AllStepsAreLife
<1>3. BudgetLeft' /\ ResultExact'
  BY <1>2 DEF Bounded, BudgetLeft, AttemptsBounded, ResultExact
<1>4. QED BY <1>1, <1>3, OwnershipStep, LocksStep, AssignmentsStep DEF Discipline

\* The discipline of rows, locks and assignments holds for any number of
\* workers, jobs, requests, attempts and cases.
THEOREM DisciplineHolds == ASSUME Timely PROVE Spec => []Discipline
<1>1. Timely OBVIOUS
<1>2. Timely' BY DEF Timely
<1>3. Discipline /\ [Next]_vars => Discipline' BY DisciplineStep
<1>4. QED BY <1>3, DisciplineInit, PTL DEF Spec

\* No two workers execute one job at once, whatever crashes, late
\* notifications and recoveries happen in between.
THEOREM OneExecutor == ASSUME Timely PROVE Spec => []SingleExecutor
<1>1. Discipline => SingleExecutor BY DEF Discipline, ExecutorOwnsRow
<1>2. QED BY <1>1, DisciplineHolds, PTL

\* Claims, failures and recoveries never start a job more than MaxAttempts times.
THEOREM BudgetKept == ASSUME Timely PROVE Spec => []AttemptsBounded
<1>1. Discipline => AttemptsBounded BY DEF Discipline, BudgetLeft
<1>2. QED BY <1>1, DisciplineHolds, PTL

\* A job has a run exactly when it completed, with all its cases counted.
THEOREM ResultsAreExact == ASSUME Timely PROVE Spec => []ResultExact
<1>1. Discipline => ResultExact BY DEF Discipline
<1>2. QED BY <1>1, DisciplineHolds, PTL

\* Heartbeat rows name running jobs, and no job twice.
THEOREM AssignmentsAreSound == ASSUME Timely PROVE Spec => []AssignmentSound
<1>1. Discipline => AssignmentSound BY DEF Discipline, AssignmentsKnown
<1>2. QED BY <1>1, DisciplineHolds, PTL

\* Nothing leaves a final state once it is stored.
THEOREM TerminalStays == ASSUME Timely PROVE Spec => TerminalFinal
<1>1. Discipline /\ [Next]_vars =>
          [\A j \in Jobs : row[j].status \in Terminal => row'[j].status = row[j].status]_vars
  <2> SUFFICES ASSUME Discipline, [Next]_vars, NEW j \in Jobs, row[j].status \in Terminal
               PROVE  row'[j].status = row[j].status
    OBVIOUS
  <2>1. LifeStep(j) BY AllStepsAreLife
  <2>2. QED
    BY <2>1
       DEF LifeStep, Terminal, Lifecycle!Next, Lifecycle!vars, Lifecycle!Submit,
           Lifecycle!Cancel, Lifecycle!Start, Lifecycle!Advance, Lifecycle!GiveBack,
           Lifecycle!GiveUp, Lifecycle!Finish, Lifecycle!Stop
<1>2. QED BY <1>1, DisciplineHolds, PTL DEF Spec, TerminalFinal

\* Progress never falls, across retries, recoveries and late writes.
THEOREM ProgressGrows == ASSUME Timely PROVE Spec => ProgressMonotone
<1>1. Discipline /\ [Next]_vars =>
          [\A j \in Jobs :
              row'[j].completed_case_count >= row[j].completed_case_count]_vars
  <2> SUFFICES ASSUME Discipline, [Next]_vars, NEW j \in Jobs
               PROVE  row'[j].completed_case_count >= row[j].completed_case_count
    OBVIOUS
  <2>1. LifeStep(j) BY AllStepsAreLife
  <2>2. row[j].completed_case_count \in 0..NumCases /\ NumCases \in Nat
    BY AllBounded, JobTableAssumption DEF Rows
  <2>3. QED
    BY <2>1, <2>2
       DEF LifeStep, Lifecycle!Next, Lifecycle!vars, Lifecycle!Submit,
           Lifecycle!Cancel, Lifecycle!Start, Lifecycle!Advance, Lifecycle!GiveBack,
           Lifecycle!GiveUp, Lifecycle!Finish, Lifecycle!Stop
<1>2. QED BY <1>1, DisciplineHolds, PTL DEF Spec, ProgressMonotone

\* The API, the workers and recovery together implement the lifecycle of each
\* job: initial rows are its initial states, and every step is one of its
\* steps or leaves the job alone.
THEOREM LifecycleImplemented == ASSUME Timely PROVE Spec => RefinesLifecycle
<1>1. Init => \A j \in Jobs : Lifecycle(j)!Init
  <2>1. /\ NoRow.status = "ABSENT" /\ NoRow.attempt_count = 0 /\ NoRow.run = NoRun
        /\ NoRow.cancel_requested = FALSE /\ NoRow.completed_case_count = 0
    BY DEF NoRow
  <2>2. Init => \A j \in Jobs : row[j] = NoRow BY DEF Init, TableInit
  <2>3. QED BY <2>1, <2>2 DEF Lifecycle!Init
<1>2. Discipline /\ [Next]_vars =>
          [\A j \in Jobs : Lifecycle(j)!Next \/ UNCHANGED Lifecycle(j)!vars]_vars
  BY AllStepsAreLife DEF LifeStep
<1>3. QED BY <1>1, <1>2, DisciplineHolds, PTL DEF Spec, RefinesLifecycle

=============================================================================
