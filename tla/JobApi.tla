------------------------------- MODULE JobApi -------------------------------
(***************************************************************************)
(* POST /v1/evaluation-jobs and POST /v1/evaluation-jobs/{id}/cancel.      *)
(*                                                                         *)
(* A create request runs create_evaluation_job: it looks its key up,       *)
(* inserts, and dispatches, each a transaction of its own, with a crash of *)
(* the API process possible in between.  The row it dispatches on is the   *)
(* one its lookup loaded.  A client repeats a request at will.  Inputs     *)
(* exist and belong to the caller (_require_inputs, authorization).        *)
(***************************************************************************)
EXTENDS JobTable

CONSTANTS
    Requests,     \* client requests in flight
    KeyOf,        \* idempotency key of each
    BodyOf        \* body of each

ASSUME JobApiAssumption ==
    /\ KeyOf \in [Requests -> Jobs]
    /\ BodyOf \in [Requests -> Bodies]

VARIABLE apc      \* where each request is

apiVars == <<apc>>

ApiPoints == {"idle", "lookup", "insert", "dispatch", "mark", "accepted", "conflict"}

ApiTypeOK == apc \in [Requests -> ApiPoints]

ApiInit == apc = [r \in Requests |-> "idle"]

Goto(r, from, to) == /\ apc[r] = from
                     /\ apc' = [apc EXCEPT ![r] = to]

\* A request arrives, the first time or as a retry of the client.
Post(r) ==
    /\ \E from \in {"idle", "accepted", "conflict"} : Goto(r, from, "lookup")
    /\ UNCHANGED tableVars

\* _dispatch's early return: already dispatched, or no longer QUEUED.
NeedsDispatch(job) == ~job.dispatched /\ job.status = "QUEUED"

\* Mutant: any row under the key answers the request.
LookupIgnoringBody(r) ==
    LET job == row[KeyOf[r]]
    IN  /\ IF job.status = "ABSENT" THEN Goto(r, "lookup", "insert")
           ELSE Goto(r, "lookup", IF NeedsDispatch(job) THEN "dispatch" ELSE "accepted")
        /\ UNCHANGED tableVars

\* SELECT by key, _same_request, and _dispatch's test on the loaded row.
\* Also the SELECT after an IntegrityError and the refresh after a commit.
Lookup(r) ==
    LET job == row[KeyOf[r]]
    IN  /\ \/ job.status = "ABSENT" /\ Goto(r, "lookup", "insert")
           \/ /\ job.status # "ABSENT" /\ job.body # BodyOf[r]
              /\ Goto(r, "lookup", "conflict")
           \/ /\ job.body = BodyOf[r] /\ NeedsDispatch(job)
              /\ Goto(r, "lookup", "dispatch")
           \/ /\ job.body = BodyOf[r] /\ ~NeedsDispatch(job)
              /\ Goto(r, "lookup", "accepted")
        /\ UNCHANGED tableVars

\* INSERT and COMMIT; the unique constraint turns a second one into an
\* IntegrityError.  Both read the row again before they dispatch.
Insert(r) ==
    LET j == KeyOf[r]
    IN  /\ Goto(r, "insert", "lookup")
        /\ IF row[j].status = "ABSENT"
           THEN /\ newest' = newest + 1
                /\ row' = [row EXCEPT ![j] = NewRow(BodyOf[r], newest')]
           ELSE UNCHANGED <<row, newest>>
        /\ UNCHANGED <<redis, runs, assigned, held>>

\* queue.enqueue; on JobQueueUnavailable the dispatch is deferred and the
\* request is accepted all the same.
Enqueue(r) ==
    \/ /\ Push(KeyOf[r])
       /\ Goto(r, "dispatch", "mark")
       /\ UNCHANGED <<row, runs, assigned, newest, held>>
    \/ /\ Goto(r, "dispatch", "accepted")
       /\ UNCHANGED tableVars

\* dispatched_at = now, written whatever became of the row since the lookup.
MarkDispatched(r) ==
    /\ ~Locked(KeyOf[r])
    /\ Goto(r, "mark", "accepted")
    /\ row' = [row EXCEPT ![KeyOf[r]] = Dispatched(@)]
    /\ UNCHANGED <<redis, runs, assigned, newest, held>>

\* The API process dies between two transactions of a request.
ApiCrash(r) ==
    /\ apc[r] \in {"lookup", "insert", "dispatch", "mark"}
    /\ apc' = [apc EXCEPT ![r] = "idle"]
    /\ UNCHANGED tableVars

\* Mutant: a running job is marked CANCELLED under its executor.
CancelledAtOnce(r) == [r EXCEPT !.cancel_requested = TRUE, !.status = "CANCELLED"]

(***************************************************************************)
(* cancel_evaluation_job, under SELECT FOR UPDATE: 409 on a terminal row,  *)
(* a flag for the worker on a running one, CANCELLED at once on a queued   *)
(* one.                                                                    *)
(***************************************************************************)
CancelledByUser(r) ==
    [r EXCEPT !.cancel_requested = TRUE,
              !.status = IF @ = "QUEUED" THEN "CANCELLED" ELSE @]

Cancel(j) ==
    /\ ~Locked(j)
    /\ row[j].status \in {"QUEUED", "RUNNING"}
    /\ row' = [row EXCEPT ![j] = CancelledByUser(@)]
    /\ UNCHANGED <<redis, runs, assigned, newest, held, apc>>

PostStep(r) == Post(r) \/ Lookup(r) \/ Insert(r) \/ Enqueue(r)
               \/ MarkDispatched(r) \/ ApiCrash(r)
=============================================================================
