# Shopfilter evaluation service: formal model

TLA+ modules, TLC runs and TLAPS proofs about the evaluation service in this
repository. Paths such as `job_executor.py` are those of
`services/worker/`, and `routers/...` those of `services/api/shopfilter_api/`.

## 1. Inventory

| Component | State | Operations | Interacts through |
|---|---|---|---|
| Evaluation-job API (`routers/jobs.py`, `job_queue.py`, `job_lifecycle.py`) | `evaluation_jobs` rows | create, dispatch, cancel, list, get | PostgreSQL, Redis list |
| Worker (`main.py`, `job_executor.py`) | `evaluation_jobs`, `worker_heartbeats`, its own loop | recover, receive, poll, claim, progress, finish, requeue | PostgreSQL, Redis list, runner callbacks, object store |
| Run persistence (`run_persistence.py`, `artifact_storage.py`) | `evaluation_runs` and evidence rows, objects | import of a run artifact | one transaction, object store |
| Accounts (`routers/authentication.py`, `auth.py`, `reset_password.py`) | users, sessions, single-use links | register, login, logout, verify, forget and reset a password, reset by script | PostgreSQL row locks, mailer |
| Governance (`routers/memberships.py`, `invitations.py`, `organizations.py`, `bootstrap_owner.py`) | organizations, memberships, invitations | create, add, change role, remove, invite, revoke, accept, bootstrap | PostgreSQL row locks, mailer |
| Version imports and resources (`version_persistence.py`, `routers/catalog_imports.py`, `resources.py`) | projects, catalogs, datasets, search systems and their versions | import from API and command, create under a parent | PostgreSQL unique constraints |
| Reviews (`routers/reviews.py`) | review ledger | append, list | PostgreSQL |
| Evaluation and assistant endpoints | none | read | PostgreSQL |
| Evaluation engine (`packages/evaluation_engine`) | none between runs | validate a dataset, run its cases, compute metrics, classify failures, write the artifact | adapters, callbacks, local files |
| Search (`packages/demo_search`, `packages/search_adapters`) | none | parse a query, search, inject a fault into a response | called by the engine |
| ESCI pipeline (`packages/esci_pipeline`) | local files: sources, processed versions, review packets, published datasets | download, prepare, verify, create a packet, publish | temporary names and renames on one disk |
| Tracing (`packages/tracing`) | trace in memory | start, record, publish | HTTP |
| CLI and golden scripts (`packages/cli`, `scripts/`) | run artifacts and golden datasets, as local files | evaluate, review and approve a draft, the commands of ESCI | files |
| Migrations, mailers, seeding, configuration, web console | none the services rely on | | |

**Behaviours that are hard.**

* PostgreSQL transactions of several API requests and several workers interleave; most
  worker writes read a row without locking it and commit later (`autoflush=False`,
  plain `session.get`), so what they write is decided on what was true before.
* Redis may refuse, lose or repeat a notification; a worker may die at any
  instruction, or be so slow that its heartbeat expires; commits may be applied although
  the client sees an error.
* Account and governance requests lock some of the rows they depend on, in different orders:
  some races are excluded by the locks, some are not, and some end in a deadlock that
  PostgreSQL resolves by aborting one side.
* Unique constraints decide races of imports that looked the row up first.
* Commands on one machine write the same files: through a temporary name that two of
  them share, or in place; a command can be killed in the middle of several files.
* Only the first symptom of a case is reported as its failure, and a measured latency is
  one of them.

`PROJECT.json` lists these, each at its line, under `hazards`.

**What correctness means, per component.**

* Jobs and workers: one executor per job; never more than `max_attempts`
  attempts; final states final; progress that does not go back; a link to the
  right run exactly on completed jobs; cancellation that sticks; assignments only
  on running jobs; every accepted job finished eventually; one row per
  idempotency key and the right answer to each request under it.
* Run persistence: one immutable run per run id, seen only with all of its evidence;
  a row and an object that agree wherever a failure strikes; importers that race end
  with the run stored.
* Accounts: a link has its effect once, and only the newest is valid; a session does not
  outlive the password it was opened with.
* Governance: an organization keeps an Owner; only Owners make Owners; an invitation is
  used once and not after its revocation.
* Imports and resources: a name stands for one content; nothing hangs on a row of another
  organization; a dataset stands on a catalog that has its products.
* Engine and search: an injected fault is called by its name; verdict and metrics of a
  case do not contradict each other; a run id stands for one result.
* ESCI pipeline and files: what is published is what the source says; what is found under a final
  name is whole.

## 2. Plan

All of the plan but its last item is done.

1. **Jobs and workers**: `JobTable` (shared state), `JobApi`, `JobWorker`, composed by
   `EvaluationJobs`, which implements `JobLifecycle`. Types, the safety properties of
   every regime, those of the timely regime and the refinement are proved.
2. **Run persistence**: `RunImport`. Its safety properties are proved.
3. **Service**: `ServiceTables` (shared tables and locks), `Accounts`, `Governance`,
   `VersionImports`, composed by `ApiService`. That locks exclude, that links and invitations
   are used once, the three properties of
   resources and imports, which links, invitations and sessions a race leaves, whom a deadlock may hit, that
   Owners stay and are named by Owners, and what breaks off an import, are proved.
4. **Workstation**: the pure algorithms `SearchSystem`, `CaseMetrics`,
   `CaseEvaluation`, the shared files `LocalFiles`, the commands `EvaluateCommand`,
   `EsciCommands`, `EsciReview`, composed by `Workstation`. What commands leave in files is
   proved, and so is what an evaluation computes.
5. **Left**: the composition of `RunImport` with
   `JobWorker`, whose one-step `Import` stands for it; metrics aggregated over cases and the
   reports made of them.

Runs stay few: one instance per question.

## 3. The modules

| Module | Models | State |
|---|---|---|
| `JobTable` | tables `evaluation_jobs`, `evaluation_runs`, `worker_heartbeats.current_job_id`, the Redis list | `row`, `runs`, `assigned`, `redis`, `held` (row locks of open recoveries), `newest` (`created_at`) |
| `JobApi` | `create_evaluation_job`, `_dispatch`, `cancel_evaluation_job` | `apc`, where each request is |
| `JobWorker` | `main`, `recover_stale_jobs`, `execute_job` and what they call | `pc`, `job`, `done`, `loaded`, `found`, `crashes` |
| `EvaluationJobs` | the composition; properties, inductive invariants, fairness | |
| `JobLifecycle` | the abstract life of one job | `status`, `attempt_count`, `cancel_requested`, `completed_case_count`, `run` |
| `MCEvaluationJobs` | instances for TLC | |
| `EvaluationJobsProofs` | theorems of every regime, of the timely regime, and the refinement | |
| `RunImport` | `import_run_artifact`, `MinioArtifactStorage.put_verified`, the unique constraints of systems, versions and runs | `parents`, `runs`, `objects`; `pc`, `import`, `inserted`, `written`, `seen` of each importer; `faults` |
| `MCRunImport` | an instance for TLC | |
| `RunImportProofs` | theorems of `RunImport` | |
| `ServiceTables` | the tables of the API, row locks and unique keys, what a request is | `users`, `organizations`, `memberships`, `sessions`, `links`, `invitations`, `resources`; `pc`, `memo`, `locks` of each request; `met` |
| `Accounts` | `routers/authentication.py`, `auth.py`, the script `reset_password` | |
| `Governance` | `routers/memberships.py`, `invitations.py`, `organizations.py`, the script `bootstrap_owner` | |
| `VersionImports` | `version_persistence.py`, `routers/resources.py`, `catalog_imports.py`, `reviews.py` | |
| `ApiService` | the dependencies of the endpoints (`get_authenticated_session`, `get_organization_access` and who may do what), crashes, deadlocks, the composition; properties | |
| `MCApiService` | two organizations, their users and rows, and the workloads | |
| `ServiceProofs` | theorems about locks, links and invitations | |
| `ServiceImportsProofs` | theorems about resources, imports and their errors | |
| `ServiceRacesProofs` | theorems about what races leave of links, invitations and sessions | |
| `ServiceMembershipsProofs` | theorems about deadlocks and about Owners | |
| `SearchSystem` | `query_parser.py`, `demo_search/engine.py`, `search_adapters/faults.py` | none: operators |
| `CaseMetrics` | `metrics/relevance.py`, `metrics/constraints.py` | none: operators |
| `CaseEvaluation` | `datasets.py`, `failures/classifier.py`, a case in `runner.py` and `source_validated_runner.py` | none: operators |
| `LocalFiles` | files, open files and the ways they are written | `names`, `data`, `pc`, `memo`, `traces`, `met` |
| `EvaluateCommand` | the evaluate command, `_load_job` and the choice of the runner, the two golden scripts, traces | |
| `EsciCommands` | `download.py`, `prepare.py` | |
| `EsciReview` | `review.py` and its commands in `cli/app.py` | |
| `Workstation` | the composition, kills and write errors; properties | |
| `MCWorkstation` | a vocabulary, catalogs, datasets, an ESCI source, and the workloads | |
| `WorkstationProofs` | theorems about the files that commands leave | |
| `CaseEvaluationProofs` | theorems about what an evaluation finds in a case | |

**Transactions.** An action is one transaction, or one half of one. Where the code
reads under `FOR UPDATE` (claim, cancel, recovery), nothing can come between and
claim and cancel are one step; recovery is `Scan` (which takes the locks, skipping
locked rows) and `Recover` (which commits), because it holds its locks while it looks
up heartbeat rows, and other transactions must wait or skip meanwhile. Where the
code reads without a lock (`_record_progress`, the three `_finish_...`,
`_mark_redispatched`), a step loads the row and a later step commits. SQLAlchemy
then updates only the columns whose value differs from the loaded one: `Flush`.
`heartbeat_at` is a new time on every write and is always updated (`Beaten`).

**Correspondence.** `Post`, `Lookup`, `Insert`, `Enqueue` and `MarkDispatched` are the
stretches of `create_evaluation_job` between two commits; the `SELECT` after an
`IntegrityError` and the `refresh` after a commit are `Lookup` again. `Scan`/`Recover`,
`Receive`/`ReceiveNothing`, `Poll`, `Claim` are the loop of `main`; `Case`,
`Progress`/`ProgressCommit`, `Import`, then one of `Complete`/`CompleteCommit`,
`CancelRun`/`CancelCommit`, `Fail`/`FailCommit` are `execute_job`; `Wake`,
`Requeue`, `Mark`/`MarkCommit` are `_requeue`. `Raise` is any exception that reaches
the handler of `execute_job`; `CompleteAckLost` is the one that comes out of a
commit that was applied. An exception outside that handler ends the process and is
`Crash`, as is a kill; after `Crash` open transactions are rolled back.

**Imports.** `RunImport` is `import_run_artifact` cut where another session or a
failure can come between: each `SELECT` (`Lookup`, `FindSystem`, `FindVersion`), each
`INSERT` that is flushed (`NewSystem`, `NewVersion`, `NewRun`), each call to MinIO
(`Stat`, `Put`, `Verify`), the evidence rows one by one, and the commit. Sessions run
under READ COMMITTED: a row is visible when committed or when it is the session's
own, and an `INSERT` of a key waits for another open transaction that inserted it
(`InsertRow`). The second half of the points (`restat`, `reput`, `reverify`, `relink`) is
the path of an existing run. A failure of PostgreSQL, MinIO or the process is `Fault`
at any point; it closes the session but leaves the object. `CommitAckLost` is the commit
that is applied and fails in the importer. The importers are workers and the
command; `Retry` is the next attempt of a job. In `JobWorker` the whole of this is one
step: `Import` is its commit, `Raise` its failures. An artifact is a member of
`Bytes`, which stands for its hash and its fingerprint at once; `Damaged` are
object keys that hold something else from the start.

**Abstractions.** A job is its `(organization_id, idempotency_key)`. Bodies are
model values that `_same_request` can tell apart. Time is two bits: whether a running
row's `heartbeat_at` is past the cutoff, and whether `dispatched_at` is set.
All jobs have the same `max_attempts` and number of cases. Error texts,
`started_at`, `finished_at`, `last_seen_at` and authorization do not decide
anything here and are left out. Rows are never deleted: no handler deletes one. A
worker's heartbeat row exists when it claims, because `_record_heartbeat` precedes
every claim in `main`'s loop.

**Timing regimes.** `SlowWorkers` lets a live worker's heartbeat expire
(`worker_stale_after_seconds` is 30 in the compose file and a case has no time
limit); `LostAcks` lets an applied commit raise. With both `FALSE` (`Timely`) the
system is in the regime its recovery is designed for. Each property says in which
regime it is claimed, and the violating runs show what becomes of it in the other.

**Requests.** In `ServiceTables` a request is a sequence of statements; an action is one
of them together with what the code does up to the next. A session runs under READ
COMMITTED, so each statement sees what is committed when it starts; what the request
remembers of it is in `memo`, and others may change it meanwhile. What a transaction
writes appears at its commit; until then the rows and unique keys it wrote, inserted or
took `FOR UPDATE` are in its `locks`, and a statement that `Needs` one of them waits
(`Granted`). A statement that locks what it matches is a step when it starts (`Match`) and one for
each row it gets (`Lock`, `LockRow`), which is then looked at again, as PostgreSQL does: it waits for
one row while it has others, and since the statement has no `ORDER BY` it may go through them in any
order. An `INSERT` of a row about a user waits, because of the foreign key, for whoever has
taken that user `FOR UPDATE`. So a user has two parts that can be locked: an `UPDATE`, or the `INSERT` of
the user, takes `UserRow`, `FOR UPDATE` in `accept_invitation` takes `UserKey` as well, and who inserts a
membership, a session, a link, an invitation or a review needs `UserKey` (`AboutUser`). A
request that waits in a circle can be the victim (`Abort`). `Begin` records in `met` which
requests were open at the same time; the properties use it to say exactly which race
an exception needs. `Authenticate` and `Authorize` precede every endpoint that has a cookie, and
what they read is used until the end of the request, as in the code. `Known` says
that a client has a cookie, link or invitation only after the answer or mail that
brings it, which may also be one that the API took for lost. Most actions have the name of
the statement or handler they model; `map` in `PROJECT.json` has the lines.

**Files.** In `LocalFiles` a path names an inode, and the data of an inode is a sequence of
at most one content: empty (`Partial`) until it is written. A command that
has opened a file keeps the inode in `memo`, so what it writes goes where a rename has
put it. `OpenFile` empties the file, `WriteFile` fills it; two writers of one inode
leave the content of either, or `Partial`. A rename is `Moved`. `download.py` creates
its part exclusively, digests what arrives and renames; `write_run_artifact` and the
publication write a temporary file and rename it; the packet, the processed files and the
golden scripts write in place. `Crash` kills a command between any two steps; `WriteFails` is an I/O
error, after which the command removes what its handler removes (`CleanedUp`).

**Evaluation.** A query is a sequence of words and `Meaning` says which field a word
fills; the regular expressions of the parser are this vocabulary. A response carries whether
it was slow, which is chosen freely for each case unless the system injects it. Metrics are
fractions, the discounts of nDCG numbers of a table that do not increase, a hash is the body it
was computed from. Where the code sorts by a key that no two elements share, the model
says of each element which ones come before it (`Ordered`). What is read as a dataset has a list of
cases with judged products, and in a golden one constraints with a valid range (`SourceCases`,
`HasCases`): anything else is refused by `model_validate` before it is looked at. `EvaluateCase` is one case of the loop of either runner with its trace; the
worker's evaluation differs in what it loads (`Reconstructed`) and in writing to a directory of
its own, which is why it leaves no shared file.

**Abstractions of the service and the workstation.** Whether a link, session or invitation has
expired does not change during a run (`fresh`). A password is its hash, a cookie its
session. Of the share locks that foreign keys take, only those on users are modelled: no handler
deletes a parent, updates its key or locks it `FOR UPDATE` except a user, so nothing else waits
for them. They are taken in the last statement of a transaction, so they are held for the step
that commits and no longer. Consecutive reads of rows that no modelled step changes are one step.
Rows of products and cases come and go with their version. A mail is sent or
not, and one that is reported lost may have arrived. A request or command is made at most once. A
Parquet file is a set of judged queries and a table of titles; a checksum is the content.

## 4. Runs

Passing:

| Run | Instance | Shows |
|---|---|---|
| `jobs_timely` | 1 key, 2 requests with different bodies, 2 workers, 2 attempts, 2 cases, 1 notification, 1 crash | safety and refinement in the timely regime |
| `jobs_any` | 1 job, 2 workers, slow workers, lost acknowledgements, up to 3 attempts | what holds even with overlapping executors |
| `imports` | 2 importers, each of which imports again and again: an artifact into two projects, other bytes under its run id, an old run; 2 evidence rows, 1 failure, 2 keys that may be damaged | safety of imports, and that races end with the run stored or refused |
| `jobs_live` | 1 job, 2 workers, 1 crash for good | every stored job finishes, no client or notification needed |
| `service` | 2 organizations, 6 users of all kinds; every two requests of a component and 32 larger groups; 1 crash | what locks and constraints guarantee, and which race each exception needs |
| `workstation` | 13 datasets x 6 systems x 2 cutoffs alone; 36 workloads of one to four commands on shared files; 1 kill or write error | evaluations are right and repeatable, published data is the source's, files are whole |

The properties of jobs and run imports:

* `SingleExecutor`, `AttemptsBounded`, `TerminalFinal`, `ProgressMonotone`,
  `ResultExact`, `AssignmentSound`: timely regime.
* `RefinesLifecycle`: every step is a step of `JobLifecycle` for each job or
  changes nothing of it. It is stated as an initial condition and a step formula so
  that one property covers all jobs. `JobLifecycle` goes from `RUNNING` back to `QUEUED`, as
  retries and recovery do; the table of `job_lifecycle.py` and its diagram do not have that
  transition, and no handler asks that table.
* `AcceptedMatchesRow`, `LinkIntegrity`, `CancelledNeverStarts`: every regime.
* `Discipline`: the inductive invariant of the timely regime (section 6).
* `EventuallyTerminal`: liveness.
* `ArtifactStored`, `EvidenceComplete`, `ParentsStored`, `DoneMeansStored`,
  `RunImmutable`: imports. `Consistency` is their inductive invariant.
* `EventuallyImported`: liveness of imports whose key is not damaged.

Those of the service. Several of them hold but for a race that the code does not exclude. The
property then names the race; each of these exceptions does occur in the run, and without it
the property is violated:

* `SessionsFollowPassword`: a live session was opened with the password the user has, unless a
  login or an accepted invitation met the reset: the reset revokes the sessions it sees.
* `OneLink`: two links of one user for one purpose are valid together only when the
  requests for them met; each retired the links it saw.
* `SingleUse`: a link or an invitation has its effect once. No exception: the row is locked
  and looked at again.
* `InvitationsDecided`: an invitation is accepted and revoked only when the two met, since
  revocation reads it without the lock.
* `OwnerRetained`: an organization keeps an Owner, unless a request found its target in another
  role before a promotion committed: whether the last-owner check is needed is decided on
  a role that is read before the memberships are locked (`memberships.py:165`). The document
  makes no such exception, which `last_owner` shows to be a disagreement: `LastOwnerKept` is what it says.
* `OwnersMakeOwners`: the Owners are the first ones (those of the start, those invited before, who
  founded the organization, whom the bootstrap script names) and whom an Owner has
  named, as far as the chain goes: each set of emails that has the first ones, and not some
  Owner, is left by a request that one of its members signed. An Owner may be demoted
  between the check of the role and the commit, and still name one.
* `DeadlocksNamed`: whoever waits in a circle waits for a rival (`Rivals`): two requests that use the links of
  one user, or the reset script of that user (links and sessions are locked in any order); two that
  change or remove members of one organization, and lock its memberships in any order; two that
  invite one email to one organization; and one that accepts an invitation with one that adds the
  invited user, as `accept_invitation` locks the user and then inserts the unique key of the membership, and
  `add_member` and `bootstrap_owner` insert the key and then need the user. Each of the four
  occurs. Nothing else, such as an import or the creation of a resource, is ever aborted.
* `TenantsApart`, `ImportsStored`, `DatasetsGrounded`: imports and resources. A race of
  imports leaves one content, and whoever was told that it succeeded finds its own.
* `ImportErrors`: an import ends with an unhandled error only in a race for its name, or where a
  resource that the API created has the name (it has no `external_id`, by which the import looks).

Also seen in this run and not stated: changing the role of a member that is removed meanwhile is
an unhandled error of the ORM (`Write`).

Those of the workstation:

* `FaultsNamed`: where the healthy system passes, an injected fault is reported under its own
  name, although several symptoms show at once and only the first counts; a case the
  fault does not show in is blamed for its latency at most.
* `VerdictMatchesMetrics`: expected products in expected order just when nothing is
  false, missing or displaced; passing implies understood and satisfied; no ranking beats the
  ideal one; recall and false negatives add up; the source-validated verdict is the
  reciprocal rank 1; what the review script passes, the evaluation passes.
* `RunsReproducible`: one configuration, one result but for latencies, in memory, in
  published traces and in the artifact. Two evaluations of one run at the same time leave the
  artifact of the last.
* `PublishedFromSource`: a published dataset has only judged cases of the source, and the
  products of its catalog, whatever was edited or prepared meanwhile: the source that is verified is
  the one the draft came from, since a version's folder is made once. Exceptions: a command that publishes at the same
  time may have put its own in the place; and a preparation that fails after the draft was matched, and
  another one of the same version that ends before the records are read, change the source.
* `FilesWhole`: a file under a final name is whole, a packet has both files of one draft, a
  folder verifies. Exceptions, each of which occurs: two writers that met share a temporary
  name, so one can rename what the other has just emptied (evaluations of one run, downloads of
  one source); a packet whose writers met, or one of which was killed, or that an approval could
  not write to, may be half there; a killed preparation leaves a folder that blocks its version.

Violating, each a disagreement between a document and the code:

| Run | Property | Disagreement |
|---|---|---|
| `slow_terminal` | `TerminalFinal` | "Terminal states cannot transition": the outcome writes do not look at the status, so a slow executor reopens a finished job |
| `ack_terminal` | `TerminalFinal` | the same sentence: `_finish_completed` is inside the `try` of `_finish_failed`, so a lost acknowledgement requeues a completed job |
| `backoff` | `BackoffRespected` | the backoff binds only the worker that failed; any other one polls the row at once |
| `import_idempotent` | `IdenticalAccepted` | "The import is idempotent for identical bytes and fingerprints" (`docs/api-persistence.md`): run ids are unique in the organization but object keys contain the project, so the same bytes are refused in a second project |
| `last_owner` | `LastOwnerKept` | "row locking plus a last-Owner check prevents every removal or downgrade that would leave an organization without an Owner" (`docs/api-persistence.md`): the check is skipped when the target was no Owner in the row that was read before the lock, although it is the last one by then |
| `worker_dataset` | `DatasetsReconstructed` | "Both paths reconstruct the exact catalog and dataset versions stored in PostgreSQL" (`docs/worker-lifecycle.md`): the cases come back ordered by id, with the hash of another order, which the runner of golden datasets then refuses |

**Bounds.** The runs have one job: that several jobs in one table, queue and
heartbeat table do not disturb each other is proved for safety (any set of jobs, section 6) and not
checked for liveness, as two jobs and two workers exceed the time of a run. Two workers are
enough for every pairwise race: the executor and
the worker that recovers, claims or executes beside it. Two attempts
distinguish the retry that remains from the budget that is spent, for a failure and for a crash
in either order. Two cases make one progress value
that is neither the first nor the last. One crash together with `Raise`
exercises recovery with and without budget. `MaxQueue` bounds the notifications in Redis;
a second one of the same job can be pushed after the first was popped, so stale and
duplicate messages occur at bound 1, and at bound 0 every dispatch fails.
`AttemptBound` cuts the attempts only where `SlowWorkers` lets them exceed
`max_attempts`. Worker symmetry is used in safety runs alone. For imports, two
importers that choose among four imports make every pairwise race on a system, a version,
a run and an object; two evidence rows tell a part from the whole; `MaxFaults` is 1,
and damaged objects add failures without bound.

For the service, a workload is the set of requests that are made: all pairs of requests of a
component, so that every two endpoints meet on the same and on different rows, and
threes and fours where a request prepares what others race for (a link is asked for twice, and both
are used) or where an exception needs a third or fourth (promotion, removal and demotion). A
deadlock is looked for in circles of two and three. One crash leaves each request undone at each of
its statements once.

For the workstation, every dataset (valid and spoilt ones, judgments of all grades, duplicate and
missing products, contradictory ranges, gaps of the catalog) is evaluated with the healthy and
every faulty system at a cutoff below and one above the number of results, with any case
slow. Commands meet in the pairs that share a file, and in the chains in which one
needs what another makes (download, prepare, create a packet, publish).

**Deadlock.** `service` and `workstation` stop when all their requests are answered, and say
`CHECK_DEADLOCK FALSE`; requests that wait for each other are `Abort`ed and looked at by
`DeadlocksNamed`.

**Fairness.** `Fairness` assumes that a live worker keeps taking the steps of
`main`'s loop (its waits have time-outs, its database calls return), and that time
makes an unattended heartbeat stale. Nothing is assumed of clients, of Redis, of
failures, or of restarts: in `jobs_live` the crashed worker stays down and the other
one finishes its job. `imports` assumes of each importer that it goes on, that it gets
a key it waits for if that is free again and again (strong fairness: PostgreSQL wakes who
waits), and that it tries again after a failure; the last is the worker's retry and
holds only while attempts remain. The compose file has no
restart policy, so jobs whose last worker has died wait for somebody to start one. `service` and
`workstation` assume nothing: nobody has to send a request, and their properties are safety.

## 5. Mutants

Every property of a passing run is paired in `PROJECT.json` with a mutant: an
operator whose comment starts with "Mutant", put beside the definition it would replace. It is a
plausible slip in that code (a dropped budget test, a claim that accepts any row,
a scan that does not skip locked rows, a full-row write), and the run finds the
property violated with it. No action uses a mutant.

## 6. Proofs

`EvaluationJobsProofs` holds for every set of jobs, workers, requests, bodies and runs,
all bounds, and both regimes, from the assumptions `JobTableAssumption`,
`JobApiAssumption` and `JobWorkerAssumption`.

* `TypeCorrect`: `TypeOK` with `BusyHasJob` (a worker has a job exactly while
  it is busy with one) is inductive. The second part is needed because handlers
  index the table with the worker's job.
* `ExistenceHolds`: `Existence` = types, `BusyHasJob`, `JobsExist`, `LinksGrow`.
  The argument goes through one lemma, `RowsGrow`: no step of any actor, including the
  unlocked writes, un-stores a row, changes its body, takes back a cancellation,
  starts a cancelled job, or changes a link once set (`Grows`). For the unlocked
  writes it rests on what was loaded: the run a session saw is still the run of
  the row, or the row had none then (`GrowsByFlush`). `CommitEntry` says how a worker
  comes to the point of committing, `WorkerFrame` what one worker's step leaves
  to the others.
* `AcceptedIsOwn`, `LinksAreIntact`, `CancellationSticks` follow.

The second half of the module holds in the timely regime: its theorems assume `Timely`, which
`jobs_timely` instantiates and `slow_terminal` and `ack_terminal` show to be necessary.

* `DisciplineHolds`: `Discipline` is inductive. None of the safety properties is:
  that one worker executes a job rests on its row being RUNNING with a fresh
  heartbeat (`ExecutorOwnsRow`), so that nobody claims or recovers it; that
  outcomes are right rests on what a transaction loaded being what the row still holds,
  but for a cancellation (same part); that recovery clears every assignment rests
  on what it loaded when it took its locks (`AssignmentsKnown`), and those on
  rows under lock not changing (`LocksAreStale`).
  The argument first says what any step can do to a row (`RowSteps`), which is
  independent of the invariant, then reduces the unlocked writes of a live executor
  to what they make of the current row (`AdvancedRuns`, `StoredRuns`). From there
  the parts are kept one by one: `OwnershipStep`, `LocksStep`, `AssignmentsStep`, and
  `BudgetLeft` and `ResultExact` with the refinement.
* `LifecycleImplemented`: `AllStepsAreLife` maps each step on a row to a step of
  `JobLifecycle` or to none (`ApiIsLife`, `TakenIsLife`, `RanIsLife`, `SalvagedIsLife`).
  `TerminalStays` and `ProgressGrows` are read off the lifecycle's steps.
* `OneExecutor`, `BudgetKept`, `ResultsAreExact`, `AssignmentsAreSound` follow from
  `Discipline`.

`RunImportProofs` holds for every set of importers, projects and artifacts, any number
of evidence rows and failures, from `RunImportAssumption` (an old run has a `file://` uri
and all its evidence).

* `ImportsAreConsistent`: `Consistency` is inductive. A transaction reads without locks, so
  what it found must be shown to last: an existing run because runs are never replaced,
  a parent because it is committed or the transaction's own (`FindingsHold`), a
  verified object because whoever overwrites a key writes what the key says
  (`PutConsistent`), and a free run id because the inserted key keeps the others out
  until the commit (`InsertedIsOwn`). `LocalStep` reduces every step that stores nothing to
  the importer that takes it.
* `TypesAreCorrect`, `ObjectsAreStored`, `RunsAreWhole`, `ParentsAreStored` and
  `SuccessIsStored` follow; `RunsAreImmutable` looks at
  the two steps that write runs, one on a free id and one on the uri alone.

`ServiceProofs` holds for every set of requests and every database, from
`ServiceAssumption` and `SeedAssumption` (seeded rows have types, ids and
unique keys, no two memberships share an id, each seeded organization has an Owner, no seeded
invitation is accepted, ids of links and sessions are unique, a user has one valid link for a purpose, an open
session was opened with its user's password) and
`CallAssumption` (which requests have a cookie, which a role, and that those with a link or an
invitation name it; a request without a cookie where one is needed is answered 401 and does nothing).

* `StepEffect` says what any statement of any request may do to the others and to its own
  locks (`Effect`); `AccountEffect`, `GovernanceEffect` and `ResourceEffect` look at each
  statement once. What follows needs no statement again but those it is about.
* `LocksExclude`: `LocksInv` is inductive. A transaction takes locks it has waited for
  (`Granted`), each kind of request is at its own statements (`Staged`), and whoever is past the
  statement that locks a link or an invitation has it locked.
* `UsedOnce`: `SingleUse` is not inductive: that a second request cannot use a link after the
  first depends on what it knew before it waited. `UseInv` adds that what an answered request used is
  used (`UsedUp`), and that nobody who is about to use a link or an invitation names one that
  an answered request used (`Spare`): it could only have come there by finding the row unused with
  the lock in hand, and nobody else writes it while it has the lock.

`ServiceImportsProofs` holds from the same assumptions; `TablesTyped` also from `CallTypes` (a body, an organization
header or the argument of a script fits its schema: one that does not is answered 422 and changes nothing).

* `ImportsInvariant`: `ImportInv` is inductive. A request looks up its parent, its
  catalog version and its resource in statements of their own, and nothing locks what it found;
  but resources are added and never changed, so it lasts (`Lasting`). `Underway` says what each
  statement relies on. Keys are unique because an `INSERT` locks a key that no row has, and no row
  gets a key that another request has locked (`Rows`).
* `OrganizationsApart`, `DatasetsStandOnCatalogs`: a resource that an import takes over hangs on the
  project it was looked up by, so it is of the project's organization (`ProjectsOrganization`).
* `ImportsAreStored`: a version that an import finds cannot hang on a resource the same import has
  only inserted (`NoOrphans`), so what it compares with is stored under its own name.
* `ImportErrorsExplained`: `ErrorsInv` is inductive. It needs all of the others: an import is broken off
  by a deadlock, which `Circling` excludes, or by a key that is taken when it inserts
  (`Explained`). Whoever took it after the import had looked was open then, so the two met; whoever took
  it before had made a resource with no `external_id`, or else the import would have found it.
* `TablesTyped`: the types alone are not inductive: what is written was remembered from an earlier statement. `TypesInv`
  adds that it has the type of the table it is for (`Typed`), which holds because the next statement is that of
  the same kind of request (`Outline`), and that ids come from the tables (`UseInv`).

`ServiceRacesProofs` holds from the same assumptions, and is about the properties that
name an exception: requests that were open at the same time, which `met` records.

* `Meeting`: two requests that are open have met (`AllMet`), and `met` only grows.
* `LinksReplaced`: `LinksInv` is inductive. Whoever is about to store a link has found every valid one
  of its user, and holds it, but for those of requests that it met (`Retiring`): a link it did not find
  was stored after it looked, by a request that was open then. No lock is needed for that,
  since a request that waits is still open.
* `InvitationsAreDecided`: `InvitesInv` is inductive. Whoever holds the lock of an invitation it found pending
  keeps it pending (`HeldPending`), because whoever writes it has to wait for the lock; but `revoke` and the withdrawal of
  an undelivered invitation decide before they have it, and are the exceptions (`Withdraws`).
* `UsersStep`: a user keeps the password but for a reset, and is new only where there was none; either
  is done by whoever has the user's row locked (`Kept`).
* `SessionsStep`: where an open session comes from.
* `SessionsAreRevoked`: `SessionsInv` is inductive. A reset holds, or has found, every open session of its
  user but those whose requests it met (`Revoking`). Whoever is about to open a session knows the current
  password, or met the change (`Opening`); an accepted invitation knows it because it has
  locked the user.

`ServiceMembershipsProofs` holds from the same assumptions.

* `Circling`: nobody waits in a circle but for its `Kin`. `Rank` numbers the statements a transaction with locks can wait
  at: what a request needs is either locked by one of higher rank, or by one of its own rank and kind
  (`WaitsAhead`), so along a chain of waiting requests the rank never falls, and in a circle it is
  the same all around. It rests on `MembersInv`, which adds to `LocksInv` what is locked where (`Fits` and `Aims` in `Staged`):
  a resource's key before its version's (`Keys`), and among the memberships that are locked
  to count the Owners the one that is written next (`Locks`), which depends on ids that
  no two memberships share (`OneMember`) and that the target keeps its organization (`Targeted`).
* `DeadlocksAreNamed`: kin are rivals only if they are after rows of the same user, organization or email.
  `DeadlocksInv` says whose each row is that a request has locked or is about to lock (`Ours`), and that what a
  request remembers is the user it is about (`Told`, `Knows`). The rank holds for every edge, so it says of longer circles,
  too, that all in it are kin; the property and its proof look at circles of two and three, as `Circle` does.
* `OwnersAreRetained`: `OwnersInv` is inductive. That an organization keeps an Owner is decided by what a
  request counted: it has locked all memberships of the organization and one of them is another Owner
  (`Counting`), or its target was no Owner when it looked (`Managed`). What it relies on
  can only be written by a request that has counted too, and then one of the two waits for the other, or by one
  that it met (`Meets`). What is left is the exception of the property: a request whose target
  became an Owner after it looked (`Overtaken`).
* `OwnersAreNamed`: the property is about chains of requests, which a proof without induction over
  data cannot follow. It is stated by sets instead: whatever set has the first
  Owners and everybody whom one of its members names has all Owners. For each such set (`Closed`) the
  invariant `AppointInv` says who is in it: the Owners, the
  invited Owners, and who signed a request that is past its authorization to name one (`Appointed`). A set that is closed
  after a step was closed before it (`ClosedBefore`), since requests and their signers stay; whoever names an Owner was
  an Owner when the role was read, so is in the set, whatever has become of them since.

`WorkstationProofs` holds for every set of commands and options, every machine, any files there are at
the start and any kills and write errors, from `FilesAssumption` (commands are calls of the nine
operations) and `EsciAssumption` (a processed file there is at the start is in its folder).

* `Inductive`: `IInv` is inductive, and implies the types. Each operation is at stages of its own, and what
  it has left to write is to paths of its own (`StagedInv`); a name is of an inode that was made
  for it or for the temporary file that was moved there (`FilesInv`). From `Reach` on no action
  is looked at for what it leaves alone: a step changes only files that its command touches (`Touches`).
* `StepDest`: what a rename puts in place is whole unless two of its writers met. A file is only in the way
  of its command (`Destination`) when another one put it there after the command had looked, and the temporary
  file is its own, open and not written, or whole (`Alone`); whoever interferes has the same destination
  (`TouchDest`), is a writer of it (`WorkersWrite`) and has met the command (`Crossing`). An evaluation writes what its
  configuration names, so that it keeps its input is part of it (`RunsInv`).
* `StepPacket`: with writers that do not meet, none of them killed, a packet is absent, or complete, or
  the one command that is writing it has got so far (`PacketWork`).
* `StepFolder`: a folder has one owner, the command that made it (`FolderInv`), since `mkdir` fails where it is; it goes
  with its files when the owner fails, and when the owner ends well it verifies.
* `FilesAreWhole`: the conjunction, `WholeInv`, is inductive.
* `PublicationsComeFromSource`: the draft is read first and the source verified later, and nothing locks either.
  A folder that verifies lasts (`VerifiedLasts`): its report is written last, and only its owner, that has
  nothing more to write, could change it (`BlankInv`). A draft that was read stays as it was until the folder goes with it
  (`DraftLasts`); if the folder is made again it was by another preparation that crossed the publication, which is the
  exception of the property (`MatchLasts`). So what is about to be
  published is of a source that verified (`SourceInv`). Under the two names of a publication is only
  what it wrote itself or what one that it met did (`PublishInv`); a later one finds the dataset and stops.
* `RunsAreReproducible`, from two more assumptions: the contract of golden datasets wants some case
  (`DistributionAssumption`, `EXPECTED_DISTRIBUTION`) and of `EvaluateAssumption` that the runners of the worker
  have no provider of traces (`execute_job`). Whatever a search system and its fault
  make of a query, a slow answer differs from a fast one in nothing else (`ServedAlike`), and the nine
  symptoms only in the eighth (`SymptomsAlike`), so two results of a case are
  the same unless one of them is blamed for its latency (`ResultsAlike`). What an evaluation has computed is
  that of the cases of a dataset whose hash is valid, and no two of them share an id (`ComputedInv`): the same run id means the same
  cases (`SameConfig`), and the same trace id the same case (`TracesInv`). What it stores
  stays its own from the time it found no artifact (`StoredInv`): who touches the artifact or the temporary file
  works for the same run, and has met it, or comes when the artifact is there (`OthersStored`, `OwnStored`).

`CaseEvaluationProofs` holds for every vocabulary, all catalogs, datasets, search systems and
commands, from the assumptions of `WorkstationProofs` and:
`UnsetAssumption` and `SearchAssumption` (`None` is no number; weights and the limit of the
candidates are natural), `DiscountAssumption` (the discounts of nDCG do not increase with the rank),
`CatalogAssumption` (a catalog is finite, its ids are unique, prices are natural), `ModeAssumption`
(a system has one of the known fault modes) and `EvaluateAssumption` (the catalog and the system of an
evaluation exist, and its cutoff is in the table of discounts).

* `SetInduction`: a set that has 0, and with each number the next, has all natural numbers. It is induction for
  a set, which the provers can use where they cannot for a predicate; it comes from the least number
  that is missing. With it, by the number of elements, a sum over a finite set has a value (`SumsExist`,
  `SumsUnique`), which gains what an element adds (`SumRemove`), and `Ordered` lists each element once,
  in order (`Ranks`, `OrderedIs`). From that follows what a filter keeps (`KeptIs`) and what
  a cutoff leaves (`CutIs`).
* `SearchIs`, `RetrieveIs` and `AnsweredIs` say what a search returns: products of the catalog, each
  once, which satisfy what was understood. `ClassifyIs` says which of the nine
  symptoms is the first.
* `FaultsAreNamed`: where the healthy system passes, no symptom but latency shows
  (`Harmless`), so each fault is looked at for the first symptom that it makes: a product that was let through
  violates a constraint (`ViolationNamed`), a lost product is missed and nothing else is wrong
  (`MissNamed`), a rotation only displaces (`RankingNamed`, which needs that another product
  comes first), a constraint that was dropped is a misread query before it is a bad filter
  (`RegressionNamed`). `FaultNamed` puts the modes together.
* `VerdictsMatch`: nothing is false, missing or displaced exactly if both lists are the same
  (`SameProducts`), where a displacement of zero must not hide an absent product; recall counts what
  is not missing (`FoundAndMissing`). That no ranking beats the ideal one is shown layer by layer
  (`GainInLayers`): the gain of a ranking is a sum over thresholds of the discounts of the places
  whose grade reaches the threshold, the ideal ranking has those places first (`IdealIs`), and
  the first places have the greatest discounts (`FirstAreMost`). `NoBetterRanking` follows,
  with `VerdictTold` for the verdict of the classified runner, `FirstIsRelevant` for the
  source-validated one and `ReviewAgrees` for the script.
* `ResultsAreOfCases`: `JudgedInv` is inductive, and carries the facts about one case to
  the results in memory: each is the result of one case, under one slowness, of a
  dataset that was read as such and that, for the golden runner, validated. It needs to say of a
  command which was only read and which was checked (`Judging`), and the same of
  a review (`Reviewed`), since what an evaluation reads may be replaced on the disk
  the moment after.

Every invariant and action property of a passing run is thus proved. Model-checked only
are liveness (`EventuallyTerminal`, `EventuallyImported`), which the proof system does not
reach, and the six violations.

## 7. Not modelled

* The composition of `RunImport` with the worker. Each of the two is modelled by itself;
  `Import` in `JobWorker` is the commit of the other.
* `operational.py` (latency percentiles, cost, error rate), which is called by its tests
  only, and the aggregates over cases, comparisons and readiness reports, which are computed from
  the modelled values of each case when they are read.
* Normalization and the quality report of catalogs: a catalog is its products.
* Lists, reports, dashboards and the assistant: they read. Validation of
  request bodies: a request that is refused at once changes nothing.
* What a span of a trace contains, redaction, and the HTTP of Langfuse.
* `demo_search_runner.py`, which prints a search; migrations, mailers, seeding and
  configuration; the web console, which forwards requests.
* `total_case_count`, which the executor rewrites with the same number; expiry during a
  request; a worker's `last_seen_at`, which nothing decides on.
