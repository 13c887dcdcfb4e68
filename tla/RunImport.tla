----------------------------- MODULE RunImport ------------------------------
(***************************************************************************)
(* import_run_artifact: an evaluation artifact becomes an object in MinIO  *)
(* and a run with its evidence in PostgreSQL.                              *)
(*                                                                         *)
(* Importers are the attempts of workers and the import_run command.  Each *)
(* is one transaction of many statements under READ COMMITTED, with calls  *)
(* to the object store in the middle that no rollback undoes.  All belong  *)
(* to one organization; run ids hash the configuration but not the project.*)
(***************************************************************************)
EXTENDS Naturals

CONSTANTS
    Importers, Projects, RunIds, Versions,
    Bytes,          \* contents of artifacts, with their result_fingerprint
    RunIdOf,        \* the run_id in an artifact
    VersionOf,      \* the search_system_version, which the run id hashes
    Imports,        \* what is imported: an artifact, into a project
    NoBytes, NoRun, NoImport,
    FileUri,        \* a legacy "file://" artifact_uri
    Legacy,         \* run ids that earlier releases stored with such a uri
    LegacyRun,      \* and their rows
    Damaged,        \* object keys that may hold other bytes than they should
    NumEvidence,    \* case, metric and failure rows of a run
    MaxFaults       \* bound: failures of MinIO, PostgreSQL or the importer

Keys == Projects \X Bytes      \* content_addressed_run_key

\* A committed evaluation_runs row with the number of its evidence rows.
RunRows == [bytes : Bytes, project : Projects, uri : Keys \union {FileUri},
            evidence : 0..NumEvidence]

ASSUME RunImportAssumption ==
    /\ RunIdOf \in [Bytes -> RunIds] /\ VersionOf \in [RunIds -> Versions]
    /\ Imports \subseteq Keys /\ NoImport \notin Keys
    /\ NoBytes \notin Bytes /\ FileUri \notin Keys /\ NoRun \notin RunRows
    /\ Legacy \subseteq RunIds /\ Damaged \subseteq Keys
    /\ LegacyRun \in [Legacy -> RunRows]
    /\ \A id \in Legacy : LegacyRun[id].uri = FileUri /\ LegacyRun[id].evidence = NumEvidence
    /\ NumEvidence \in Nat /\ MaxFaults \in Nat

\* Unique constraints of search_systems, search_system_versions, evaluation_runs.
SystemKey(p) == <<"system", p>>
VersionKey(p, v) == <<"version", p, v>>
RunKey(id) == <<"run", id>>
ParentKeys == {SystemKey(p) : p \in Projects}
              \union {VersionKey(p, v) : p \in Projects, v \in Versions}
UniqueKeys == ParentKeys \union {RunKey(id) : id \in RunIds}

VARIABLES
    parents,    \* committed search_systems and search_system_versions rows
    runs,       \* committed evaluation_runs rows
    objects,    \* the bucket
    pc,         \* where each importer is
    import,     \* what it imports
    inserted,   \* the unique keys its open transaction has inserted
    written,    \* the evidence rows its open transaction has inserted
    seen,       \* the artifact_uri of the existing run it has loaded
    faults      \* failures so far

tables == <<parents, runs>>
session == <<inserted, written, seen>>
vars == <<parents, runs, objects, pc, import, inserted, written, seen, faults>>

Resting == {"idle", "done", "refused", "failed"}
Points == Resting \union
    {"lookup", "findSystem", "newSystem", "findVersion", "newVersion", "stat", "put",
     "verify", "newRun", "evidence", "restat", "reput", "reverify", "relink"}

TypeOK ==
    /\ parents \subseteq ParentKeys
    /\ runs \in [RunIds -> RunRows \union {NoRun}]
    /\ objects \in [Keys -> Bytes \union {NoBytes}]
    /\ pc \in [Importers -> Points]
    /\ import \in [Importers -> Imports \union {NoImport}]
    /\ inserted \in [Importers -> SUBSET UniqueKeys]
    /\ written \in [Importers -> 0..NumEvidence]
    /\ seen \in [Importers -> Keys \union {FileUri}]
    /\ faults \in Nat

\* Nothing but the rows of earlier releases, and the objects that are not what
\* their keys say.
Init ==
    /\ parents = {SystemKey(LegacyRun[id].project) : id \in Legacy}
                 \union {VersionKey(LegacyRun[id].project, VersionOf[id]) : id \in Legacy}
    /\ runs = [id \in RunIds |-> IF id \in Legacy THEN LegacyRun[id] ELSE NoRun]
    /\ objects \in {o \in [Keys -> Bytes \union {NoBytes}] :
                      \A k \in Keys : o[k] = NoBytes \/ (k \in Damaged /\ o[k] # k[2])}
    /\ pc = [i \in Importers |-> "idle"]
    /\ import = [i \in Importers |-> NoImport]
    /\ inserted = [i \in Importers |-> {}]
    /\ written = [i \in Importers |-> 0]
    /\ seen = [i \in Importers |-> FileUri]
    /\ faults = 0

Goto(i, from, to) == /\ pc[i] = from
                     /\ pc' = [pc EXCEPT ![i] = to]
                     /\ UNCHANGED import

\* The session is closed, after a commit or with a rollback.
Close(i, result) ==
    /\ pc' = [pc EXCEPT ![i] = result]
    /\ UNCHANGED import
    /\ inserted' = [inserted EXCEPT ![i] = {}]
    /\ written' = [written EXCEPT ![i] = 0]
    /\ seen' = [seen EXCEPT ![i] = FileUri]

ProjectOf(i) == import[i][1]
BytesOf(i) == import[i][2]
RunId(i) == RunIdOf[BytesOf(i)]
SystemOf(i) == SystemKey(ProjectOf(i))
VersionKeyOf(i) == VersionKey(ProjectOf(i), VersionOf[RunId(i)])

-----------------------------------------------------------------------------
(* The transaction *)

\* An artifact is imported, again if it was before: a job, another job of the
\* same configuration, the command.
Start(i) ==
    /\ pc[i] \in Resting \ {"failed"}
    /\ pc' = [pc EXCEPT ![i] = "lookup"]
    /\ \E m \in Imports : import' = [import EXCEPT ![i] = m]
    /\ UNCHANGED <<tables, objects, session, faults>>

\* The next attempt after one that failed.
Retry(i) == Goto(i, "failed", "lookup") /\ UNCHANGED <<tables, objects, session, faults>>

\* Mutant: the existing run is not looked for.
LookupNone(i) == Goto(i, "lookup", "findSystem") /\ UNCHANGED <<tables, objects, session, faults>>

\* SELECT of the run, and the test that its content is the artifact's.
Lookup(i) ==
    LET run == runs[RunId(i)]
    IN  /\ pc[i] = "lookup"
        /\ \/ run = NoRun /\ Goto(i, "lookup", "findSystem") /\ UNCHANGED seen
           \/ /\ run # NoRun /\ run.bytes # BytesOf(i)
              /\ Goto(i, "lookup", "refused") /\ UNCHANGED seen
           \/ /\ run # NoRun /\ run.bytes = BytesOf(i)
              /\ Goto(i, "lookup", "restat")
              /\ seen' = [seen EXCEPT ![i] = run.uri]
        /\ UNCHANGED <<tables, objects, inserted, written, faults>>

\* A SELECT sees what is committed and what the transaction inserted.
Find(i, from, key, found, absent) ==
    /\ Goto(i, from, IF key \in parents \union inserted[i] THEN found ELSE absent)
    /\ UNCHANGED <<tables, objects, session, faults>>

Stored(key) == key \in parents \/ \E id \in RunIds : key = RunKey(id) /\ runs[id] # NoRun

\* Mutant: no unique constraint.
InsertAnyway(i, from, key, to) ==
    /\ Goto(i, from, to)
    /\ inserted' = [inserted EXCEPT ![i] = @ \union {key}]
    /\ UNCHANGED <<tables, objects, written, seen, faults>>

\* INSERT and flush: waits for an open transaction that inserted the same key,
\* and fails if the key is committed.
InsertRow(i, from, key, to) ==
    /\ pc[i] = from
    /\ \A o \in Importers \ {i} : key \notin inserted[o]
    /\ \/ /\ ~Stored(key)
          /\ Goto(i, from, to)
          /\ inserted' = [inserted EXCEPT ![i] = @ \union {key}]
          /\ UNCHANGED <<written, seen>>
       \/ Stored(key) /\ Close(i, "failed")
    /\ UNCHANGED <<tables, objects, faults>>

\* _search_system_version.
FindSystem(i) ==
    Find(i, "findSystem", SystemOf(i), "findVersion", "newSystem")
NewSystem(i) == InsertRow(i, "newSystem", SystemOf(i), "findVersion")
FindVersion(i) ==
    Find(i, "findVersion", VersionKeyOf(i), "stat", "newVersion")
NewVersion(i) ==
    InsertRow(i, "newVersion", VersionKeyOf(i), "stat")

\* Mutant: an object that exists is taken for the right one.
StatTrusting(i) ==
    LET absent == objects[import[i]] = NoBytes
    IN  /\ \/ Goto(i, "stat", IF absent THEN "put" ELSE "newRun")
           \/ Goto(i, "restat", IF absent THEN "reput" ELSE "relink")
        /\ UNCHANGED <<tables, objects, session, faults>>

\* put_verified: stat_object tells whether the key exists,
Stat(i) ==
    LET absent == objects[import[i]] = NoBytes
    IN  /\ \/ Goto(i, "stat", IF absent THEN "put" ELSE "verify")
           \/ Goto(i, "restat", IF absent THEN "reput" ELSE "reverify")
        /\ UNCHANGED <<tables, objects, session, faults>>

\* and fput_object stores the file under it, whatever is there by then.
Put(i) ==
    /\ \/ Goto(i, "put", "verify")
       \/ Goto(i, "reput", "reverify")
    /\ objects' = [objects EXCEPT ![import[i]] = BytesOf(i)]
    /\ UNCHANGED <<tables, session, faults>>

\* Mutant: what the store returns is not compared.
VerifyNothing(i) ==
    /\ \/ Goto(i, "verify", "newRun")
       \/ Goto(i, "reverify", "relink")
    /\ UNCHANGED <<tables, objects, session, faults>>

\* _verify_object: the object is read back and its hash compared.
Verify(i) ==
    /\ pc[i] \in {"verify", "reverify"}
    /\ \/ /\ objects[import[i]] = BytesOf(i)
          /\ Goto(i, "verify", "newRun") \/ Goto(i, "reverify", "relink")
          /\ UNCHANGED session
       \/ /\ objects[import[i]] # BytesOf(i)
          /\ Close(i, "failed")
    /\ UNCHANGED <<tables, objects, faults>>

NewRun(i) == InsertRow(i, "newRun", RunKey(RunId(i)), "evidence")

\* Mutant: one row too many.
EvidenceTooMany(i) ==
    /\ pc[i] = "evidence" /\ written[i] <= NumEvidence
    /\ written' = [written EXCEPT ![i] = @ + 1]
    /\ UNCHANGED <<tables, objects, pc, import, inserted, seen, faults>>

\* One more case result, metric or failure of the run.
Evidence(i) ==
    /\ pc[i] = "evidence" /\ written[i] < NumEvidence
    /\ written' = [written EXCEPT ![i] = @ + 1]
    /\ UNCHANGED <<tables, objects, pc, import, inserted, seen, faults>>

NewRunRow(i) == [bytes |-> BytesOf(i), project |-> ProjectOf(i), uri |-> import[i],
                 evidence |-> written[i]]

\* Mutant: the parents are left to a later transaction.
CommittedRunOnly(i) == /\ runs' = [runs EXCEPT ![RunId(i)] = NewRunRow(i)]
                       /\ UNCHANGED <<parents, objects>>

\* Everything the transaction inserted becomes visible at once.
Committed(i) == /\ runs' = [runs EXCEPT ![RunId(i)] = NewRunRow(i)]
                /\ parents' = parents \union (inserted[i] \ {RunKey(RunId(i))})
                /\ UNCHANGED objects

\* Mutant: the commit comes before the last case.
CommitEarly(i) ==
    /\ pc[i] = "evidence"
    /\ Committed(i)
    /\ Close(i, "done")
    /\ UNCHANGED faults

Commit(i) ==
    /\ pc[i] = "evidence" /\ written[i] = NumEvidence
    /\ Committed(i)
    /\ Close(i, "done")
    /\ UNCHANGED faults

\* The existing run keeps its uri, is refused for it, or is promoted from a
\* file, as the uri was when the run was looked up.
Relink(i) ==
    /\ pc[i] = "relink"
    /\ \/ seen[i] = import[i] /\ Close(i, "done") /\ UNCHANGED runs
       \/ seen[i] \notin {import[i], FileUri} /\ Close(i, "refused") /\ UNCHANGED runs
       \/ /\ seen[i] = FileUri /\ Close(i, "done")
          /\ runs' = [runs EXCEPT ![RunId(i)].uri = import[i]]
    /\ UNCHANGED <<parents, objects, faults>>

\* MinIO, PostgreSQL or the process fails at any point of the transaction.
Fault(i) ==
    /\ pc[i] \notin Resting /\ faults < MaxFaults
    /\ faults' = faults + 1
    /\ Close(i, "failed")
    /\ UNCHANGED <<tables, objects>>

\* The commit is applied but the importer sees a failure.
CommitAckLost(i) ==
    /\ pc[i] = "evidence" /\ written[i] = NumEvidence /\ faults < MaxFaults
    /\ faults' = faults + 1
    /\ Committed(i)
    /\ Close(i, "failed")

Step(i) == Lookup(i) \/ FindSystem(i) \/ NewSystem(i) \/ FindVersion(i) \/ NewVersion(i)
           \/ Stat(i) \/ Put(i) \/ Verify(i) \/ NewRun(i) \/ Evidence(i) \/ Commit(i)
           \/ Relink(i)

Next == \E i \in Importers :
            Start(i) \/ Retry(i) \/ Step(i) \/ Fault(i) \/ CommitAckLost(i)

Spec == Init /\ [][Next]_vars

\* An import that began goes on, with a lock it waits for once that is released
\* often enough (PostgreSQL wakes who waits); one that failed is tried again.
Fairness == \A i \in Importers : SF_vars(Step(i) \/ Retry(i))
FairSpec == Spec /\ Fairness

-----------------------------------------------------------------------------
(* Properties *)

\* Every uri in the database leads to an object with the bytes of its run: the
\* object is put and read back before the row that names it is committed.
ArtifactStored ==
    \A id \in RunIds : runs[id] # NoRun /\ runs[id].uri # FileUri =>
        objects[runs[id].uri] = runs[id].bytes

\* A run is never seen without all of its evidence, whenever its importer fails.
EvidenceComplete == \A id \in RunIds : runs[id] # NoRun => runs[id].evidence = NumEvidence

\* Runs have their search system and its version, whoever inserted them.
ParentsStored ==
    \A id \in RunIds : runs[id] # NoRun =>
        {SystemKey(runs[id].project), VersionKey(runs[id].project, VersionOf[id])}
            \subseteq parents

\* Whoever was told that its run is stored finds its own content under the id,
\* from then on.
DoneMeansStored ==
    \A i \in Importers : pc[i] = "done" =>
        runs[RunId(i)] # NoRun /\ runs[RunId(i)].bytes = BytesOf(i)

\* Where a version exists for the importer, and where it may have inserted rows.
HasVersion == {"stat", "put", "verify", "newRun", "evidence"}
Inserting == HasVersion \union {"findVersion", "newVersion"}

\* What a transaction has inserted is its own, and nobody else has it.
InsertedIsOwn(i) ==
    /\ pc[i] \notin Inserting => inserted[i] = {}
    /\ pc[i] \in Inserting =>
          inserted[i] \subseteq {SystemOf(i), VersionKeyOf(i), RunKey(RunId(i))}
    /\ pc[i] = "evidence" => RunKey(RunId(i)) \in inserted[i]
    /\ \A key \in inserted[i] : ~Stored(key)
    /\ \A o \in Importers \ {i} : inserted[i] \intersect inserted[o] = {}

\* What a transaction found or verified on its way is still so.
FindingsHold(i) ==
    /\ pc[i] # "idle" => import[i] \in Imports
    /\ pc[i] \in Inserting => SystemOf(i) \in parents \union inserted[i]
    /\ pc[i] \in HasVersion => VersionKeyOf(i) \in parents \union inserted[i]
    /\ pc[i] \in {"newRun", "evidence", "relink"} => objects[import[i]] = BytesOf(i)
    /\ pc[i] \in {"restat", "reput", "reverify", "relink", "done"} =>
          runs[RunId(i)] # NoRun /\ runs[RunId(i)].bytes = BytesOf(i)

\* A uri names the bytes that its object holds.
UrisHold ==
    \A id \in RunIds : runs[id] # NoRun /\ runs[id].uri # FileUri =>
        /\ runs[id].uri[2] = runs[id].bytes
        /\ objects[runs[id].uri] = runs[id].bytes

\* The inductive invariant: while a transaction is open, what it read and what it
\* inserted are not taken from it, although it holds no lock on what it read.
Consistency == /\ TypeOK
               /\ \A i \in Importers : InsertedIsOwn(i) /\ FindingsHold(i)
               /\ UrisHold
               /\ EvidenceComplete
               /\ ParentsStored

\* "Reusing a run ID with different immutable content is rejected": a stored run
\* keeps its content, project and evidence, however imports of its id interleave.
RunImmutable ==
    [][\A id \in RunIds : runs[id] # NoRun =>
          /\ runs'[id] # NoRun
          /\ runs'[id].bytes = runs[id].bytes
          /\ runs'[id].project = runs[id].project
          /\ runs'[id].evidence = runs[id].evidence]_vars

\* Importers that race for systems, versions and runs neither block each other
\* for good nor fail forever, if the store has the right bytes under their key.
EventuallyImported ==
    \A i \in Importers : pc[i] = "lookup" /\ import[i] \notin Damaged
                         ~> pc[i] \in {"done", "refused"}

\* "The import is idempotent for identical bytes and fingerprints": nobody is
\* refused but for other content.
IdenticalAccepted ==
    \A i \in Importers : pc[i] = "refused" => runs[RunId(i)].bytes # BytesOf(i)
=============================================================================
