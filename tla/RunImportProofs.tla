-------------------------- MODULE RunImportProofs ---------------------------
(***************************************************************************)
(* Consistency is inductive, for any importers, artifacts and projects, any *)
(* number of evidence rows and any number of failures; what is stored is    *)
(* immutable and complete because of it.                                    *)
(***************************************************************************)
EXTENDS RunImport, TLAPS

\* The unique keys have the types that the constraints have columns for.
LEMMA KeyTypes ==
    ASSUME NEW p \in Projects, NEW v \in Versions, NEW id \in RunIds
    PROVE  /\ SystemKey(p) \in ParentKeys
           /\ VersionKey(p, v) \in ParentKeys
           /\ RunKey(id) \in UniqueKeys
           /\ ParentKeys \subseteq UniqueKeys
  BY DEF SystemKey, VersionKey, RunKey, ParentKeys, UniqueKeys

\* What an import names exists.
LEMMA ImportTypes ==
    ASSUME NEW i \in Importers, import[i] \in Imports
    PROVE  /\ import[i] \in Keys
           /\ ProjectOf(i) \in Projects /\ BytesOf(i) \in Bytes /\ RunId(i) \in RunIds
           /\ SystemOf(i) \in ParentKeys /\ VersionKeyOf(i) \in ParentKeys
           /\ RunKey(RunId(i)) \in UniqueKeys /\ ParentKeys \subseteq UniqueKeys
  <1>1. import[i] \in Keys
    BY RunImportAssumption
  <1>2. ProjectOf(i) \in Projects /\ BytesOf(i) \in Bytes
    BY <1>1 DEF Keys, ProjectOf, BytesOf
  <1>3. RunId(i) \in RunIds /\ VersionOf[RunId(i)] \in Versions
    BY <1>2, RunImportAssumption DEF RunId
  <1> QED
    BY <1>1, <1>2, <1>3, KeyTypes DEF SystemOf, VersionKeyOf

\* The rows of earlier releases are consistent.
LEMMA InitConsistent == Init => Consistency
  <1> SUFFICES ASSUME Init
               PROVE  Consistency
    OBVIOUS
  <1>1. \A id \in Legacy : /\ LegacyRun[id] \in RunRows /\ LegacyRun[id].uri = FileUri
                           /\ LegacyRun[id].project \in Projects
                           /\ LegacyRun[id].evidence = NumEvidence
                           /\ VersionOf[id] \in Versions
    BY RunImportAssumption DEF RunRows
  <1>2. parents \subseteq ParentKeys
    BY <1>1, KeyTypes DEF Init, ParentKeys
  <1>3. runs \in [RunIds -> RunRows \union {NoRun}]
    BY <1>1 DEF Init
  <1>4. TypeOK
    BY <1>2, <1>3, RunImportAssumption DEF Init, TypeOK, Points, Resting
  <1>5. ASSUME NEW i \in Importers
        PROVE  InsertedIsOwn(i) /\ FindingsHold(i)
    BY DEF Init, InsertedIsOwn, FindingsHold, Inserting, HasVersion
  <1>6. \A id \in RunIds : runs[id] # NoRun => id \in Legacy /\ runs[id] = LegacyRun[id]
    BY DEF Init
  <1>7. UrisHold
    BY <1>1, <1>6 DEF UrisHold
  <1>8. EvidenceComplete
    BY <1>1, <1>6 DEF EvidenceComplete
  <1>9. ParentsStored
    BY <1>6 DEF ParentsStored, Init
  <1> QED
    BY <1>4, <1>5, <1>7, <1>8, <1>9 DEF Consistency
\* A step of one importer that stores nothing disturbs nobody else.
LEMMA LocalStep ==
    ASSUME Consistency, NEW i \in Importers, TypeOK',
           UNCHANGED <<tables, objects>>,
           \A j \in Importers \ {i} : /\ pc'[j] = pc[j] /\ import'[j] = import[j]
                                      /\ inserted'[j] = inserted[j],
           InsertedIsOwn(i)', FindingsHold(i)'
    PROVE  Consistency'
  <1>1. \A key : Stored(key)' <=> Stored(key)
    BY DEF Stored, tables
  <1>2. ASSUME NEW j \in Importers
        PROVE  InsertedIsOwn(j)' /\ FindingsHold(j)'
    <2>1. CASE j = i
      BY <2>1
    <2>2. CASE j # i
      <3>1. InsertedIsOwn(j) /\ FindingsHold(j)
        BY DEF Consistency
      <3>2. /\ pc'[j] = pc[j] /\ import'[j] = import[j]
            /\ inserted'[j] = inserted[j]
        BY <2>2
      <3>3. /\ SystemOf(j)' = SystemOf(j) /\ VersionKeyOf(j)' = VersionKeyOf(j)
            /\ RunId(j)' = RunId(j) /\ BytesOf(j)' = BytesOf(j)
        BY <3>2 DEF SystemOf, VersionKeyOf, RunId, BytesOf, ProjectOf
      <3>4. \A o \in Importers \ {j} : inserted'[j] \intersect inserted'[o] = {}
        BY <2>2, <3>1, <3>2 DEF InsertedIsOwn
      <3>5. InsertedIsOwn(j)'
        BY <1>1, <3>1, <3>2, <3>3, <3>4 DEF InsertedIsOwn
      <3>6. FindingsHold(j)'
        BY <3>1, <3>2, <3>3 DEF FindingsHold, tables
      <3> QED
        BY <3>5, <3>6
    <2> QED
      BY <2>1, <2>2
  <1>3. UrisHold' /\ EvidenceComplete' /\ ParentsStored'
    BY DEF Consistency, UrisHold, EvidenceComplete, ParentsStored, tables
  <1> QED
    BY <1>2, <1>3 DEF Consistency

\* A rollback leaves the tables as they were, and the session empty.
LEMMA RollbackStep ==
    ASSUME Consistency, NEW i \in Importers, NEW result \in {"done", "refused", "failed"},
           pc[i] \notin Resting, Close(i, result), UNCHANGED <<tables, objects>>,
           faults' \in Nat,
           result = "done" => pc[i] = "relink"
    PROVE  Consistency'
  <1>1. InsertedIsOwn(i) /\ FindingsHold(i) /\ TypeOK
    BY DEF Consistency
  <1>2. /\ pc'[i] = result /\ import' = import /\ inserted'[i] = {}
        /\ \A j \in Importers \ {i} : pc'[j] = pc[j] /\ inserted'[j] = inserted[j]
    BY <1>1 DEF Close, TypeOK
  <1>3. TypeOK'
    BY <1>1, RunImportAssumption DEF TypeOK, Close, tables, Points, Resting
  <1>4. InsertedIsOwn(i)'
    BY <1>2 DEF InsertedIsOwn, Inserting, HasVersion
  <1>5. /\ BytesOf(i)' = BytesOf(i) /\ RunId(i)' = RunId(i)
        /\ pc[i] # "idle"
    BY <1>2 DEF BytesOf, RunId, Resting
  <1>6. FindingsHold(i)'
    BY <1>1, <1>2, <1>5 DEF FindingsHold, Inserting, HasVersion, tables
  <1> QED
    BY <1>2, <1>3, <1>4, <1>6, LocalStep

\* Going on in the transaction, with what it has inserted.
LEMMA GotoStep ==
    ASSUME Consistency, NEW i \in Importers, NEW from \in Points, NEW to \in Points,
           Goto(i, from, to), UNCHANGED <<tables, objects, inserted, written>>,
           seen' \in [Importers -> Keys \union {FileUri}], faults' \in Nat,
           from # "idle", to # "idle", to # "evidence", to # "done",
           from \in Inserting => to \in Inserting,
           to \in Inserting => SystemOf(i) \in parents \union inserted[i],
           to \in HasVersion => VersionKeyOf(i) \in parents \union inserted[i],
           to \in {"newRun", "relink"} => objects[import[i]] = BytesOf(i),
           to \in {"restat", "reput", "reverify", "relink"} =>
              runs[RunId(i)] # NoRun /\ runs[RunId(i)].bytes = BytesOf(i)
    PROVE  Consistency'
  <1>1. InsertedIsOwn(i) /\ FindingsHold(i) /\ TypeOK
    BY DEF Consistency
  <1>2. /\ pc[i] = from /\ pc'[i] = to /\ import' = import /\ inserted' = inserted
        /\ \A j \in Importers \ {i} : pc'[j] = pc[j]
    BY <1>1 DEF Goto, TypeOK
  <1>3. TypeOK'
    BY <1>1 DEF TypeOK, Goto, tables
  <1>4. /\ BytesOf(i)' = BytesOf(i) /\ RunId(i)' = RunId(i)
        /\ SystemOf(i)' = SystemOf(i) /\ VersionKeyOf(i)' = VersionKeyOf(i)
    BY <1>2 DEF BytesOf, RunId, SystemOf, VersionKeyOf, ProjectOf
  <1>5. \A key : Stored(key)' <=> Stored(key)
    BY DEF Stored, tables
  <1>6. InsertedIsOwn(i)'
    BY <1>1, <1>2, <1>4, <1>5 DEF InsertedIsOwn
  <1>7. FindingsHold(i)'
    BY <1>1, <1>2, <1>4 DEF FindingsHold, tables
  <1> QED
    BY <1>2, <1>3, <1>6, <1>7, LocalStep

\* Reads and the starts of imports.
LEMMA ReadsConsistent ==
    ASSUME Consistency, NEW i \in Importers,
           Start(i) \/ Retry(i) \/ Lookup(i) \/ FindSystem(i) \/ FindVersion(i) \/ Stat(i)
    PROVE  Consistency'
  <1> USE DEF Inserting, HasVersion
  <1>1. InsertedIsOwn(i) /\ FindingsHold(i) /\ TypeOK
    BY DEF Consistency
  <1>2. /\ faults \in Nat /\ seen \in [Importers -> Keys \union {FileUri}]
        /\ pc[i] \in Points
    BY <1>1 DEF TypeOK
  <1>3. CASE Start(i)
    <2>1. PICK m \in Imports : import' = [import EXCEPT ![i] = m]
      BY <1>3 DEF Start
    <2>2. /\ pc'[i] = "lookup" /\ import'[i] = m /\ inserted' = inserted /\ pc[i] \in Resting
          /\ \A j \in Importers \ {i} : pc'[j] = pc[j] /\ import'[j] = import[j]
          /\ UNCHANGED <<tables, objects>>
      BY <1>1, <1>3, <2>1 DEF Start, TypeOK, session
    <2>3. TypeOK'
      BY <1>1, <1>3, <2>1 DEF Start, TypeOK, session, tables, Points
    <2>4. InsertedIsOwn(i)'
      BY <1>1, <2>2 DEF InsertedIsOwn, Resting
    <2>5. FindingsHold(i)'
      BY <2>2 DEF FindingsHold
    <2> QED
      BY <2>2, <2>3, <2>4, <2>5, LocalStep
  <1>4. CASE Retry(i)
    BY <1>2, <1>4, GotoStep DEF Retry, session, Points, Resting
  <1>5. CASE Lookup(i)
    <2>1. CASE runs[RunId(i)] = NoRun /\ Goto(i, "lookup", "findSystem") /\ UNCHANGED seen
      BY <1>2, <1>5, <2>1, GotoStep DEF Lookup, Points
    <2>2. CASE /\ runs[RunId(i)] # NoRun /\ runs[RunId(i)].bytes # BytesOf(i)
               /\ Goto(i, "lookup", "refused") /\ UNCHANGED seen
      BY <1>2, <1>5, <2>2, GotoStep DEF Lookup, Points, Resting
    <2>3. CASE /\ runs[RunId(i)] # NoRun /\ runs[RunId(i)].bytes = BytesOf(i)
               /\ Goto(i, "lookup", "restat")
               /\ seen' = [seen EXCEPT ![i] = runs[RunId(i)].uri]
      <3>1. import[i] \in Imports
        BY <1>1, <2>3 DEF FindingsHold, Goto
      <3>2. runs[RunId(i)].uri \in Keys \union {FileUri}
        BY <1>1, <2>3, <3>1, ImportTypes DEF TypeOK, RunRows
      <3>3. seen' \in [Importers -> Keys \union {FileUri}]
        BY <1>2, <2>3, <3>2
      <3> QED
        BY <1>2, <1>5, <2>3, <3>3, GotoStep DEF Lookup, Points
    <2> QED
      BY <1>5, <2>1, <2>2, <2>3 DEF Lookup
  <1>6. CASE FindSystem(i)
    <2>1. CASE SystemOf(i) \in parents \union inserted[i]
      BY <1>2, <1>6, <2>1, GotoStep DEF FindSystem, Find, session, Points
    <2>2. CASE SystemOf(i) \notin parents \union inserted[i]
      BY <1>2, <1>6, <2>2, GotoStep DEF FindSystem, Find, session, Points
    <2> QED
      BY <2>1, <2>2
  <1>7. CASE FindVersion(i)
    <2>1. pc[i] = "findVersion" /\ SystemOf(i) \in parents \union inserted[i]
      BY <1>1, <1>7 DEF FindVersion, Find, Goto, FindingsHold
    <2>2. CASE VersionKeyOf(i) \in parents \union inserted[i]
      BY <1>2, <1>7, <2>1, <2>2, GotoStep DEF FindVersion, Find, session, Points
    <2>3. CASE VersionKeyOf(i) \notin parents \union inserted[i]
      BY <1>2, <1>7, <2>1, <2>3, GotoStep DEF FindVersion, Find, session, Points
    <2> QED
      BY <2>2, <2>3
  <1>8. CASE Stat(i)
    <2>1. CASE pc[i] = "stat"
      <3>1. PICK to \in {"put", "verify"} : Goto(i, "stat", to)
        BY <1>8, <2>1 DEF Stat, Goto
      <3> QED
        BY <1>1, <1>2, <1>8, <2>1, <3>1, GotoStep DEF Stat, session, Points, FindingsHold
    <2>2. CASE pc[i] = "restat"
      <3>1. PICK to \in {"reput", "reverify"} : Goto(i, "restat", to)
        BY <1>8, <2>2 DEF Stat, Goto
      <3> QED
        BY <1>1, <1>2, <1>8, <2>2, <3>1, GotoStep DEF Stat, session, Points, FindingsHold
    <2> QED
      BY <1>8, <2>1, <2>2 DEF Stat, Goto
  <1> QED
    BY <1>3, <1>4, <1>5, <1>6, <1>7, <1>8

\* Failures leave a rolled back transaction.
LEMMA FaultConsistent ==
    ASSUME Consistency, NEW i \in Importers, Fault(i)
    PROVE  Consistency'
  <1>1. faults' \in Nat
    BY DEF Fault, Consistency, TypeOK
  <1> QED
    BY <1>1, RollbackStep DEF Fault

\* The object of a key is verified before anything refers to it.
LEMMA VerifyConsistent ==
    ASSUME Consistency, NEW i \in Importers, Verify(i)
    PROVE  Consistency'
  <1> USE DEF Inserting, HasVersion
  <1>1. FindingsHold(i) /\ TypeOK
    BY DEF Consistency
  <1>2. /\ faults' \in Nat /\ seen \in [Importers -> Keys \union {FileUri}]
        /\ pc[i] \in {"verify", "reverify"}
    BY <1>1 DEF TypeOK, Verify
  <1>3. CASE objects[import[i]] # BytesOf(i) /\ Close(i, "failed")
    BY <1>2, <1>3, RollbackStep DEF Verify, Resting
  <1>4. CASE objects[import[i]] = BytesOf(i) /\ Goto(i, "verify", "newRun") /\ UNCHANGED session
    BY <1>1, <1>2, <1>4, GotoStep DEF Verify, session, Points, FindingsHold, Goto
  <1>5. CASE objects[import[i]] = BytesOf(i) /\ Goto(i, "reverify", "relink") /\ UNCHANGED session
    BY <1>1, <1>2, <1>5, GotoStep DEF Verify, session, Points, FindingsHold, Goto
  <1> QED
    BY <1>3, <1>4, <1>5 DEF Verify

\* Storing an object takes nothing from who has verified it: its key says what
\* it holds.
LEMMA PutConsistent ==
    ASSUME Consistency, NEW i \in Importers, Put(i)
    PROVE  Consistency'
  <1> USE DEF Inserting, HasVersion
  <1>1. InsertedIsOwn(i) /\ FindingsHold(i) /\ TypeOK
    BY DEF Consistency
  <1>2. PICK to \in {"verify", "reverify"} :
            /\ Goto(i, pc[i], to)
            /\ \/ pc[i] = "put" /\ to = "verify"
               \/ pc[i] = "reput" /\ to = "reverify"
    <2>1. CASE Goto(i, "put", "verify")
      BY <2>1 DEF Goto
    <2>2. CASE Goto(i, "reput", "reverify")
      BY <2>2 DEF Goto
    <2> QED
      BY <2>1, <2>2 DEF Put
  <1>3. /\ pc'[i] = to /\ import' = import /\ inserted' = inserted
        /\ \A j \in Importers \ {i} : pc'[j] = pc[j]
        /\ UNCHANGED <<parents, runs, written, seen, faults>>
    BY <1>1, <1>2 DEF Put, Goto, TypeOK, session, tables
  <1>4. import[i] \in Keys /\ BytesOf(i) \in Bytes
    BY <1>1, <1>2, ImportTypes DEF FindingsHold
  <1>5. TypeOK'
    BY <1>1, <1>2, <1>3, <1>4 DEF Put, Goto, TypeOK, Points
  <1>6. \A k \in Keys : objects[k] = k[2] => objects'[k] = k[2]
    BY <1>1, <1>4 DEF Put, TypeOK, BytesOf
  <1>7. ASSUME NEW j \in Importers
        PROVE  InsertedIsOwn(j)' /\ FindingsHold(j)'
    <2>1. InsertedIsOwn(j) /\ FindingsHold(j)
      BY DEF Consistency
    <2>2. /\ BytesOf(j)' = BytesOf(j) /\ RunId(j)' = RunId(j)
          /\ SystemOf(j)' = SystemOf(j) /\ VersionKeyOf(j)' = VersionKeyOf(j)
      BY <1>3 DEF BytesOf, RunId, SystemOf, VersionKeyOf, ProjectOf
    <2>3. \A key : Stored(key)' <=> Stored(key)
      BY <1>3 DEF Stored
    <2>4. /\ pc'[j] \in Inserting <=> pc[j] \in Inserting
          /\ pc'[j] \in HasVersion <=> pc[j] \in HasVersion
          /\ pc'[j] # "idle" => pc[j] # "idle"
          /\ pc'[j] = "evidence" => pc[j] = "evidence"
          /\ pc'[j] \in {"newRun", "evidence", "relink"} =>
                pc[j] \in {"newRun", "evidence", "relink"}
          /\ pc'[j] \in {"restat", "reput", "reverify", "relink", "done"} =>
                pc[j] \in {"restat", "reput", "reverify", "relink", "done"}
      BY <1>2, <1>3
    <2>5. InsertedIsOwn(j)'
      BY <1>3, <2>1, <2>2, <2>3, <2>4 DEF InsertedIsOwn
    <2>6. pc'[j] \in {"newRun", "evidence", "relink"} => objects'[import[j]] = BytesOf(j)
      <3> SUFFICES ASSUME pc'[j] \in {"newRun", "evidence", "relink"}
                   PROVE  objects'[import[j]] = BytesOf(j)
        OBVIOUS
      <3>1. import[j] \in Keys
        BY <2>1, <2>4, ImportTypes DEF FindingsHold
      <3> QED
        BY <1>6, <2>1, <2>4, <3>1 DEF FindingsHold, BytesOf
    <2>7. FindingsHold(j)'
      BY <1>3, <2>1, <2>2, <2>4, <2>6 DEF FindingsHold
    <2> QED
      BY <2>5, <2>7
  <1>8. UrisHold'
    <2> SUFFICES ASSUME NEW id \in RunIds, runs[id] # NoRun, runs[id].uri # FileUri
                 PROVE  /\ runs[id].uri[2] = runs[id].bytes
                        /\ objects'[runs[id].uri] = runs[id].bytes
      BY <1>3 DEF UrisHold
    <2>1. runs[id].uri \in Keys
      BY <1>1 DEF TypeOK, RunRows
    <2> QED
      BY <1>6, <2>1 DEF Consistency, UrisHold
  <1>9. EvidenceComplete' /\ ParentsStored'
    BY <1>3 DEF Consistency, EvidenceComplete, ParentsStored
  <1> QED
    BY <1>5, <1>7, <1>8, <1>9 DEF Consistency

\* Inserting a row, unless it is stored: the constraint keeps it from the others.
LEMMA InsertConsistent ==
    ASSUME Consistency, NEW i \in Importers, NEW from \in Inserting \union {"newSystem"},
           NEW key \in UniqueKeys, NEW to \in {"findVersion", "stat", "evidence"},
           InsertRow(i, from, key, to),
           key \in {SystemOf(i), VersionKeyOf(i), RunKey(RunId(i))},
           to = "evidence" => from = "newRun" /\ key = RunKey(RunId(i)),
           SystemOf(i) \in parents \union inserted[i] \union {key},
           to # "findVersion" => VersionKeyOf(i) \in parents \union inserted[i] \union {key}
    PROVE  Consistency'
  <1>1. InsertedIsOwn(i) /\ FindingsHold(i) /\ TypeOK
    BY DEF Consistency
  <1>2. pc[i] = from /\ UNCHANGED <<tables, objects, faults>> /\ pc[i] \notin Resting
    BY DEF InsertRow, Inserting, HasVersion, Resting
  <1>3. CASE Stored(key) /\ Close(i, "failed")
    <2>1. faults' \in Nat
      BY <1>1, <1>2 DEF TypeOK
    <2> QED
      BY <1>2, <1>3, <2>1, RollbackStep
  <1>4. CASE /\ ~Stored(key) /\ Goto(i, from, to)
             /\ inserted' = [inserted EXCEPT ![i] = @ \union {key}]
             /\ UNCHANGED <<written, seen>>
    <2>1. /\ pc'[i] = to /\ import' = import /\ inserted'[i] = inserted[i] \union {key}
          /\ \A j \in Importers \ {i} : pc'[j] = pc[j] /\ inserted'[j] = inserted[j]
      BY <1>1, <1>4 DEF Goto, TypeOK
    <2>2. TypeOK'
      BY <1>1, <1>2, <1>4 DEF TypeOK, Goto, tables, Points
    <2>3. /\ BytesOf(i)' = BytesOf(i) /\ RunId(i)' = RunId(i)
          /\ SystemOf(i)' = SystemOf(i) /\ VersionKeyOf(i)' = VersionKeyOf(i)
      BY <2>1 DEF BytesOf, RunId, SystemOf, VersionKeyOf, ProjectOf
    <2>4. \A k : Stored(k)' <=> Stored(k)
      BY <1>2 DEF Stored, tables
    <2>5. to \in Inserting /\ (to # "findVersion" <=> to \in HasVersion) /\ to # "idle"
      BY DEF Inserting, HasVersion
    <2>6. inserted[i] \subseteq {SystemOf(i), VersionKeyOf(i), RunKey(RunId(i))}
      BY <1>1 DEF InsertedIsOwn
    <2>7. \A o \in Importers \ {i} : inserted'[i] \intersect inserted'[o] = {}
      BY <1>1, <2>1 DEF InsertedIsOwn, InsertRow
    <2>8. InsertedIsOwn(i)'
      BY <1>1, <1>4, <2>1, <2>3, <2>4, <2>5, <2>6, <2>7 DEF InsertedIsOwn
    <2>9. FindingsHold(i)'
      <3>1. pc[i] # "idle"
        BY <1>2 DEF Resting
      <3>2. to = "evidence" => objects[import[i]] = BytesOf(i)
        BY <1>1, <1>2 DEF FindingsHold
      <3> QED
        BY <1>1, <1>2, <2>1, <2>3, <2>5, <3>1, <3>2 DEF FindingsHold, tables
    <2> QED
      BY <1>2, <2>1, <2>2, <2>8, <2>9, LocalStep
  <1> QED
    BY <1>3, <1>4 DEF InsertRow

\* The three places where a row with a unique key is inserted, and the evidence.
LEMMA InsertsConsistent ==
    ASSUME Consistency, NEW i \in Importers,
           NewSystem(i) \/ NewVersion(i) \/ NewRun(i) \/ Evidence(i)
    PROVE  Consistency'
  <1> USE DEF Inserting, HasVersion
  <1>1. InsertedIsOwn(i) /\ FindingsHold(i) /\ TypeOK
    BY DEF Consistency
  <1>2. pc[i] \in {"newSystem", "newVersion", "newRun", "evidence"}
    BY DEF NewSystem, NewVersion, NewRun, InsertRow, Evidence
  <1>3. /\ SystemOf(i) \in UniqueKeys /\ VersionKeyOf(i) \in UniqueKeys
        /\ RunKey(RunId(i)) \in UniqueKeys
    BY <1>1, <1>2, ImportTypes DEF FindingsHold
  <1>4. CASE NewSystem(i)
    BY <1>3, <1>4, InsertConsistent DEF NewSystem
  <1>5. CASE NewVersion(i)
    <2>1. pc[i] = "newVersion"
      BY <1>5 DEF NewVersion, InsertRow
    <2> QED
      BY <1>1, <1>3, <1>5, <2>1, InsertConsistent DEF NewVersion, FindingsHold
  <1>6. CASE NewRun(i)
    <2>1. pc[i] = "newRun"
      BY <1>6 DEF NewRun, InsertRow
    <2> QED
      BY <1>1, <1>3, <1>6, <2>1, InsertConsistent DEF NewRun, FindingsHold
  <1>7. CASE Evidence(i)
    <2>1. /\ UNCHANGED <<tables, objects, pc, import, inserted, seen, faults>>
          /\ written' = [written EXCEPT ![i] = @ + 1] /\ written[i] < NumEvidence
      BY <1>7 DEF Evidence
    <2>2. TypeOK'
      BY <1>1, <2>1, RunImportAssumption DEF TypeOK, tables
    <2>3. InsertedIsOwn(i)'
      BY <1>1, <2>1 DEF InsertedIsOwn, Stored, tables, SystemOf, VersionKeyOf, RunId,
                        BytesOf, ProjectOf
    <2>4. FindingsHold(i)'
      BY <1>1, <2>1 DEF FindingsHold, tables, SystemOf, VersionKeyOf, RunId, BytesOf, ProjectOf
    <2> QED
      BY <2>1, <2>2, <2>3, <2>4, LocalStep
  <1> QED
    BY <1>4, <1>5, <1>6, <1>7

\* The row a commit stores is new, and has all its evidence and its parents.
LEMMA CommitConsistent ==
    ASSUME Consistency, NEW i \in Importers, NEW result \in {"done", "failed"},
           pc[i] = "evidence", written[i] = NumEvidence, Committed(i), Close(i, result),
           faults' \in Nat
    PROVE  Consistency' /\ runs[RunId(i)] = NoRun
  <1> DEFINE id == RunId(i)
  <1>1. InsertedIsOwn(i) /\ FindingsHold(i) /\ TypeOK
    BY DEF Consistency
  <1>2. import[i] \in Imports /\ pc[i] \in Inserting /\ pc[i] \in HasVersion
    BY <1>1 DEF FindingsHold, Inserting, HasVersion
  <1>3. /\ import[i] \in Keys /\ ProjectOf(i) \in Projects /\ BytesOf(i) \in Bytes
        /\ id \in RunIds /\ SystemOf(i) \in ParentKeys /\ VersionKeyOf(i) \in ParentKeys
    BY <1>2, ImportTypes
  <1>4. RunKey(id) \in inserted[i] /\ ~Stored(RunKey(id)) /\ runs[id] = NoRun
    BY <1>1, <1>3 DEF InsertedIsOwn, Stored
  <1>5. /\ NewRunRow(i) \in RunRows /\ NewRunRow(i) # NoRun
        /\ NewRunRow(i).bytes = BytesOf(i) /\ NewRunRow(i).project = ProjectOf(i)
        /\ NewRunRow(i).uri = import[i] /\ NewRunRow(i).evidence = NumEvidence
    BY <1>1, <1>3, RunImportAssumption DEF NewRunRow, RunRows, TypeOK
  <1>6. /\ pc'[i] = result /\ import' = import /\ inserted'[i] = {} /\ objects' = objects
        /\ \A j \in Importers \ {i} : pc'[j] = pc[j] /\ inserted'[j] = inserted[j]
        /\ runs'[id] = NewRunRow(i)
        /\ \A d \in RunIds \ {id} : runs'[d] = runs[d]
        /\ parents' = parents \union (inserted[i] \ {RunKey(id)})
    BY <1>1, <1>3 DEF Close, TypeOK, Committed
  <1>7. SystemOf(i) \in parents' /\ VersionKeyOf(i) \in parents'
    <2>1. SystemOf(i) # RunKey(id) /\ VersionKeyOf(i) # RunKey(id)
      BY DEF SystemOf, VersionKeyOf, SystemKey, VersionKey, RunKey
    <2> QED
      BY <1>1, <1>2, <1>6, <2>1 DEF FindingsHold
  <1>8. TypeOK'
    <2>1. parents' \subseteq ParentKeys
      BY <1>1, <1>2, <1>3, <1>6 DEF InsertedIsOwn, TypeOK
    <2>2. runs' \in [RunIds -> RunRows \union {NoRun}]
      BY <1>1, <1>3, <1>5 DEF TypeOK, Committed
    <2> QED
      BY <1>1, <1>6, <2>1, <2>2, RunImportAssumption DEF TypeOK, Close, Points, Resting
  <1>9. ASSUME NEW j \in Importers
        PROVE  InsertedIsOwn(j)' /\ FindingsHold(j)'
    <2>1. InsertedIsOwn(j) /\ FindingsHold(j)
      BY DEF Consistency
    <2>2. /\ BytesOf(j)' = BytesOf(j) /\ RunId(j)' = RunId(j)
          /\ SystemOf(j)' = SystemOf(j) /\ VersionKeyOf(j)' = VersionKeyOf(j)
      BY <1>6 DEF BytesOf, RunId, SystemOf, VersionKeyOf, ProjectOf
    <2>3. CASE j = i
      <3>1. InsertedIsOwn(i)'
        BY <1>6 DEF InsertedIsOwn, Inserting, HasVersion
      <3>2. FindingsHold(i)'
        BY <1>2, <1>5, <1>6, <2>2, <2>3 DEF FindingsHold, Inserting, HasVersion
      <3> QED
        BY <2>3, <3>1, <3>2
    <2>4. CASE j # i
      <3>1. pc'[j] = pc[j] /\ inserted'[j] = inserted[j] /\ import'[j] = import[j]
        BY <1>6, <2>4
      <3>2. \A key \in inserted[j] : ~Stored(key)'
        <4> SUFFICES ASSUME NEW key \in inserted[j], Stored(key)'
                     PROVE  FALSE
          OBVIOUS
        <4>1. key \notin inserted[i] /\ ~Stored(key) /\ key # RunKey(id)
          BY <1>4, <2>1, <2>4 DEF InsertedIsOwn
        <4>2. key \notin parents'
          BY <1>6, <4>1 DEF Stored
        <4>3. PICK d \in RunIds : key = RunKey(d) /\ runs'[d] # NoRun
          BY <4>2 DEF Stored
        <4> QED
          BY <1>6, <4>1, <4>3 DEF Stored
      <3>3. \A o \in Importers \ {j} : inserted'[j] \intersect inserted'[o] = {}
        BY <1>6, <2>1, <3>1 DEF InsertedIsOwn
      <3>4. InsertedIsOwn(j)'
        BY <2>1, <2>2, <3>1, <3>2, <3>3 DEF InsertedIsOwn
      <3>5. pc[j] \in {"restat", "reput", "reverify", "relink", "done"} => RunId(j) \in RunIds
        BY <2>1, ImportTypes DEF FindingsHold
      <3>6. FindingsHold(j)'
        BY <1>4, <1>6, <2>1, <2>2, <3>1, <3>5 DEF FindingsHold
      <3> QED
        BY <3>4, <3>6
    <2> QED
      BY <2>3, <2>4
  <1>10. UrisHold'
    <2>1. import[i][2] = BytesOf(i) /\ objects[import[i]] = BytesOf(i)
      BY <1>1 DEF FindingsHold, BytesOf
    <2> QED
      BY <1>5, <1>6, <2>1 DEF Consistency, UrisHold
  <1>11. EvidenceComplete'
    BY <1>5, <1>6 DEF Consistency, EvidenceComplete
  <1>12. ParentsStored'
    <2> SUFFICES ASSUME NEW d \in RunIds, runs'[d] # NoRun
                 PROVE  {SystemKey(runs'[d].project), VersionKey(runs'[d].project, VersionOf[d])}
                            \subseteq parents'
      BY DEF ParentsStored
    <2>1. CASE d = id
      BY <1>5, <1>6, <1>7, <2>1 DEF SystemOf, VersionKeyOf
    <2>2. CASE d # id
      BY <1>6, <2>2 DEF Consistency, ParentsStored
    <2> QED
      BY <2>1, <2>2
  <1> QED
    BY <1>4, <1>8, <1>9, <1>10, <1>11, <1>12 DEF Consistency

\* An existing run changes in its uri only.
LEMMA RelinkConsistent ==
    ASSUME Consistency, NEW i \in Importers, Relink(i)
    PROVE  /\ Consistency'
           /\ runs' # runs =>
                 /\ runs[RunId(i)] \in RunRows /\ RunId(i) \in RunIds
                 /\ runs' = [runs EXCEPT ![RunId(i)].uri = import[i]]
  <1> DEFINE id == RunId(i)
             row == [runs[id] EXCEPT !.uri = import[i]]
  <1>1. InsertedIsOwn(i) /\ FindingsHold(i) /\ TypeOK /\ pc[i] = "relink"
    BY DEF Consistency, Relink
  <1>2. CASE Close(i, "done") /\ UNCHANGED runs
    <2>1. faults' \in Nat
      BY <1>1 DEF TypeOK, Relink
    <2> QED
      BY <1>1, <1>2, <2>1, RollbackStep DEF Relink, Resting, tables
  <1>3. CASE Close(i, "refused") /\ UNCHANGED runs
    <2>1. faults' \in Nat
      BY <1>1 DEF TypeOK, Relink
    <2> QED
      BY <1>1, <1>3, <2>1, RollbackStep DEF Relink, Resting, tables
  <1>4. CASE Close(i, "done") /\ runs' = [runs EXCEPT ![id].uri = import[i]]
    <2>1. /\ import[i] \in Imports /\ import[i] \in Keys /\ id \in RunIds
      BY <1>1, ImportTypes DEF FindingsHold
    <2>2. /\ runs[id] \in RunRows /\ runs[id].bytes = BytesOf(i) /\ runs[id] # NoRun
          /\ objects[import[i]] = BytesOf(i)
      BY <1>1, <2>1 DEF TypeOK, FindingsHold
    <2>3. /\ row \in RunRows /\ row.uri = import[i] /\ row.bytes = runs[id].bytes
          /\ row.project = runs[id].project /\ row.evidence = runs[id].evidence
      BY <2>1, <2>2 DEF RunRows
    <2>4. row # NoRun
      BY <2>3, RunImportAssumption
    <2> HIDE DEF row
    <2>5. /\ pc'[i] = "done" /\ import' = import /\ inserted'[i] = {} /\ objects' = objects
          /\ \A j \in Importers \ {i} : pc'[j] = pc[j] /\ inserted'[j] = inserted[j]
          /\ runs' = [runs EXCEPT ![id] = row] /\ runs'[id] = row
          /\ \A d \in RunIds \ {id} : runs'[d] = runs[d]
          /\ parents' = parents
      BY <1>1, <1>4, <2>1 DEF Close, TypeOK, Relink, row
    <2>6. TypeOK'
      <3>1. Close(i, "done") /\ faults' = faults
        BY <1>4 DEF Relink
      <3>2. runs' \in [RunIds -> RunRows \union {NoRun}]
        BY <1>1, <2>3, <2>5 DEF TypeOK
      <3> QED
        BY <1>1, <2>5, <3>1, <3>2, RunImportAssumption DEF TypeOK, Close, Points, Resting
    <2>7. \A d \in RunIds : /\ runs'[d] # NoRun <=> runs[d] # NoRun
                            /\ runs'[d].bytes = runs[d].bytes
                            /\ runs'[d].project = runs[d].project
                            /\ runs'[d].evidence = runs[d].evidence
      BY <2>2, <2>3, <2>4, <2>5
    <2>8. \A key : Stored(key)' <=> Stored(key)
      BY <2>5, <2>7 DEF Stored
    <2>9. ASSUME NEW j \in Importers
          PROVE  InsertedIsOwn(j)' /\ FindingsHold(j)'
      <3>1. InsertedIsOwn(j) /\ FindingsHold(j)
        BY DEF Consistency
      <3>2. /\ BytesOf(j)' = BytesOf(j) /\ RunId(j)' = RunId(j)
            /\ SystemOf(j)' = SystemOf(j) /\ VersionKeyOf(j)' = VersionKeyOf(j)
        BY <2>5 DEF BytesOf, RunId, SystemOf, VersionKeyOf, ProjectOf
      <3>3. CASE j = i
        <4>1. InsertedIsOwn(i)'
          BY <2>5 DEF InsertedIsOwn, Inserting, HasVersion
        <4>2. FindingsHold(i)'
          BY <2>1, <2>2, <2>3, <2>4, <2>5, <3>2, <3>3 DEF FindingsHold, Inserting, HasVersion
        <4> QED
          BY <3>3, <4>1, <4>2
      <3>4. CASE j # i
        <4>1. pc'[j] = pc[j] /\ inserted'[j] = inserted[j] /\ import'[j] = import[j]
          BY <2>5, <3>4
        <4>2. \A o \in Importers \ {j} : inserted'[j] \intersect inserted'[o] = {}
          BY <2>5, <3>1, <4>1 DEF InsertedIsOwn
        <4>3. InsertedIsOwn(j)'
          BY <2>8, <3>1, <3>2, <4>1, <4>2 DEF InsertedIsOwn
        <4>4. pc[j] \in {"restat", "reput", "reverify", "relink", "done"} => RunId(j) \in RunIds
          BY <3>1, ImportTypes DEF FindingsHold
        <4>5. FindingsHold(j)'
          BY <2>5, <2>7, <3>1, <3>2, <4>1, <4>4 DEF FindingsHold
        <4> QED
          BY <4>3, <4>5
      <3> QED
        BY <3>3, <3>4
    <2>10. UrisHold'
      <3>1. import[i][2] = BytesOf(i)
        BY DEF BytesOf
      <3> QED
        BY <2>2, <2>3, <2>5, <3>1 DEF Consistency, UrisHold
    <2>11. EvidenceComplete' /\ ParentsStored'
      BY <2>5, <2>7 DEF Consistency, EvidenceComplete, ParentsStored
    <2> QED
      BY <1>4, <2>1, <2>2, <2>6, <2>9, <2>10, <2>11 DEF Consistency
  <1> QED
    BY <1>2, <1>3, <1>4 DEF Relink

\* One step keeps the inductive invariant.
LEMMA StepConsistent == Consistency /\ [Next]_vars => Consistency'
  <1> SUFFICES ASSUME Consistency, [Next]_vars
               PROVE  Consistency'
    OBVIOUS
  <1>1. CASE UNCHANGED vars
    BY <1>1 DEF vars, Consistency, TypeOK, InsertedIsOwn, FindingsHold, UrisHold,
                EvidenceComplete, ParentsStored, Stored, SystemOf, VersionKeyOf, RunId,
                BytesOf, ProjectOf
  <1>2. CASE Next
    <2>1. PICK i \in Importers :
              Start(i) \/ Retry(i) \/ Step(i) \/ Fault(i) \/ CommitAckLost(i)
      BY <1>2 DEF Next
    <2>2. faults' \in Nat \/ ~(Commit(i) \/ CommitAckLost(i))
      BY DEF Commit, CommitAckLost, Consistency, TypeOK
    <2>3. CASE Commit(i) \/ CommitAckLost(i)
      BY <2>2, <2>3, CommitConsistent DEF Commit, CommitAckLost
    <2>4. CASE ~(Commit(i) \/ CommitAckLost(i))
      BY <2>1, <2>4, ReadsConsistent, FaultConsistent, VerifyConsistent, PutConsistent,
         InsertsConsistent, RelinkConsistent DEF Step
    <2> QED
      BY <2>3, <2>4
  <1> QED
    BY <1>1, <1>2

\* While an import is under way, nobody takes from it what it has read or
\* inserted.
THEOREM ImportsAreConsistent == Spec => []Consistency
  <1> QED
    BY InitConsistent, StepConsistent, PTL DEF Spec

\* The objects that uris name are there, with the bytes of the run, although no
\* rollback reaches the object store.
THEOREM ObjectsAreStored == Spec => []ArtifactStored
  <1>1. Consistency => ArtifactStored
    BY DEF Consistency, UrisHold, ArtifactStored
  <1> QED
    BY <1>1, ImportsAreConsistent, PTL

\* A run is seen with all its evidence only.
THEOREM RunsAreWhole == Spec => []EvidenceComplete
  <1>1. Consistency => EvidenceComplete
    BY DEF Consistency
  <1> QED
    BY <1>1, ImportsAreConsistent, PTL

\* An importer that succeeded finds its own content stored.
THEOREM SuccessIsStored == Spec => []DoneMeansStored
  <1>1. Consistency => DoneMeansStored
    BY DEF Consistency, FindingsHold, DoneMeansStored, RunId
  <1> QED
    BY <1>1, ImportsAreConsistent, PTL

\* No interleaving of importers changes the content, the project or the evidence
\* of a stored run.
THEOREM RunsAreImmutable == Spec => RunImmutable
  <1> DEFINE Kept == \A id \in RunIds : runs[id] # NoRun =>
                        /\ runs'[id] # NoRun
                        /\ runs'[id].bytes = runs[id].bytes
                        /\ runs'[id].project = runs[id].project
                        /\ runs'[id].evidence = runs[id].evidence
  <1>1. Consistency /\ [Next]_vars => [Kept]_vars
    <2> SUFFICES ASSUME Consistency, Next
                 PROVE  Kept
      OBVIOUS
    <2>1. PICK i \in Importers :
              Start(i) \/ Retry(i) \/ Step(i) \/ Fault(i) \/ CommitAckLost(i)
      BY DEF Next
    <2>2. TypeOK
      BY DEF Consistency
    <2>3. CASE Commit(i) \/ CommitAckLost(i)
      <3>1. runs[RunId(i)] = NoRun /\ runs' = [runs EXCEPT ![RunId(i)] = NewRunRow(i)]
        <4>1. faults' \in Nat
          BY <2>2, <2>3 DEF Commit, CommitAckLost, TypeOK
        <4> QED
          BY <2>3, <4>1, CommitConsistent DEF Commit, CommitAckLost, Committed
      <3> QED
        BY <2>2, <3>1 DEF TypeOK
    <2>4. CASE Relink(i)
      <3>1. CASE runs' = runs
        BY <3>1
      <3>2. CASE runs' # runs
        <4>1. /\ runs[RunId(i)] \in RunRows /\ RunId(i) \in RunIds
              /\ runs' = [runs EXCEPT ![RunId(i)].uri = import[i]]
          BY <2>4, <3>2, RelinkConsistent
        <4> DEFINE row == [runs[RunId(i)] EXCEPT !.uri = import[i]]
        <4>2. /\ row.bytes = runs[RunId(i)].bytes /\ row.project = runs[RunId(i)].project
              /\ row.evidence = runs[RunId(i)].evidence
          BY <4>1 DEF RunRows
        <4>3. Consistency'
          BY <2>4, RelinkConsistent
        <4>4. row # NoRun
          <5>1. import[i] \in Keys
            BY <2>4, ImportTypes DEF Consistency, FindingsHold, Relink
          <5>2. row \in RunRows
            BY <4>1, <5>1 DEF RunRows
          <5> QED
            BY <5>2, RunImportAssumption
        <4>5. runs' = [runs EXCEPT ![RunId(i)] = row]
          BY <4>1
        <4> HIDE DEF row
        <4> QED
          BY <2>2, <4>1, <4>2, <4>4, <4>5 DEF TypeOK
      <3> QED
        BY <3>1, <3>2
    <2>5. CASE ~(Commit(i) \/ CommitAckLost(i) \/ Relink(i))
      <3>1. runs' = runs
        BY <2>1, <2>5 DEF Step, Start, Retry, Fault, Lookup, FindSystem, FindVersion, Find,
             NewSystem, NewVersion, NewRun, InsertRow, Stat, Put, Verify, Evidence, tables
      <3> QED
        BY <3>1
    <2> QED
      BY <2>3, <2>4, <2>5
  <1> QED
    BY <1>1, ImportsAreConsistent, PTL DEF Spec, RunImmutable

\* TypeOK: the variables keep their types, for any importers and artifacts.
THEOREM TypesAreCorrect == Spec => []TypeOK
  <1>1. Consistency => TypeOK
    BY DEF Consistency
  <1> QED
    BY <1>1, ImportsAreConsistent, PTL

\* ParentsStored: whoever finds a run finds its search system and version, although
\* they are inserted by whichever transaction comes first and vanish with it.
THEOREM ParentsAreStored == Spec => []ParentsStored
  <1>1. Consistency => ParentsStored
    BY DEF Consistency
  <1> QED
    BY <1>1, ImportsAreConsistent, PTL
=============================================================================
