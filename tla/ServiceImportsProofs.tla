------------------------ MODULE ServiceImportsProofs ------------------------
(***************************************************************************)
(* Theorems about the resources of the service and their imports, for      *)
(* every database it starts with and every set of requests: organizations  *)
(* stay apart, a version has one content, datasets are grounded, and the   *)
(* tables hold well typed rows.                                            *)
(***************************************************************************)
EXTENDS ServiceMembershipsProofs

-----------------------------------------------------------------------------
(* What an import has found, and what it is about to store *)

\* c is the resource of r's artifact: it is there, or r has inserted it.
Place(r, c) ==
    /\ TableOf(c) = ResourceTable(r) /\ c.org = Call[r].org
    /\ c.parent = Call[r].parent /\ c.name = Call[r].artifact.name
    /\ c \in resources \/ (c = ImportedResource(r) /\ ResourceKey(c) \in locks[r])

\* v is the version of it that r brings.
Version(r, v, c) ==
    /\ v.id = <<r, VersionTable(r)>> /\ v.org = Call[r].org
    /\ v.parent = c.id /\ v.name = Call[r].artifact.version
    /\ v.content = Call[r].artifact.content /\ v.artifact = ArtifactHash(r)
    /\ OfDataset(r) => \E g \in Grounds(r) : v.grounds = g.id

\* What ImportsStored says of one import.
Found(r) ==
    \E c, v \in resources :
        /\ TableOf(c) = ResourceTable(r) /\ c.parent = Call[r].parent
        /\ c.name = Call[r].artifact.name
        /\ TableOf(v) = VersionTable(r) /\ v.parent = c.id
        /\ v.name = Call[r].artifact.version
        /\ v.content = Call[r].artifact.content /\ v.artifact = ArtifactHash(r)

\* The row that an endpoint is about to create.
Hangs(row) ==
    \/ row.parent = <<row.org, "organization">>
    \/ \E above \in resources : above.id = row.parent /\ above.org = row.org
Created(r, row) ==
    /\ row.id[1] = r /\ TableOf(row) \in Tables \ ({"organization"} \union Versions)
    /\ ~row.external /\ Hangs(row)

\* What each statement may rely on.
Underway(r) ==
    /\ pc[r] = "createCommit" => Created(r, memo[r].row)
    /\ pc[r] \in ImportSteps \ {"import"} => ParentFound(r, "project")
    /\ pc[r] \in ImportSteps \ {"import", "ground"} /\ OfDataset(r) => Grounds(r) # {}
    /\ pc[r] = "insertResource" => memo[r].row = ImportedResource(r)
    /\ pc[r] = "findVersion" => Place(r, memo[r].row)
    /\ pc[r] \in {"insertVersion", "importCommit"} =>
          \E c \in resources \union {ImportedResource(r)} :
              Place(r, c) /\ Version(r, memo[r].row, c)
    /\ pc[r] = "importCommit" => ResourceKey(memo[r].row) \in locks[r]
    /\ pc[r] = "done" /\ Call[r].op \in ImportOps => Found(r)

\* Rows are told apart by their ids and by their keys; no key of a row is locked.
Rows ==
    /\ \A v \in resources :
          /\ TableOf(v) \notin {"organization", "membership"}
          /\ v.id[1] \in Requests => v.id[1] \in Made /\ pc[v.id[1]] = "done"
    /\ \A v, w \in resources : v.id = w.id \/ ResourceKey(v) = ResourceKey(w) => v = w
    /\ \A v \in resources, q \in Made : ResourceKey(v) \notin locks[q]

ImportInv ==
    /\ LocksInv
    /\ Rows
    /\ \A r \in Made : Underway(r)
    /\ TenantsApart
    /\ DatasetsGrounded

\* At the start no request has found anything.
LEMMA InitImports == Init => ImportInv
  <1> SUFFICES ASSUME Init
               PROVE  ImportInv
    OBVIOUS
  <1>1. PICK w \in Workloads : pc = [r \in w |-> "ready"]
    BY DEF Init
  <1>2. \A r \in Made : pc[r] = "ready" /\ locks[r] = {}
    BY <1>1 DEF Init, Made
  <1>3. Rows
    <2>1. "membership" \notin Tables /\ \A row \in SeedResources : TableOf(row) \in Tables
      BY ServiceAssumption DEF IsResource, ResourceIds, TableOf, Tables
    <2> QED
      BY <1>2, <2>1, SeedAssumption DEF Init, Rows, SameKey, ResourceKey, Key
  <1>4. \A r \in Made : Underway(r)
    BY <1>2 DEF Underway, ImportSteps
  <1>5. TenantsApart /\ DatasetsGrounded
    BY SeedAssumption DEF Init, TenantsApart, DatasetsGrounded
  <1> QED
    BY <1>3, <1>4, <1>5, InitLocks DEF ImportInv

-----------------------------------------------------------------------------
(* The two commits that add rows *)

Creates(a) ==
    /\ pc[a] = "createCommit" /\ pc'[a] = "done" /\ locks'[a] = {}
    /\ ~Stored(memo[a].row) /\ Granted(a)
    /\ resources' = resources \union {memo[a].row}
Imports(a) ==
    /\ pc[a] = "importCommit" /\ pc'[a] = "done" /\ locks'[a] = {}
    /\ \E c \in resources \union {ImportedResource(a)} :
          /\ Place(a, c) /\ Version(a, memo[a].row, c)
          /\ resources' = resources \union {memo[a].row, c}

\* An import stores its version and the resource the version hangs on.
LEMMA Commits ==
    ASSUME ImportInv, NEW a \in Made, Step(a)
    PROVE  resources' = resources \/ Creates(a) \/ Imports(a)
  <1>1. Effect(a)
    BY StepLocks DEF ImportInv
  <1>2. CASE resources' = resources
    BY <1>2
  <1>3. CASE resources' # resources
    <2>1. Granted(a)
      BY <1>3 DEF Step, Begin, Crash, Abort, Statement, tables
    <2>2. CASE CreateCommit(a)
      <3>1. ~Stored(memo[a].row) /\ resources' = resources \union {memo[a].row}
        BY <1>3, <2>2 DEF CreateCommit, Reject, tables
      <3>2. pc[a] = "createCommit" /\ pc'[a] = "done" /\ locks'[a] = {}
        BY <2>2, <3>1 DEF CreateCommit, Answer, Goto, Made, ImportInv, LocksInv, Tidy
      <3> QED
        BY <2>1, <3>1, <3>2 DEF Creates
    <2>3. CASE ImportCommit(a)
      <3>1. pc[a] = "importCommit" /\ pc'[a] = "done" /\ locks'[a] = {}
        BY <2>3 DEF ImportCommit, Answer, Goto, Made, ImportInv, LocksInv, Tidy
      <3>2. PICK c \in resources \union {ImportedResource(a)} :
                Place(a, c) /\ Version(a, memo[a].row, c)
        BY <3>1 DEF ImportInv, Underway
      <3>3. ResourceKey(ImportedResource(a)) = ResourceKey(c)
        BY <3>2 DEF Place, ResourceKey, ImportedResource, NewResource, TableOf
      <3>4. resources' = resources \union {memo[a].row, c}
        <4>1. CASE c \in resources
          <5>1. ResourceKey(ImportedResource(a)) \notin locks[a]
            BY <3>3, <4>1 DEF ImportInv, Rows
          <5> QED
            BY <2>3, <4>1, <5>1 DEF ImportCommit
        <4>2. CASE c \notin resources
          <5>1. c = ImportedResource(a) /\ ResourceKey(c) \in locks[a]
            BY <3>2, <4>2 DEF Place
          <5> QED
            BY <2>3, <5>1 DEF ImportCommit
        <4> QED
          BY <4>1, <4>2
      <3> QED
        BY <3>1, <3>2, <3>4 DEF Imports
    <2> QED
      BY <1>1, <1>3, <2>2, <2>3 DEF Effect, Changes
  <1> QED
    BY <1>2, <1>3

\* What a row is that was not there before.
Fresh(a, v) ==
    /\ v.id[1] = a /\ TableOf(v) \notin {"organization", "membership"} /\ pc'[a] = "done"
    /\ ~Stored(v) /\ \A q \in Made \ {a} : ResourceKey(v) \notin locks[q]

\* New rows have ids and keys of their own, and stand where they may.
LEMMA NewRows ==
    ASSUME ImportInv, NEW a \in Made, Step(a)
    PROVE  /\ resources \subseteq resources'
           /\ \A v \in resources' \ resources : Fresh(a, v)
           /\ \A v, w \in resources' \ resources : TableOf(v) = TableOf(w) => v = w
           /\ Apart(resources') /\ Grounded(resources')
  <1>0. Effect(a) /\ LocksInv'
    BY StepLocks DEF ImportInv
  <1>1. CASE resources' = resources
    BY <1>1 DEF ImportInv, TenantsApart, DatasetsGrounded, Apart, Grounded
  <1>2. CASE Creates(a)
    <2> DEFINE v == memo[a].row
    <2>1. Created(a, v)
      BY <1>2 DEF Creates, ImportInv, Underway
    <2>2. ResourceKey(v) \in Needs(a)
      BY <1>2 DEF Creates, Needs, Locking, RowByRow, AboutUser
    <2>3. \A q \in Made \ {a} : ResourceKey(v) \notin locks[q]
      BY <1>2, <2>2 DEF Creates, Granted, Holders, RowByRow
    <2>4. resources' = resources \union {v} /\ ~Stored(v) /\ pc'[a] = "done"
      BY <1>2 DEF Creates
    <2> HIDE DEF v
    <2>5. Apart(resources')
      BY <2>1, <2>4 DEF ImportInv, TenantsApart, Apart, Created, Hangs
    <2>6. Grounded(resources')
      BY <2>1, <2>4 DEF ImportInv, DatasetsGrounded, Grounded, Created, Versions
    <2>7. TableOf(v) \notin {"organization", "membership"}
      BY <2>1 DEF Created, Tables
    <2> QED
      BY <2>1, <2>3, <2>4, <2>5, <2>6, <2>7 DEF Created, Fresh
  <1>3. CASE Imports(a)
    <2> DEFINE v == memo[a].row
    <2>1. PICK c \in resources \union {ImportedResource(a)} :
              /\ Place(a, c) /\ Version(a, v, c)
              /\ resources' = resources \union {v, c}
      BY <1>3 DEF Imports
    <2>2. ResourceKey(v) \in locks[a] /\ pc'[a] = "done"
      BY <1>3 DEF Imports, ImportInv, Underway
    <2>3. ParentFound(a, "project") /\ (OfDataset(a) => Grounds(a) # {})
      BY <1>3 DEF Imports, ImportInv, Underway, ImportSteps
    <2> HIDE DEF v
    <2>4. \A w \in resources' \ resources :
              /\ ResourceKey(w) \in locks[a]
              /\ w.id[1] = a
              /\ TableOf(w) \in {ResourceTable(a), VersionTable(a)}
      BY <2>1, <2>2 DEF Place, Version, TableOf, ImportedResource, NewResource
    <2>5. /\ {ResourceTable(a), VersionTable(a)}
                 \intersect {"organization", "membership", "project"} = {}
          /\ ResourceTable(a) # VersionTable(a)
      BY DEF ResourceTable, VersionTable
    <2>6. \A w \in resources' \ resources : Fresh(a, w)
      BY <2>2, <2>4, <2>5 DEF Fresh, Stored, ImportInv, Rows, LocksInv, LocksExclusive
    <2>7. \A w, u \in resources' \ resources : TableOf(w) = TableOf(u) => w = u
      BY <2>1, <2>5 DEF Place, Version, TableOf
    <2>8. Apart(resources')
      <3>1. \E above \in resources : above.id = c.parent /\ above.org = c.org
        BY <2>1, <2>3 DEF ParentFound, Place
      <3>2. c \in resources' /\ c.id = v.parent /\ c.org = v.org
        BY <2>1 DEF Place, Version
      <3> QED
        BY <2>1, <3>1, <3>2 DEF ImportInv, TenantsApart, Apart
    <2>9. Grounded(resources')
      <3>1. TableOf(c) # "datasetVersion"
        BY <2>1 DEF Place, ResourceTable
      <3>2. ASSUME TableOf(v) = "datasetVersion"
            PROVE  \E g, h, d \in resources' :
                       /\ g.id = v.grounds /\ TableOf(g) = "catalogVersion"
                       /\ h.id = g.parent /\ d.id = v.parent /\ h.parent = d.parent
                       /\ v.content.expects \subseteq g.content.products
        <4>1. OfDataset(a)
          BY <2>1, <3>2 DEF Version, VersionTable, TableOf
        <4>2. PICK g \in Grounds(a) : v.grounds = g.id
          BY <2>1, <4>1 DEF Version
        <4>3. /\ g \in resources /\ TableOf(g) = "catalogVersion"
              /\ v.content.expects \subseteq g.content.products
          BY <2>1, <4>2 DEF Grounds, NamedVersions, Version
        <4>4. PICK h \in resources : h.id = g.parent /\ h.parent = Call[a].parent
          BY <4>2 DEF Grounds, NamedVersions
        <4>5. c \in resources' /\ c.id = v.parent /\ c.parent = Call[a].parent
          BY <2>1 DEF Place, Version
        <4> QED
          BY <2>1, <4>2, <4>3, <4>4, <4>5
      <3> QED
        BY <2>1, <3>1, <3>2 DEF ImportInv, DatasetsGrounded, Grounded
    <2> QED
      BY <2>1, <2>6, <2>7, <2>8, <2>9
  <1> QED
    BY <1>1, <1>2, <1>3, Commits

-----------------------------------------------------------------------------
(* What a request has found, others do not take away *)

\* Rows are added, and never changed.
LEMMA Lasting ==
    ASSUME resources \subseteq resources', NEW r,
           locks[r] \subseteq locks'[r]
    PROVE  /\ \A table : ParentFound(r, table) => ParentFound(r, table)'
           /\ Grounds(r) \subseteq Grounds(r)'
           /\ \A row : Hangs(row) => Hangs(row)'
           /\ \A c : Place(r, c) => Place(r, c)'
           /\ \A v, c : Version(r, v, c) => Version(r, v, c)'
  <1>1. Grounds(r) \subseteq Grounds(r)'
    BY DEF Grounds, NamedVersions
  <1>2. \A table : ParentFound(r, table) => ParentFound(r, table)'
    BY DEF ParentFound
  <1>3. \A row : Hangs(row) => Hangs(row)'
    BY DEF Hangs
  <1>4. \A c : Place(r, c) => Place(r, c)'
    BY DEF Place
  <1>5. \A v, c : Version(r, v, c) => Version(r, v, c)'
    BY <1>1 DEF Version
  <1> QED
    BY <1>1, <1>2, <1>3, <1>4, <1>5

\* A step of a leaves what any other request has found.
LEMMA OthersUnderway ==
    ASSUME ImportInv, NEW a \in Made, Private(a), resources \subseteq resources',
           NEW r \in Made \ {a}
    PROVE  Underway(r)'
  <1>1. pc'[r] = pc[r] /\ memo'[r] = memo[r] /\ locks'[r] = locks[r] /\ Underway(r)
    BY DEF Private, ImportInv
  <1>2. Found(r) => Found(r)'
    BY DEF Found
  <1> QED
    BY <1>1, <1>2, Lasting DEF Underway, Created

\* A version that is there hangs on a resource that is there.
LEMMA NoOrphans ==
    ASSUME ImportInv, NEW a \in Made, pc[a] # "done",
           NEW v \in resources, NEW c, Place(a, c), v.parent = c.id
    PROVE  c \in resources
  <1> SUFFICES ASSUME c = ImportedResource(a)
               PROVE  FALSE
    BY DEF Place
  <1>1. v.parent = <<a, ResourceTable(a)>> /\ ResourceTable(a) # "organization"
    BY DEF ImportedResource, NewResource, ResourceTable
  <1>2. PICK above \in resources : above.id = v.parent
    BY <1>1 DEF ImportInv, TenantsApart, Apart
  <1>3. above.id[1] = a /\ a \in Requests
    BY <1>1, <1>2 DEF ImportInv, LocksInv, Tidy
  <1> QED
    BY <1>2, <1>3 DEF ImportInv, Rows

-----------------------------------------------------------------------------
(* What a request does itself *)

\* What hangs on a project is of the project's organization.
LEMMA ProjectsOrganization ==
    ASSUME ImportInv, NEW r, ParentFound(r, "project"),
           NEW c \in resources, c.parent = Call[r].parent
    PROVE  c.org = Call[r].org
  <1>1. PICK p \in resources : /\ p.id = Call[r].parent /\ p.id[2] = "project"
                               /\ p.org = Call[r].org
    BY DEF ParentFound, TableOf
  <1>2. c.parent # <<c.org, "organization">>
    BY <1>1
  <1>3. PICK above \in resources : above.id = c.parent /\ above.org = c.org
    BY <1>2 DEF ImportInv, TenantsApart, Apart
  <1> QED
    BY <1>1, <1>3 DEF ImportInv, Rows

\* An endpoint creates its row under a parent of its organization.
LEMMA CreatingUnderway ==
    ASSUME ImportInv, NEW a \in Made, Tidy, resources' = resources,
           \/ CreateProject(a) \/ CreateResource(a) \/ CreateSystem(a)
           \/ CreateSystemVersion(a) \/ CreateReview(a)
    PROVE  Underway(a)'
  <1> DEFINE new(to) == NewResource(<<a, Call[a].table>>, Call[a].org, to, Call[a].name)
             above == {<<Call[a].org, "organization">>, Call[a].parent}
  <1>1. CASE pc'[a] = "refused"
    BY <1>1 DEF Underway, ImportSteps
  <1>2. CASE pc'[a] # "refused"
    <2>1. \A to, found : Creating(a, to, found) =>
              /\ found /\ pc'[a] = "createCommit"
              /\ memo'[a] = [memo[a] EXCEPT !.row = new(to)]
      BY <1>2 DEF Tidy, Creating, ReadInto, Remember, Goto, Reject, Answer, Made
    <2>2. \A to : [memo[a] EXCEPT !.row = new(to)].row = new(to)
      BY DEF ImportInv, LocksInv, Tidy
    <2> HIDE DEF new
    <2>3. PICK to \in above :
              /\ Call[a].table \in Tables \ ({"organization"} \union Versions)
              /\ memo'[a].row = new(to) /\ pc'[a] = "createCommit"
              /\ \/ to = <<Call[a].org, "organization">>
                 \/ \E row \in resources : row.id = to /\ row.org = Call[a].org
      BY <2>1, <2>2 DEF CreateProject, CreateResource, CreateSystem, CreateSystemVersion,
         CreateReview, ParentFound, Tables, Versions
    <2>4. Created(a, memo[a].row)'
      BY <2>3 DEF new, NewResource, Created, Hangs, TableOf
    <2> QED
      BY <2>3, <2>4 DEF Underway, ImportSteps
  <1> QED
    BY <1>1, <1>2

\* So does each statement of an import, which goes on from what it has found.
LEMMA ImportingUnderway ==
    ASSUME ImportInv, NEW a \in Made, Effect(a), resources \subseteq resources',
           \/ Scope(a) \/ Ground(a) \/ FindResource(a) \/ InsertResource(a)
           \/ FindVersion(a) \/ InsertVersion(a) \/ ImportCommit(a)
    PROVE  Underway(a)'
  <1>1. CASE pc'[a] \in {"refused", "error"}
    BY <1>1 DEF Underway, ImportSteps
  <1>2. CASE pc'[a] \notin {"refused", "error"}
    <2> USE <1>2 DEF Made
    <2>1. Underway(a) /\ DOMAIN memo[a] = {"role", "row", "matched"}
      BY DEF ImportInv, LocksInv, Tidy
    <2>2. pc'[a] = "done" \/ locks[a] \subseteq locks'[a]
      <3>1. pc[a] \notin Releasing /\ pc'[a] # "crashed"
        BY DEF Releasing, Scope, Ground, FindResource, InsertResource, FindVersion,
           InsertVersion, ImportCommit, Insert, Read, ReadInto, Reject, Answer, Goto
      <3> QED
        BY <3>1 DEF Effect, Taken, Answers
    <2>3. pc'[a] # "done" => /\ ParentFound(a, "project") => ParentFound(a, "project")'
                             /\ Grounds(a) \subseteq Grounds(a)'
                             /\ \A c : Place(a, c) => Place(a, c)'
                             /\ \A v, c : Version(a, v, c) => Version(a, v, c)'
      BY <2>2, Lasting
    <2>4. CASE Scope(a)
      <3>1. /\ ParentFound(a, "project")
            /\ pc'[a] = IF OfDataset(a) THEN "ground" ELSE "findResource"
        BY <2>4 DEF Scope, Read, Reject, Answer, Goto
      <3> QED
        BY <2>3, <3>1 DEF Underway, ImportSteps
    <2>5. CASE Ground(a)
      <3>1. Grounds(a) # {} /\ pc[a] = "ground" /\ pc'[a] = "findResource"
        BY <2>5 DEF Ground, Read, Reject, Answer, Goto
      <3> QED
        BY <2>1, <2>3, <3>1 DEF Underway, ImportSteps
    <2>6. CASE FindResource(a)
      <3>1. pc[a] = "findResource" /\ ParentFound(a, "project")
        BY <2>1, <2>6 DEF FindResource, Underway, ImportSteps
      <3>2. CASE pc'[a] = "insertResource"
        <4>1. memo'[a].row = ImportedResource(a)
          BY <2>1, <2>6, <3>2 DEF FindResource, ReadInto, Remember, Goto,
             ImportInv, LocksInv, Tidy
        <4>2. (ImportedResource(a) = ImportedResource(a)')
          BY DEF ImportedResource
        <4> QED
          BY <2>1, <2>3, <3>1, <3>2, <4>1, <4>2 DEF Underway, ImportSteps
      <3>3. CASE pc'[a] # "insertResource"
        <4>1. pc'[a] = "findVersion"
          BY <2>6, <3>3 DEF FindResource, ReadInto, Goto
        <4>2. /\ memo'[a].row \in resources /\ TableOf(memo'[a].row) = ResourceTable(a)
              /\ memo'[a].row.parent = Call[a].parent
              /\ memo'[a].row.name = Call[a].artifact.name
          BY <2>1, <2>6, <3>3 DEF FindResource, ReadInto, Remember, Goto,
             ImportInv, LocksInv, Tidy
        <4>3. Place(a, memo'[a].row)
          BY <3>1, <4>2, ProjectsOrganization DEF Place
        <4> QED
          BY <2>1, <2>3, <3>1, <4>1, <4>3 DEF Underway, ImportSteps
      <3> QED
        BY <3>2, <3>3
    <2>7. CASE InsertResource(a)
      <3> DEFINE c == memo[a].row
      <3>1. /\ pc[a] = "insertResource" /\ pc'[a] = "findVersion" /\ memo'[a] = memo[a]
            /\ ResourceKey(c) \in locks'[a]
        BY <2>7 DEF InsertResource, Insert, Answer, Goto, ImportInv, LocksInv, Tidy
      <3>2. c = ImportedResource(a) /\ ParentFound(a, "project")
        BY <2>1, <3>1 DEF Underway, ImportSteps
      <3>3. Place(a, c)'
        BY <3>1, <3>2 DEF Place, ImportedResource, NewResource, TableOf
      <3> QED
        BY <2>1, <2>3, <3>1, <3>3 DEF Underway, ImportSteps
    <2>8. CASE FindVersion(a)
      <3>0. PICK c, new : c = memo[a].row /\ new = ImportedVersion(a, c.id)
        OBVIOUS
      <3>1. pc[a] = "findVersion" /\ Place(a, c) /\ ParentFound(a, "project")
        BY <2>1, <2>8, <3>0 DEF FindVersion, Underway, ImportSteps
      <3>2. Version(a, new, c)
        <4>1. OfDataset(a) => The(Grounds(a)) \in Grounds(a)
          BY <2>1, <3>1 DEF Underway, ImportSteps, The
        <4> QED
          BY <3>0, <4>1 DEF Version, ImportedVersion, NewResource
      <3>3. CASE pc'[a] = "insertVersion"
        <4>1. memo'[a].row = new
          BY <2>1, <2>8, <3>0, <3>3 DEF FindVersion, ReadInto, Remember, Goto, Answer, Reject,
             ImportInv, LocksInv, Tidy
        <4>2. Place(a, c)' /\ Version(a, new, c)'
          BY <2>3, <3>1, <3>2, <3>3
        <4>3. c \in (resources \union {ImportedResource(a)})'
          BY <4>2 DEF Place
        <4> QED
          BY <2>1, <2>3, <3>1, <3>3, <4>1, <4>2, <4>3 DEF Underway, ImportSteps
      <3>4. CASE pc'[a] # "insertVersion"
        <4>1. PICK v \in resources : /\ ResourceKey(v) = ResourceKey(new)
                                     /\ SameVersion(v, new) /\ pc'[a] = "done"
          BY <2>8, <3>0, <3>4 DEF FindVersion, ReadInto, Goto, Answer, Reject
        <4>2. v.parent = c.id /\ v.name = new.name /\ TableOf(v) = TableOf(new)
          BY <3>2, <4>1 DEF ResourceKey, Key, Version
        <4>3. c \in resources
          BY <3>1, <4>2, NoOrphans
        <4>4. Found(a)
          BY <3>1, <3>2, <4>1, <4>2, <4>3 DEF Found, Place, Version, SameVersion, TableOf
        <4>5. Found(a)'
          BY <4>4 DEF Found
        <4> QED
          BY <4>1, <4>5 DEF Underway, ImportSteps
      <3> QED
        BY <3>3, <3>4
    <2>9. CASE InsertVersion(a)
      <3>1. /\ pc[a] = "insertVersion" /\ pc'[a] = "importCommit" /\ memo'[a] = memo[a]
            /\ ResourceKey(memo[a].row) \in locks'[a]
        BY <2>9 DEF InsertVersion, Insert, Answer, Goto, ImportInv, LocksInv, Tidy
      <3>2. PICK c \in resources \union {ImportedResource(a)} :
                Place(a, c) /\ Version(a, memo[a].row, c)
        BY <2>1, <3>1 DEF Underway
      <3>3. Place(a, c)' /\ Version(a, memo[a].row, c)'
        BY <2>3, <3>1, <3>2
      <3>4. c \in (resources \union {ImportedResource(a)})'
        BY <3>3 DEF Place
      <3> QED
        BY <2>1, <2>3, <3>1, <3>3, <3>4 DEF Underway, ImportSteps
    <2>10. CASE ImportCommit(a)
      <3>1. pc[a] = "importCommit" /\ pc'[a] = "done" /\ memo[a].row \in resources'
        BY <2>10 DEF ImportCommit, Answer, Goto
      <3>2. PICK c \in resources \union {ImportedResource(a)} :
                Place(a, c) /\ Version(a, memo[a].row, c)
        BY <2>1, <3>1 DEF Underway
      <3>3. c \in resources'
        BY <2>10, <3>2 DEF ImportCommit, Place
      <3>4. Found(a)'
        BY <3>1, <3>2, <3>3 DEF Found, Place, Version, TableOf
      <3> QED
        BY <3>1, <3>4 DEF Underway, ImportSteps
    <2> QED
      BY <2>4, <2>5, <2>6, <2>7, <2>8, <2>9, <2>10
  <1> QED
    BY <1>1, <1>2

-----------------------------------------------------------------------------
(* The theorems *)

\* The statement that comes next may rely on what it needs, whatever the step was.
LEMMA OwnUnderway ==
    ASSUME ImportInv, NEW a \in Made, Step(a), Effect(a)
    PROVE  Underway(a)'
  <1>1. resources \subseteq resources'
    BY NewRows
  <1>2. CASE \/ CreateProject(a) \/ CreateResource(a) \/ CreateSystem(a)
             \/ CreateSystemVersion(a) \/ CreateReview(a)
    <2>1. resources' = resources
      BY <1>2 DEF CreateProject, CreateResource, CreateSystem, CreateSystemVersion,
         CreateReview, Creating, ReadInto, Reject, tables
    <2>2. Tidy
      BY DEF ImportInv, LocksInv
    <2> QED
      BY <1>2, <2>1, <2>2, CreatingUnderway
  <1>3. CASE CreateCommit(a)
    <2>1. pc[a] = "createCommit" /\ pc'[a] \in {"done", "refused"}
      BY <1>3 DEF CreateCommit, Reject, Answer, Goto, Made
    <2>2. ~(pc'[a] = "done" /\ Call[a].op \in ImportOps)
      BY <2>1 DEF Effect, Changes, FindVersion, ImportCommit
    <2> QED
      BY <2>1, <2>2 DEF Underway, ImportSteps, ImportOps
  <1>4. CASE \/ Scope(a) \/ Ground(a) \/ FindResource(a) \/ InsertResource(a)
             \/ FindVersion(a) \/ InsertVersion(a) \/ ImportCommit(a)
    BY <1>1, <1>4, ImportingUnderway
  <1>5. CASE ~ResourceStep(a)
    <2>1. /\ pc'[a] \notin (ImportSteps \ {"import"}) \union {"createCommit"}
          /\ ~(pc'[a] = "done" /\ Call[a].op \in ImportOps)
      BY <1>5 DEF Effect, Changes, ResourceStep
    <2> QED
      BY <2>1 DEF Underway, ImportSteps, ImportOps
  <1> QED
    BY <1>2, <1>3, <1>4, <1>5 DEF ResourceStep

\* Ids and keys stay unique: a key is new to the table when it is locked, and to the
\* other requests until it is stored.
LEMMA StepRows ==
    ASSUME ImportInv, NEW a \in Made, Step(a), Effect(a)
    PROVE  Rows'
  <1>1. /\ resources \subseteq resources'
        /\ \A v \in resources' \ resources : Fresh(a, v)
        /\ \A v, w \in resources' \ resources : TableOf(v) = TableOf(w) => v = w
    BY NewRows
  <1>2. Private(a) /\ Taken(a) /\ Settled(a) /\ Tidy /\ Tidy'
    BY DEF Effect, ImportInv, LocksInv
  <1>3. ASSUME NEW v \in resources'
        PROVE  /\ TableOf(v) \notin {"organization", "membership"}
               /\ v.id[1] \in Requests => v.id[1] \in Made' /\ pc'[v.id[1]] = "done"
    BY <1>1, <1>2, <1>3 DEF ImportInv, Rows, Fresh, Private, Settled, Answers
  <1>4. ASSUME NEW v \in resources', NEW w \in resources',
               v.id = w.id \/ ResourceKey(v) = ResourceKey(w)
        PROVE  v = w
    <2>1. TableOf(v) = TableOf(w)
      BY <1>4 DEF ResourceKey, Key, TableOf
    <2>2. \A old \in resources : pc[a] # "done" /\ old.id[1] # a
      BY <1>2 DEF Settled, Answers, Tidy, ImportInv, Rows
    <2>3. \A old \in resources, new \in resources' \ resources :
              old.id # new.id /\ ResourceKey(old) # ResourceKey(new)
      BY <1>1, <2>2 DEF Fresh, Stored
    <2> QED
      BY <1>1, <1>4, <2>1, <2>3 DEF ImportInv, Rows
  <1>5. ASSUME NEW v \in resources', NEW q \in Made'
        PROVE  ResourceKey(v) \notin locks'[q]
    <2>1. ResourceKey(v)[1] = "unique" /\ ResourceKey(v)[2][1] \notin {"organization", "membership"}
      BY <1>3 DEF ResourceKey, Key
    <2>2. CASE q # a
      BY <1>1, <1>2, <2>2 DEF Private, ImportInv, Rows, Fresh
    <2>3. CASE q = a /\ v \in resources
      <3>1. ResourceKey(v) \notin locks[a]
        BY <2>3 DEF ImportInv, Rows
      <3>2. ~Unheld(a, ResourceKey(v))
        BY <2>1, <2>3 DEF Unheld, Stored
      <3> QED
        BY <1>2, <2>3, <3>1, <3>2 DEF Taken
    <2>4. CASE q = a /\ v \notin resources
      <3>1. Creates(a) \/ Imports(a)
        BY <2>4, Commits
      <3>2. locks'[a] = {}
        BY <3>1 DEF Creates, Imports
      <3> QED
        BY <2>4, <3>2
    <2> QED
      BY <2>2, <2>3, <2>4
  <1> QED
    BY <1>3, <1>4, <1>5 DEF Rows

\* Every step keeps all of it.
LEMMA StepImports ==
    ASSUME ImportInv, NEW a \in Made, Step(a)
    PROVE  ImportInv'
  <1>1. LocksInv' /\ Effect(a) /\ Private(a)
    BY StepLocks DEF ImportInv, Effect
  <1>2. Rows'
    BY <1>1, StepRows
  <1>3. /\ resources \subseteq resources'
        /\ TenantsApart' /\ DatasetsGrounded'
    BY NewRows DEF TenantsApart, DatasetsGrounded
  <1>4. \A r \in Made' : Underway(r)'
    BY <1>1, <1>3, OwnUnderway, OthersUnderway DEF Private
  <1> QED
    BY <1>1, <1>2, <1>3, <1>4 DEF ImportInv

\* Nothing of it changes without a step.
LEMMA ImportsStutter ==
    ASSUME ImportInv, UNCHANGED vars
    PROVE  ImportInv'
  <1>1. LocksInv'
    BY DEF ImportInv, LocksInv, vars, Tidy, Staged, Aims, Accepting, LocksExclusive, AllKnown,
       Known, Made
  <1>2. \A r : Underway(r) => Underway(r)'
    BY DEF vars, Underway, Created, Hangs, ParentFound, Grounds, NamedVersions, Place,
       Version, Found
  <1> QED
    BY <1>1, <1>2 DEF ImportInv, vars, Rows, Made, TenantsApart, Apart, DatasetsGrounded,
       Grounded

\* It holds from the start on.
LEMMA ImportsInvariant == Spec => []ImportInv
  <1>1. ImportInv /\ [Next]_vars => ImportInv'
    BY StepImports, ImportsStutter DEF Next, Step
  <1> QED
    BY <1>1, InitImports, PTL DEF Spec

\* TenantsApart: every project, catalog, dataset, system, version and review hangs on
\* a row of its own organization, although its parent is looked up in one statement and
\* it is stored by another, and although an import takes over a resource it finds.
THEOREM OrganizationsApart == Spec => []TenantsApart
  <1>1. ImportInv => TenantsApart
    BY DEF ImportInv
  <1> QED
    BY <1>1, ImportsInvariant, PTL

\* ImportsStored: a name and version stand for one content, and an import that was
\* answered has its content under them, however many imports race for the name.
THEOREM ImportsAreStored == Spec => []ImportsStored
  <1>1. ImportInv => ImportsStored
    <2> SUFFICES ASSUME ImportInv
                 PROVE  ImportsStored
      OBVIOUS
    <2>1. \A r \in Done("importCatalog") \union Done("importDataset") : Found(r)
      BY DEF ImportInv, Underway, Done, ImportOps
    <2> QED
      BY <2>1 DEF ImportInv, Rows, ImportsStored, Found
  <1> QED
    BY <1>1, ImportsInvariant, PTL

\* DatasetsGrounded: a dataset version stands on a catalog version of its own project
\* that has all the products of its cases, although nothing locks what was found.
THEOREM DatasetsStandOnCatalogs == Spec => []DatasetsGrounded
  <1>1. ImportInv => DatasetsGrounded
    BY DEF ImportInv
  <1> QED
    BY <1>1, ImportsInvariant, PTL

-----------------------------------------------------------------------------
(* Errors *)

\* What may break off an import: another one of the name at the same time, or a
\* resource of the name that no import made.
Rival(r) ==
    \E q \in Made : Met(r, q) /\ Call[q].op = Call[r].op
                           /\ Call[q].artifact.name = Call[r].artifact.name
Claimed(r) ==
    \E c \in resources : ~c.external /\ TableOf(c) = ResourceTable(r)
                            /\ c.parent = Call[r].parent /\ c.name = Call[r].artifact.name
Contested(r) == Rival(r) \/ Claimed(r)

\* What has been looked for and not found is stored only then.
Explained(r) ==
    /\ pc[r] \in {"insertResource", "insertVersion"} /\ Stored(memo[r].row) => Contested(r)
    /\ pc[r] = "error" /\ Call[r].op \in ImportOps => Contested(r)

ErrorsInv ==
    /\ MembersInv /\ AllMet /\ ImportInv
    /\ \A r \in Made : Explained(r)

\* At the start no import has looked for anything.
LEMMA InitErrors == Init => ErrorsInv
  <1> SUFFICES ASSUME Init
               PROVE  ErrorsInv
    OBVIOUS
  <1>1. \A r \in Made : pc[r] = "ready"
    BY DEF Init, Made
  <1> QED
    BY <1>1, InitMembers, InitImports DEF ErrorsInv, AllMet, Open, Explained

\* A contest is not forgotten.
LEMMA ContestStays ==
    ASSUME resources \subseteq resources', met \subseteq met', Made' = Made, NEW r
    PROVE  Contested(r) => Contested(r)'
  BY DEF Contested, Rival, Claimed, Met, ResourceTable, OfDataset, TableOf

\* A row that another request stores under the key that r has not found contests it.
LEMMA OthersExplained ==
    ASSUME ErrorsInv, NEW a \in Made, Step(a), NEW r \in Made \ {a}
    PROVE  Explained(r)'
  <1>1. /\ Private(a) /\ Settled(a) /\ met \subseteq met' /\ Underway(r) /\ Staged(r)
        /\ resources \subseteq resources' /\ Explained(r) /\ AllMet /\ Rows'
    BY StepLocks, StepImports, Meeting, NewRows DEF ErrorsInv, ImportInv, LocksInv, Effect
  <1>2. pc'[r] = pc[r] /\ memo'[r] = memo[r] /\ Made' = Made
    BY <1>1 DEF Private
  <1>3. Contested(r) => Contested(r)'
    BY <1>1, <1>2, ContestStays
  <1> SUFFICES ASSUME pc[r] \in {"insertResource", "insertVersion"}, ~Stored(memo[r].row),
                      NEW v \in resources' \ resources,
                      ResourceKey(v) = ResourceKey(memo[r].row)
               PROVE  Contested(r)'
    BY <1>1, <1>2, <1>3 DEF Explained, Stored
  <1>4. /\ TableOf(v) = TableOf(memo[r].row) /\ v.parent = memo[r].row.parent
        /\ v.name = memo[r].row.name
    BY DEF ResourceKey, Key
  <1>5. CASE Creates(a)
    <2>1. v = memo[a].row /\ Created(a, v)
      BY <1>5 DEF Creates, ErrorsInv, ImportInv, Underway
    <2>2. pc[r] = "insertResource"
      <3>1. ASSUME pc[r] = "insertVersion"
            PROVE  TableOf(memo[r].row) \in Versions
        BY <1>1, <3>1 DEF Underway, Version, VersionTable, TableOf, Versions
      <3> QED
        BY <1>4, <2>1, <3>1 DEF Created
    <2>3. memo[r].row = ImportedResource(r)
      BY <1>1, <2>2 DEF Underway
    <2>4. Claimed(r)'
      BY <1>4, <2>1, <2>3
         DEF Claimed, Created, ImportedResource, NewResource, TableOf, ResourceTable, OfDataset
    <2> QED
      BY <2>4 DEF Contested
  <1>6. CASE Imports(a)
    <2>1. Met(r, a)'
      BY <1>1, <1>6 DEF AllMet, Open, Answers, Met, Imports
    <2>2. PICK c \in resources \union {ImportedResource(a)} :
              Place(a, c) /\ Version(a, memo[a].row, c) /\ resources' = resources \union {memo[a].row, c}
      BY <1>6 DEF Imports
    <2>3. PICK d : /\ TableOf(d) = ResourceTable(r) /\ d.name = Call[r].artifact.name
                   /\ TableOf(c) = TableOf(d) /\ c.name = d.name
      <3>1. CASE pc[r] = "insertResource"
        <4>1. memo[r].row = ImportedResource(r)
          BY <1>1, <3>1 DEF Underway
        <4>2. /\ TableOf(memo[r].row) = ResourceTable(r)
              /\ memo[r].row.name = Call[r].artifact.name
          BY <4>1 DEF ImportedResource, NewResource, TableOf
        <4>3. v = c
          BY <1>4, <2>2, <4>2 DEF Version, VersionTable, ResourceTable, TableOf
        <4> QED
          BY <1>4, <4>2, <4>3
      <3>2. CASE pc[r] = "insertVersion"
        <4>1. PICK d : Place(r, d) /\ Version(r, memo[r].row, d)
          BY <1>1, <3>2 DEF Underway
        <4>2. v = memo[a].row
          BY <1>4, <2>2, <4>1 DEF Version, Place, VersionTable, ResourceTable, TableOf
        <4>3. c.id = d.id /\ c \in resources'
          BY <1>4, <2>2, <4>1, <4>2 DEF Version
        <4>4. d \in resources'
          <5>1. ASSUME d = ImportedResource(r)
                PROVE  FALSE
            <6>1. c.id[1] = r
              BY <4>3, <5>1 DEF ImportedResource, NewResource
            <6>2. r \in Requests
              BY DEF ErrorsInv, ImportInv, LocksInv, Tidy
            <6> QED
              BY <1>1, <1>2, <4>3, <6>1, <6>2 DEF Rows
          <5> QED
            BY <1>1, <4>1, <5>1 DEF Place
        <4>5. c = d
          BY <1>1, <4>3, <4>4 DEF Rows
        <4> QED
          BY <4>1, <4>5 DEF Place
      <3> QED
        BY <3>1, <3>2
    <2>4. Call[a].op = Call[r].op
      <3>1. {Call[a].op, Call[r].op} \subseteq ImportOps
        BY <1>1, <1>6 DEF Staged, ImportSteps, Imports, ErrorsInv, ImportInv, LocksInv
      <3> QED
        BY <2>2, <2>3, <3>1 DEF Place, ResourceTable, OfDataset, ImportOps
    <2>5. Call[a].artifact.name = Call[r].artifact.name
      BY <2>2, <2>3 DEF Place
    <2> QED
      BY <1>2, <2>1, <2>4, <2>5 DEF Contested, Rival, Met
  <1> QED
    BY <1>5, <1>6, Commits DEF ErrorsInv

\* What r looks for itself it has not found, and what it finds stored breaks it off.
LEMMA OwnExplained ==
    ASSUME ErrorsInv, NEW a \in Made, Step(a)
    PROVE  Explained(a)'
  <1>1. /\ Private(a) /\ Settled(a) /\ Follows(a) /\ Changes(a) /\ met \subseteq met'
        /\ resources \subseteq resources' /\ Explained(a) /\ Tidy /\ Tidy' /\ Staged(a)
        /\ Underway(a)'
    BY StepLocks, StepImports, Meeting, NewRows DEF ErrorsInv, ImportInv, LocksInv, Effect, Private
  <1>2. Contested(a) => Contested(a)'
    BY <1>1, ContestStays DEF Private
  <1>3. CASE pc'[a] = "error" /\ Call[a].op \in ImportOps
    <2>1. ~Abort(a)
      BY <1>3, Circling DEF Abort, Deadlocked, Holders, Kin, LinkUsers, ErrorsInv, ImportOps
    <2>2. CASE InsertResource(a)
      BY <1>1, <1>2, <1>3, <2>2 DEF InsertResource, Insert, Goto, Explained, Made
    <2>3. CASE InsertVersion(a)
      BY <1>1, <1>2, <1>3, <2>3 DEF InsertVersion, Insert, Goto, Explained, Made
    <2> QED
      BY <1>1, <1>3, <2>1, <2>2, <2>3 DEF Changes
  <1>4. CASE pc'[a] = "insertResource"
    <2>1. FindResource(a) /\ memo'[a].row = ImportedResource(a)
      BY <1>1, <1>4 DEF Follows, Underway, ImportedResource, NewResource
    <2>2. resources' = resources
      BY <2>1 DEF FindResource, ReadInto, tables
    <2>3. \A c \in resources :
              TableOf(c) = ResourceTable(a) /\ c.parent = Call[a].parent
                  /\ c.name = Call[a].artifact.name => ~c.external
      BY <1>1, <1>4, <2>1 DEF FindResource, ReadInto, Goto, Made
    <2>4. (\E c \in resources' : ResourceKey(c) = ResourceKey(memo'[a].row)) => Claimed(a)'
      BY <2>1, <2>2, <2>3 DEF ResourceKey, Key, Claimed, ImportedResource, NewResource, TableOf,
         ResourceTable, OfDataset
    <2> QED
      BY <1>4, <2>4 DEF Explained, Contested, Stored, ResourceKey, TableOf
  <1>5. CASE pc'[a] = "insertVersion"
    <2>1. FindVersion(a)
      BY <1>1, <1>5 DEF Follows
    <2>2. PICK new : /\ memo'[a].row = new /\ resources' = resources
                     /\ ~\E v \in resources : ResourceKey(v) = ResourceKey(new)
      <3> DEFINE new == ImportedVersion(a, memo[a].row.id)
      <3> HIDE DEF new
      <3>1. /\ ~\E v \in resources : ResourceKey(v) = ResourceKey(new)
            /\ ReadInto(a, "insertVersion", [memo[a] EXCEPT !.row = new])
        BY <1>1, <1>5, <2>1 DEF FindVersion, Answer, Reject, Goto, Made, new
      <3>2. memo'[a].row = new /\ resources' = resources
        BY <1>1, <3>1 DEF ReadInto, Remember, tables, Tidy, Made
      <3> QED
        BY <3>1, <3>2
    <2> QED
      BY <1>5, <2>2 DEF Explained, Stored, ResourceKey, TableOf
  <1> QED
    BY <1>3, <1>4, <1>5 DEF Explained

\* ImportErrors: nobody handles the conflict of an INSERT, and yet an import breaks off
\* with an error only if another one of its name was open at the same time or the API
\* had created a resource of the name: it does not for rows that others had stored before
\* it looked, and it is never the victim of a deadlock.
THEOREM ImportErrorsExplained == Spec => []ImportErrors
  <1>1. ErrorsInv /\ [Next]_vars => ErrorsInv'
    <2> SUFFICES ASSUME ErrorsInv, [Next]_vars
                 PROVE  ErrorsInv'
      OBVIOUS
    <2>1. CASE Next
      <3>1. PICK a \in Made : Step(a)
        BY <2>1 DEF Next, Step
      <3>2. MembersInv' /\ AllMet' /\ ImportInv' /\ Made' = Made
        BY <3>1, StepMembers, StepImports, StepLocks, Meeting
           DEF ErrorsInv, ImportInv, Effect, Private
      <3>3. \A r \in Made : Explained(r)'
        BY <3>1, OthersExplained, OwnExplained
      <3> QED
        BY <3>2, <3>3 DEF ErrorsInv
    <2>2. CASE UNCHANGED vars
      <3>1. MembersInv' /\ AllMet' /\ ImportInv'
        BY <2>2, MembersStutter, ImportsStutter DEF ErrorsInv, AllMet, Open, Met, vars, Made
      <3>2. \A r \in Made : Explained(r)'
        BY <2>2 DEF ErrorsInv, Explained, Contested, Rival, Claimed, Stored, Met, vars, Made
      <3> QED
        BY <2>2, <3>1, <3>2 DEF ErrorsInv, vars, Made
    <2> QED
      BY <2>1, <2>2
  <1>2. ErrorsInv => ImportErrors
    BY DEF ErrorsInv, Explained, Contested, Rival, Claimed, ImportErrors, ImportOps
  <1> QED
    BY <1>1, <1>2, InitErrors, PTL DEF Spec

-----------------------------------------------------------------------------
(* Types *)

\* Nothing is remembered behind an answer, and the role is the one that was read.
Outline(r) ==
    /\ memo'[r].role \in {memo[r].role, "NONE"} \/ Authorize(r)
    /\ pc'[r] \in Answers => memo'[r] = Blank /\ locks'[r] = {}
    /\ pc'[r] # "ready"
    /\ pc'[r] = "importCommit" => InsertVersion(r)
    /\ pc'[r] \in {"forgot", "login", "create"} => Call[r].op = pc'[r]
    /\ pc'[r] = "resend" => Authenticate(r)
    /\ pc'[r] = "issue" => RegisterCommit(r) \/ Forgot(r) \/ Resend(r)
    /\ pc'[r] \in {"retire", "insertLink", "mail", "undelivered"} =>
          pc[r] \in MailSteps /\ memo'[r].row = memo[r].row

\* The statements of accounts.
LEMMA AccountOutline ==
    ASSUME Tidy, NEW r \in Made, AccountStep(r)
    PROVE  Outline(r)
  <1>0. \A to, still : Lock(r, to, still) =>
            /\ pc'[r] \in {to, pc[r]}
            /\ memo'[r].role = memo[r].role /\ memo'[r].row = memo[r].row
    BY LockScans DEF Scans
  <1> USE DEF Outline, Tidy, Made, Answers, Goto, Remember, Answer, Blank, Read, ReadInto, Reject,
           Match, Insert, Committed, Creating, MailSteps
  <1>1. CASE Login(r)
    <2> HIDE DEF Answer, Reject, ReadInto
    <2>1. \/ Reject(r) \/ Answer(r, "done") \/ Answer(r, "error")
          \/ \E row : \E to \in {"openSession"} :
                ReadInto(r, to, [memo[r] EXCEPT !.row = row])
      BY <1>1 DEF Login
    <2>2. CASE Reject(r) \/ Answer(r, "done") \/ Answer(r, "error")
      BY <2>2 DEF Answer, Reject
    <2>3. CASE \E row : \E to \in {"openSession"} :
                   ReadInto(r, to, [memo[r] EXCEPT !.row = row])
      BY <2>3 DEF ReadInto
    <2> QED
      BY <2>1, <2>2, <2>3
  <1>2. CASE OpenSession(r)
    BY <1>2 DEF OpenSession
  <1>3. CASE Logout(r)
    BY <1>3 DEF Logout
  <1>4. CASE RegisterOrganization(r) \/ RegisterUser(r)
    BY <1>4 DEF RegisterOrganization, RegisterUser
  <1>5. CASE RegisterCommit(r)
    BY <1>5 DEF RegisterCommit
  <1>6. CASE Forgot(r)
    BY <1>6 DEF Forgot
  <1>7. CASE Resend(r)
    BY <1>7 DEF Resend
  <1>8. CASE IssueMatch(r)
    BY <1>8 DEF IssueMatch
  <1>9. CASE Retire(r)
    BY <1>0, <1>9 DEF Retire
  <1>10. CASE IssueCommit(r)
    BY <1>10 DEF IssueCommit
  <1>11. CASE Mail(r)
    BY <1>11 DEF Mail
  <1>12. CASE RetireUndelivered(r)
    BY <1>12 DEF RetireUndelivered
  <1>13. CASE FindLink(r)
    BY <1>13 DEF FindLink
  <1>14. CASE LockLink(r)
    BY <1>0, <1>14 DEF LockLink
  <1>15. CASE FindHolder(r)
    <2> HIDE DEF Answer, Reject, ReadInto
    <2>1. \/ Reject(r) \/ Answer(r, "done") \/ Answer(r, "error")
          \/ \E row : \E to \in {"matchLinks"} :
                ReadInto(r, to, [memo[r] EXCEPT !.row = row])
      BY <1>15 DEF FindHolder
    <2>2. CASE Reject(r) \/ Answer(r, "done") \/ Answer(r, "error")
      BY <2>2 DEF Answer, Reject
    <2>3. CASE \E row : \E to \in {"matchLinks"} :
                   ReadInto(r, to, [memo[r] EXCEPT !.row = row])
      BY <2>3 DEF ReadInto
    <2> QED
      BY <2>1, <2>2, <2>3
  <1>16. CASE MatchLinks(r)
    BY <1>16 DEF MatchLinks
  <1>17. CASE RetireAll(r)
    BY <1>0, <1>17 DEF RetireAll
  <1>18. CASE MatchSessions(r)
    BY <1>18 DEF MatchSessions
  <1>19. CASE RevokeSessions(r)
    BY <1>0, <1>19 DEF RevokeSessions
  <1>20. CASE UseLink(r)
    BY <1>20 DEF UseLink
  <1>21. CASE ScriptFindUser(r)
    <2> HIDE DEF Answer, Reject, ReadInto
    <2>1. \/ Reject(r) \/ Answer(r, "done") \/ Answer(r, "error")
          \/ \E row : \E to \in {"scriptSessions"} :
                ReadInto(r, to, [memo[r] EXCEPT !.row = row])
      BY <1>21 DEF ScriptFindUser
    <2>2. CASE Reject(r) \/ Answer(r, "done") \/ Answer(r, "error")
      BY <2>2 DEF Answer, Reject
    <2>3. CASE \E row : \E to \in {"scriptSessions"} :
                   ReadInto(r, to, [memo[r] EXCEPT !.row = row])
      BY <2>3 DEF ReadInto
    <2> QED
      BY <2>1, <2>2, <2>3
  <1>22. CASE ScriptFindSessions(r)
    BY <1>22 DEF ScriptFindSessions
  <1>23. CASE ScriptFlushUser(r)
    BY <1>23 DEF ScriptFlushUser
  <1>24. CASE ScriptCommit(r)
    BY <1>24 DEF ScriptCommit
  <1>25. CASE ScriptFlushSessions(r)
    BY <1>0, <1>25 DEF ScriptFlushSessions
  <1> QED
    BY <1>1, <1>2, <1>3, <1>4, <1>5, <1>6, <1>7, <1>8, <1>9, <1>10, <1>11, <1>12, <1>13, <1>14, <1>15, <1>16, <1>17, <1>18, <1>19, <1>20, <1>21, <1>22, <1>23, <1>24, <1>25 DEF AccountStep

\* The statements of governance.
LEMMA GovernanceOutline ==
    ASSUME Tidy, NEW r \in Made, GovernanceStep(r)
    PROVE  Outline(r)
  <1>0. \A to, still : Lock(r, to, still) =>
            /\ pc'[r] \in {to, pc[r]}
            /\ memo'[r].role = memo[r].role /\ memo'[r].row = memo[r].row
    BY LockScans DEF Scans
  <1> USE DEF Outline, Tidy, Made, Answers, Goto, Remember, Answer, Blank, Read, ReadInto, Reject,
           Match, Insert, Committed, Creating, MailSteps
  <1>1. CASE CreateOrganization(r)
    BY <1>1 DEF CreateOrganization
  <1>2. CASE OrganizationCommit(r)
    BY <1>2 DEF OrganizationCommit
  <1>3. CASE Bootstrap(r)
    <2> HIDE DEF Answer, Reject, ReadInto
    <2>1. \/ Reject(r) \/ Answer(r, "done") \/ Answer(r, "error")
          \/ \E row : \E to \in {"bootstrapMember", "insertUser"} :
                ReadInto(r, to, [memo[r] EXCEPT !.row = row])
      BY <1>3 DEF Bootstrap
    <2>2. CASE Reject(r) \/ Answer(r, "done") \/ Answer(r, "error")
      BY <2>2 DEF Answer, Reject
    <2>3. CASE \E row : \E to \in {"bootstrapMember", "insertUser"} :
                   ReadInto(r, to, [memo[r] EXCEPT !.row = row])
      BY <2>3 DEF ReadInto
    <2> QED
      BY <2>1, <2>2, <2>3
  <1>4. CASE InsertUser(r)
    BY <1>4 DEF InsertUser
  <1>5. CASE BootstrapMember(r)
    BY <1>5, SMTT(60) DEF BootstrapMember
  <1>6. CASE BootstrapCommit(r)
    <2> HIDE DEF Answer, Reject
    <2>1. Reject(r) \/ Answer(r, "done") \/ Answer(r, "error")
      BY <1>6 DEF BootstrapCommit
    <2> QED
      BY <2>1 DEF Answer, Reject
  <1>7. CASE AddMember(r)
    <2> HIDE DEF Answer, Reject, ReadInto
    <2>1. \/ Reject(r) \/ Answer(r, "done") \/ Answer(r, "error")
          \/ \E row : \E to \in {"insertMember"} :
                ReadInto(r, to, [memo[r] EXCEPT !.row = row])
      BY <1>7 DEF AddMember
    <2>2. CASE Reject(r) \/ Answer(r, "done") \/ Answer(r, "error")
      BY <2>2 DEF Answer, Reject
    <2>3. CASE \E row : \E to \in {"insertMember"} :
                   ReadInto(r, to, [memo[r] EXCEPT !.row = row])
      BY <2>3 DEF ReadInto
    <2> QED
      BY <2>1, <2>2, <2>3
  <1>8. CASE AddCommit(r)
    <2> HIDE DEF Answer, Reject
    <2>1. Reject(r) \/ Answer(r, "done") \/ Answer(r, "error")
      BY <1>8 DEF AddCommit
    <2> QED
      BY <2>1 DEF Answer, Reject
  <1>9. CASE Target(r)
    <2> HIDE DEF Answer, Reject, ReadInto
    <2>1. \/ Reject(r) \/ Answer(r, "done") \/ Answer(r, "error")
          \/ \E row : \E to \in {"matchOwners", "write"} :
                ReadInto(r, to, [memo[r] EXCEPT !.row = row])
      BY <1>9 DEF Target
    <2>2. CASE Reject(r) \/ Answer(r, "done") \/ Answer(r, "error")
      BY <2>2 DEF Answer, Reject
    <2>3. CASE \E row : \E to \in {"matchOwners", "write"} :
                   ReadInto(r, to, [memo[r] EXCEPT !.row = row])
      BY <2>3 DEF ReadInto
    <2> QED
      BY <2>1, <2>2, <2>3
  <1>10. CASE MatchOwners(r)
    BY <1>10 DEF MatchOwners
  <1>11. CASE LockOwners(r)
    BY <1>0, <1>11 DEF LockOwners
  <1>12. CASE CountOwners(r)
    BY <1>12 DEF CountOwners
  <1>13. CASE Write(r)
    <2> HIDE DEF Answer, Reject, ReadInto
    <2>1. \/ Reject(r) \/ Answer(r, "done") \/ Answer(r, "error")
          \/ \E row : \E to \in {"write"} :
                ReadInto(r, to, [memo[r] EXCEPT !.row = row])
      BY <1>13 DEF Write
    <2>2. CASE Reject(r) \/ Answer(r, "done") \/ Answer(r, "error")
      BY <2>2 DEF Answer, Reject
    <2>3. CASE \E row : \E to \in {"write"} :
                   ReadInto(r, to, [memo[r] EXCEPT !.row = row])
      BY <2>3 DEF ReadInto
    <2> QED
      BY <2>1, <2>2, <2>3
  <1>14. CASE Invite(r)
    BY <1>14 DEF Invite
  <1>15. CASE MatchInvitations(r)
    BY <1>15 DEF MatchInvitations
  <1>16. CASE RevokeInvitations(r)
    BY <1>0, <1>16 DEF RevokeInvitations
  <1>17. CASE InviteCommit(r)
    BY <1>17 DEF InviteCommit
  <1>18. CASE MailInvitation(r)
    BY <1>18 DEF MailInvitation
  <1>19. CASE RevokeUndelivered(r)
    BY <1>19 DEF RevokeUndelivered
  <1>20. CASE FindPending(r)
    <2> HIDE DEF Answer, Reject, ReadInto
    <2>1. \/ Reject(r) \/ Answer(r, "done") \/ Answer(r, "error")
          \/ \E row : \E to \in {"revokeCommit"} :
                ReadInto(r, to, [memo[r] EXCEPT !.row = row])
      BY <1>20 DEF FindPending
    <2>2. CASE Reject(r) \/ Answer(r, "done") \/ Answer(r, "error")
      BY <2>2 DEF Answer, Reject
    <2>3. CASE \E row : \E to \in {"revokeCommit"} :
                   ReadInto(r, to, [memo[r] EXCEPT !.row = row])
      BY <2>3 DEF ReadInto
    <2> QED
      BY <2>1, <2>2, <2>3
  <1>21. CASE RevokeCommit(r)
    BY <1>21 DEF RevokeCommit
  <1>22. CASE Accept(r)
    BY <1>22 DEF Accept
  <1>23. CASE LockInvitation(r)
    BY <1>0, <1>23 DEF LockInvitation
  <1>24. CASE FindInvited(r)
    BY <1>24 DEF FindInvited
  <1>25. CASE LockInvited(r)
    <2> HIDE DEF Answer, Reject
    <2>1. \/ Reject(r)
          \/ \E row : /\ pc' = [pc EXCEPT ![r] = "checkMember"]
                     /\ memo' = [memo EXCEPT ![r] =
                                    [memo[r] EXCEPT !.row = row, !.matched = {}]]
      BY <1>25 DEF LockInvited
    <2>2. CASE Reject(r)
      BY <2>2 DEF Answer, Reject
    <2>3. CASE ~Reject(r)
      <3>1. PICK row : /\ pc' = [pc EXCEPT ![r] = "checkMember"]
                       /\ memo' = [memo EXCEPT ![r] =
                                      [memo[r] EXCEPT !.row = row, !.matched = {}]]
        BY <2>1, <2>3
      <3>2. pc'[r] = "checkMember" /\ memo'[r].role = memo[r].role
        BY <3>1
      <3> QED
        BY <3>2
    <2> QED
      BY <2>2, <2>3
  <1>26. CASE CheckMember(r)
    BY <1>26 DEF CheckMember
  <1>27. CASE Join(r)
    <2> HIDE DEF Answer, Reject
    <2>1. Reject(r) \/ Answer(r, "done") \/ Answer(r, "error")
      BY <1>27 DEF Join
    <2> QED
      BY <2>1 DEF Answer, Reject
  <1>28. CASE InsertMember(r)
    BY <1>28 DEF InsertMember
  <1> QED
    BY <1>1, <1>2, <1>3, <1>4, <1>5, <1>6, <1>7, <1>8, <1>9, <1>10, <1>11, <1>12, <1>13, <1>14, <1>15, <1>16, <1>17, <1>18, <1>19, <1>20, <1>21, <1>22, <1>23, <1>24, <1>25, <1>26, <1>27, <1>28 DEF GovernanceStep

LEMMA CreatingOutline ==
    ASSUME Tidy, NEW r \in Made, NEW new,
           \/ ReadInto(r, "createCommit", [memo[r] EXCEPT !.row = new])
           \/ Reject(r)
    PROVE  Outline(r)
  <1>1. CASE ReadInto(r, "createCommit", [memo[r] EXCEPT !.row = new])
    <2>1. pc'[r] = "createCommit" /\ memo'[r].role = memo[r].role
      BY <1>1 DEF ReadInto, Read, Remember, Goto, Tidy, Made
    <2> QED
      BY <2>1 DEF Outline, Answers
  <1>2. CASE Reject(r)
    <2>1. pc'[r] = "refused" /\ memo'[r] = Blank /\ locks'[r] = {}
      BY <1>2 DEF Reject, Answer, Goto, Tidy, Made
    <2> QED
      BY <2>1 DEF Outline, Answers, Blank, MailSteps
  <1> QED
    BY <1>1, <1>2

\* The statements of resources.
LEMMA ResourceOutline ==
    ASSUME Tidy, NEW r \in Made, ResourceStep(r)
    PROVE  Outline(r)
  <1>1. CASE CreateProject(r)
    BY CreatingOutline, <1>1 DEF CreateProject, Creating
  <1>2. CASE CreateResource(r)
    BY CreatingOutline, <1>2 DEF CreateResource, Creating
  <1>3. CASE CreateSystem(r)
    BY CreatingOutline, <1>3 DEF CreateSystem, Creating
  <1>4. CASE CreateSystemVersion(r)
    BY CreatingOutline, <1>4 DEF CreateSystemVersion, Creating
  <1>5. CASE CreateReview(r)
    BY CreatingOutline, <1>5 DEF CreateReview, Creating
  <1> USE DEF Outline, Tidy, Made, Answers, Goto, Remember, Answer, Blank, Read, ReadInto, Reject,
           Match, Insert, Committed, MailSteps
  <1>6. CASE CreateCommit(r)
    <2> HIDE DEF Answer, Reject
    <2>1. Reject(r) \/ Answer(r, "done") \/ Answer(r, "error")
      BY <1>6 DEF CreateCommit
    <2> QED
      BY <2>1 DEF Answer, Reject
  <1>7. CASE Scope(r)
    BY <1>7 DEF Scope
  <1>8. CASE Ground(r)
    BY <1>8 DEF Ground
  <1>9. CASE FindResource(r)
    <2> HIDE DEF Answer, Reject, ReadInto
    <2>1. \/ Reject(r) \/ Answer(r, "done") \/ Answer(r, "error")
          \/ \E row : \E to \in {"findVersion", "insertResource"} :
                ReadInto(r, to, [memo[r] EXCEPT !.row = row])
      BY <1>9 DEF FindResource
    <2>2. CASE Reject(r) \/ Answer(r, "done") \/ Answer(r, "error")
      BY <2>2 DEF Answer, Reject
    <2>3. CASE \E row : \E to \in {"findVersion", "insertResource"} :
                   ReadInto(r, to, [memo[r] EXCEPT !.row = row])
      BY <2>3 DEF ReadInto
    <2> QED
      BY <2>1, <2>2, <2>3
  <1>10. CASE InsertResource(r)
    BY <1>10 DEF InsertResource
  <1>11. CASE FindVersion(r)
    <2> HIDE DEF Answer, Reject, ReadInto
    <2>1. \/ Reject(r) \/ Answer(r, "done") \/ Answer(r, "error")
          \/ \E row : \E to \in {"insertVersion"} :
                ReadInto(r, to, [memo[r] EXCEPT !.row = row])
      BY <1>11 DEF FindVersion
    <2>2. CASE Reject(r) \/ Answer(r, "done") \/ Answer(r, "error")
      BY <2>2 DEF Answer, Reject
    <2>3. CASE \E row : \E to \in {"insertVersion"} :
                   ReadInto(r, to, [memo[r] EXCEPT !.row = row])
      BY <2>3 DEF ReadInto
    <2> QED
      BY <2>1, <2>2, <2>3
  <1>12. CASE InsertVersion(r)
    BY <1>12 DEF InsertVersion
  <1>13. CASE ImportCommit(r)
    BY <1>13 DEF ImportCommit
  <1> QED
    BY <1>1, <1>2, <1>3, <1>4, <1>5, <1>6, <1>7, <1>8, <1>9, <1>10, <1>11, <1>12, <1>13 DEF ResourceStep

\* Where a user or a resource is remembered that will be written.
UserSteps == {"openSession", "createOrganization", "organizationCommit", "insertUser",
              "bootstrapMember", "insertMember", "bootstrapCommit", "checkMember", "join", "resend"}
RowSteps == {"createCommit", "insertResource", "findVersion", "insertVersion", "importCommit"}
Typed(r) ==
    /\ pc[r] \in UserSteps => memo[r].row \in Users
    /\ pc[r] = "forgot" => Call[r].op = "forgot"
    /\ pc[r] \in {"login", "openSession"} => Call[r].op = "login"
    /\ pc[r] = "resend" => Call[r].op = "resend"
    /\ pc[r] = "create" => Call[r].op = "create"
    /\ pc[r] \in MailSteps =>
          /\ Call[r].op \in {"register", "forgot", "resend"}
          /\ Call[r].op = "resend" => memo[r].row \in Users
    /\ pc[r] \in RowSteps => IsResource(memo[r].row)

TypesInv == UseInv /\ TypeOK /\ \A r \in Made : Typed(r)

\* The rows there are at the start are of their types, and nothing is remembered.
LEMMA InitTypes == Init => TypesInv
  <1> SUFFICES ASSUME Init
               PROVE  TypesInv
    OBVIOUS
  <1>1. PICK w \in Workloads : pc = [r \in w |-> "ready"]
    BY DEF Init
  <1>2. \A r \in Made : pc[r] = "ready" /\ locks[r] = {} /\ memo[r] = Blank
    BY <1>1 DEF Init, Made
  <1>3. Made \subseteq Requests
    BY <1>1, ServiceAssumption DEF Made
  <1>4. organizations \subseteq Slugs
    BY ServiceAssumption DEF Init, Memberships
  <1>5. \A r \in Made : Typed(r)
    BY <1>2 DEF Typed, UserSteps, MailSteps, RowSteps
  <1>6. TypeOK
    BY <1>2, <1>3, <1>4, ServiceAssumption DEF Init, TypeOK, Blank, Answers
  <1> QED
    BY <1>5, <1>6, InitUse DEF TypesInv

\* What any step leaves behind.
LEMMA StepOutline ==
    ASSUME Tidy, NEW r \in Made, Staged(r), Step(r)
    PROVE  Outline(r)
  <1> r \in Requests
    BY DEF Tidy
  <1>1. CASE Begin(r)
    <2>1. /\ Entry(r) \in {"authenticate", "findLink", "import"} \union Unsigned
          /\ Entry(r) \notin {"ready", "importCommit", "resend"} \union MailSteps \union Answers
      BY CallAssumption DEF Entry, Operations, Unsigned, Answers, MailSteps
    <2>2. pc' = [pc EXCEPT ![r] = Entry(r)] /\ memo' = memo
      BY <1>1 DEF Begin, Goto
    <2>3. pc'[r] = Entry(r)
      BY <2>2 DEF Made
    <2>4. Entry(r) \in {"forgot", "login", "create"} => Call[r].op = Entry(r)
      BY CallAssumption DEF Entry, Operations, Unsigned
    <2> QED
      BY <1>1, <2>1, <2>2, <2>3, <2>4 DEF Outline, MailSteps
  <1>2. CASE Authenticate(r)
    <2> USE DEF Tidy, Made, Answers, Goto, Remember
    <2>1. CASE Reject(r)
      BY <2>1 DEF Reject, Answer, Blank, Outline
    <2>2. CASE ~Reject(r)
      <3>1. PICK u : ReadInto(r, IF Call[r].op \in Personal THEN Call[r].op ELSE "authorize",
                              [memo[r] EXCEPT !.row = u])
        BY <1>2, <2>2 DEF Authenticate
      <3> QED
        BY <1>2, <3>1 DEF ReadInto, Personal, Outline, MailSteps
    <2> QED
      BY <2>1, <2>2
  <1>3. CASE Authorize(r)
    <2> USE DEF Tidy, Made, Answers, Goto, Remember
    <2>1. CASE Reject(r)
      BY <2>1 DEF Reject, Answer, Blank, Outline
    <2>2. CASE ~Reject(r)
      <3>1. Call[r].op \in Operations \ Personal
        BY <1>3, CallAssumption DEF Authorize, Staged
      <3>2. PICK m, to : /\ ReadInto(r, to, [memo[r] EXCEPT !.role = m])
                         /\ to \in {"target", "import", Call[r].op}
        BY <1>3, <2>2 DEF Authorize
      <3>3. to \notin {"ready", "importCommit", "resend"} \union MailSteps \union Answers
        BY <3>1, <3>2 DEF Operations, Unsigned, Personal, MailSteps
      <3>4. pc'[r] = to
        BY <3>2 DEF ReadInto
      <3>5. to \in {"forgot", "login", "create"} => Call[r].op = to
        BY <3>2
      <3> QED
        BY <1>3, <3>3, <3>4, <3>5 DEF Outline, MailSteps
    <2> QED
      BY <2>1, <2>2
  <1>4. CASE Crash(r) \/ Abort(r)
    BY <1>4 DEF Crash, Abort, Answer, Goto, Blank, Outline, Tidy, Made, Answers, MailSteps
  <1> QED
    BY <1>1, <1>2, <1>3, <1>4, AccountOutline, GovernanceOutline, ResourceOutline
       DEF Step, Statement

\* What is known of a step.
LEMMA StepKnown ==
    ASSUME TypesInv, NEW a \in Made, Step(a)
    PROVE  /\ UseInv' /\ Effect(a) /\ Outline(a) /\ Staged(a) /\ Staged(a)' /\ Typed(a)
           /\ a \in Requests /\ Made' = Made /\ a \in Ids
  <1>1. LocksInv /\ UseInv /\ TypeOK
    BY DEF TypesInv, UseInv
  <1> QED
    BY <1>1, StepLocks, StepUse, StepOutline DEF TypesInv, LocksInv, Effect, Private, Tidy, Ids

\* What commits to the users is a user.
LEMMA UsersType ==
    ASSUME TypesInv, NEW a \in Made, Step(a)
    PROVE  users' \subseteq Users
  <1> DEFINE call == Call[a]
  <1>1. Effect(a) /\ Staged(a) /\ Typed(a) /\ a \in Requests /\ users \subseteq Users
    BY StepKnown DEF TypesInv, TypeOK
  <1>2. CASE RegisterCommit(a)
    <2>1. call.op = "register"
      BY <1>1, <1>2 DEF RegisterCommit, Staged
    <2>2. call.email \in Emails /\ call.password \in Passwords
      BY <1>1, <2>1, CallTypes
    <2>3. NewUser(a, FALSE) \in Users
      BY <2>2 DEF NewUser, Users
    <2> QED
      BY <1>1, <1>2, <2>3 DEF RegisterCommit
  <1>3. CASE UseLink(a)
    <2>1. call.op \in LinkOps
      BY <1>1, <1>3 DEF UseLink, Staged, LinkSteps, Holding
    <2>2. call.op = "reset" => call.password \in Passwords
      BY <1>1, CallTypes
    <2>3. \A u \in Users : Changed(a, u) \in Users
      BY <2>1, <2>2 DEF Changed, KindOf, Users, LinkOps
    <2> QED
      BY <1>1, <1>3, <2>3 DEF UseLink, Rewritten, UserOf
  <1>4. CASE ScriptCommit(a)
    <2>1. call.op = "scriptReset"
      BY <1>1, <1>4 DEF ScriptCommit, Staged, ScriptSteps
    <2>2. call.password \in Passwords
      BY <1>1, <2>1, CallTypes
    <2>3. \A u \in Users : [u EXCEPT !.password = call.password] \in Users
      BY <2>2 DEF Users
    <2> QED
      BY <1>1, <1>4, <2>3 DEF ScriptCommit, Rewritten, UserOf
  <1>5. CASE BootstrapCommit(a)
    BY <1>1, <1>5 DEF BootstrapCommit, tables, accounts, Typed, UserSteps
  <1>6. CASE Join(a)
    BY <1>1, <1>6 DEF Join, Reject, tables, accounts, Typed, UserSteps, UserOf
  <1> QED
    BY <1>1, <1>2, <1>3, <1>4, <1>5, <1>6 DEF Effect, Changes

\* What is revoked or used is still a session, a link or an invitation.
LEMMA MarkedTypes ==
    /\ \A s \in Sessions : Revoked(s) \in Sessions
    /\ \A l \in Links : Used(l) \in Links
    /\ \A i \in Invitations : Revoked(i) \in Invitations
  BY DEF Sessions, Links, Invitations, Revoked, Used

\* Who accepts an invitation finds it.
LEMMA InvitationFound ==
    ASSUME TypesInv, NEW a \in Made, Accepting(a)
    PROVE  InvitationOf(a) \in invitations /\ InvitationOf(a) \in Invitations
  <1>1. \E i \in invitations : i.id = Call[a].invitation
    BY DEF TypesInv, UseInv, Offered, Invites
  <1> QED
    BY <1>1 DEF InvitationOf, TypesInv, TypeOK

\* What commits to the sessions is a session.
LEMMA SessionsType ==
    ASSUME TypesInv, NEW a \in Made, Step(a)
    PROVE  sessions' \subseteq Sessions
  <1> DEFINE call == Call[a]
  <1>1. Effect(a) /\ Staged(a) /\ Typed(a) /\ a \in Requests /\ a \in Ids
    BY StepKnown
  <1>2. sessions \subseteq Sessions
    BY DEF TypesInv, TypeOK
  <1>3. \A email \in Emails, password \in Passwords : NewSession(a, email, password) \in Sessions
    BY <1>1 DEF NewSession, Sessions
  <1>4. CASE OpenSession(a)
    <2>1. memo[a].row \in Users /\ call.op = "login"
      BY <1>1, <1>4 DEF OpenSession, Typed, UserSteps
    <2>2. memo[a].row.email \in Emails /\ call.password \in Passwords
      BY <1>1, <2>1, CallTypes DEF Users
    <2> QED
      BY <1>2, <1>3, <1>4, <2>2 DEF OpenSession
  <1>5. CASE Logout(a)
    BY <1>2, <1>5, MarkedTypes DEF Logout, Rewritten
  <1>6. CASE RegisterCommit(a)
    <2>1. call.op = "register"
      BY <1>1, <1>6 DEF RegisterCommit, Staged
    <2>2. call.email \in Emails /\ call.password \in Passwords
      BY <1>1, <2>1, CallTypes
    <2> QED
      BY <1>2, <1>3, <1>6, <2>2 DEF RegisterCommit
  <1>7. CASE UseLink(a)
    BY <1>2, <1>7, MarkedTypes DEF UseLink, Rewritten, Locked
  <1>8. CASE ScriptCommit(a)
    BY <1>2, <1>8, MarkedTypes DEF ScriptCommit, Rewritten, Locked
  <1>9. CASE Join(a)
    <2>1. memo[a].row \in Users /\ call.op = "accept"
      BY <1>1, <1>9 DEF Join, Typed, UserSteps, Staged, AcceptSteps, Joining
    <2>2. memo[a].row.email \in Emails /\ call.password \in Passwords
      BY <1>1, <2>1, CallTypes DEF Users
    <2> QED
      BY <1>2, <1>3, <1>9, <2>2 DEF Join, Reject, tables, accounts
  <1> QED
    BY <1>1, <1>2, <1>4, <1>5, <1>6, <1>7, <1>8, <1>9 DEF Effect, Changes

\* What commits to the memberships is a membership, and to the organizations a slug.
LEMMA MembershipsType ==
    ASSUME TypesInv, NEW a \in Made, Step(a)
    PROVE  memberships' \subseteq Memberships /\ organizations' \subseteq Slugs
  <1> DEFINE call == Call[a]
  <1>1. Effect(a) /\ Staged(a) /\ Typed(a) /\ a \in Requests /\ a \in Ids
    BY StepKnown
  <1>2. memberships \subseteq Memberships /\ organizations \subseteq Slugs
    BY DEF TypesInv, TypeOK
  <1>3. \A org \in Slugs, email \in Emails, role \in Roles :
           NewMember(a, org, email, role) \in Memberships
    BY <1>1 DEF NewMember, Memberships
  <1>4. "OWNER" \in Roles
    BY DEF Roles
  <1>5. /\ call.op \in {"register", "createOrganization", "bootstrap", "add"} => call.org \in Slugs
        /\ call.op \in {"register", "bootstrap", "add"} => call.email \in Emails
        /\ call.op \in {"add", "change"} => call.role \in Roles
    BY <1>1, CallTypes DEF Appointments
  <1>6. CASE RegisterCommit(a)
    <2>1. call.op = "register"
      BY <1>1, <1>6 DEF RegisterCommit, Staged
    <2> QED
      BY <1>2, <1>3, <1>4, <1>5, <1>6, <2>1 DEF RegisterCommit
  <1>7. CASE OrganizationCommit(a)
    <2>1. call.op = "createOrganization" /\ memo[a].row \in Users
      BY <1>1, <1>7 DEF OrganizationCommit, Staged, Typed, UserSteps
    <2>2. memo[a].row.email \in Emails
      BY <2>1 DEF Users
    <2> QED
      BY <1>2, <1>3, <1>4, <1>5, <1>7, <2>1, <2>2 DEF OrganizationCommit
  <1>8. CASE BootstrapCommit(a)
    <2>1. call.op = "bootstrap"
      BY <1>1, <1>8 DEF BootstrapCommit, Staged, BootstrapSteps
    <2> QED
      BY <1>2, <1>3, <1>4, <1>5, <1>8, <2>1 DEF BootstrapCommit, tables, governance
  <1>9. CASE AddCommit(a)
    <2>1. call.op = "add"
      BY <1>1, <1>9 DEF AddCommit, Staged
    <2> QED
      BY <1>2, <1>3, <1>5, <1>9, <2>1 DEF AddCommit, Reject, tables, governance
  <1>10. CASE Write(a)
    <2>1. call.op \in {"change", "remove"}
      BY <1>1, <1>10 DEF Write, Staged, Managing
    <2>2. call.op = "change" => \A m \in Memberships : [m EXCEPT !.role = call.role] \in Memberships
      BY <1>5 DEF Memberships
    <2> QED
      BY <1>2, <1>10, <2>1, <2>2 DEF Write, Rewritten, tables, governance
  <1>11. CASE Join(a)
    <2>1. memo[a].row \in Users /\ call.op = "accept" /\ Accepting(a)
      BY <1>1, <1>11 DEF Join, Typed, UserSteps, Staged, AcceptSteps, Joining, Accepting
    <2>2. memo[a].row.email \in Emails
      BY <2>1 DEF Users
    <2>3. OrgOf(a) \in Slugs /\ InvitationOf(a).role \in Roles
      BY <2>1, InvitationFound DEF OrgOf, Invitations
    <2> QED
      BY <1>2, <1>3, <1>11, <2>2, <2>3 DEF Join, Reject, tables, governance
  <1> QED
    BY <1>1, <1>2, <1>6, <1>7, <1>8, <1>9, <1>10, <1>11 DEF Effect, Changes

\* What commits to the links is a link.
LEMMA LinksType ==
    ASSUME TypesInv, NEW a \in Made, Step(a)
    PROVE  links' \subseteq Links
  <1> DEFINE call == Call[a]
  <1>1. Effect(a) /\ Typed(a) /\ a \in Requests /\ a \in Ids
    BY StepKnown
  <1>2. links \subseteq Links
    BY DEF TypesInv, TypeOK
  <1>3. CASE IssueCommit(a)
    <2>1. /\ call.op \in {"register", "forgot", "resend"}
          /\ call.op = "resend" => memo[a].row \in Users
      BY <1>1, <1>3 DEF IssueCommit, Typed, MailSteps
    <2>2. call.op # "resend" => call.email \in Emails
      BY <1>1, <2>1, CallTypes
    <2>3. OwnerOf(a) \in Emails
      BY <2>1, <2>2 DEF OwnerOf, Users
    <2>4. NewLink(a) \in Links
      BY <1>1, <2>3 DEF NewLink, KindOf, Links
    <2> QED
      BY <1>2, <1>3, <2>4, MarkedTypes DEF IssueCommit, Rewritten, Locked
  <1>4. CASE RetireUndelivered(a)
    BY <1>2, <1>4, MarkedTypes DEF RetireUndelivered, Rewritten
  <1>5. CASE UseLink(a)
    BY <1>2, <1>5, MarkedTypes DEF UseLink, Rewritten, Locked
  <1> QED
    BY <1>1, <1>2, <1>3, <1>4, <1>5 DEF Effect, Changes

\* What commits to the invitations is an invitation.
LEMMA InvitationsType ==
    ASSUME TypesInv, NEW a \in Made, Step(a)
    PROVE  invitations' \subseteq Invitations
  <1> DEFINE call == Call[a]
  <1>1. Effect(a) /\ Staged(a) /\ a \in Requests /\ a \in Ids
    BY StepKnown
  <1>2. invitations \subseteq Invitations
    BY DEF TypesInv, TypeOK
  <1>3. CASE InviteCommit(a)
    <2>1. call.op = "invite"
      BY <1>1, <1>3 DEF InviteCommit, Staged, InviteSteps
    <2>2. call.org \in Slugs /\ call.email \in Emails /\ call.role \in Roles
      BY <1>1, <2>1, CallTypes DEF Appointments
    <2>3. NewInvitation(a) \in Invitations
      BY <1>1, <2>2 DEF NewInvitation, Invitations
    <2> QED
      BY <1>2, <1>3, <2>3, MarkedTypes DEF InviteCommit, Rewritten, Locked
  <1>4. CASE RevokeUndelivered(a)
    BY <1>2, <1>4, MarkedTypes DEF RevokeUndelivered, Rewritten
  <1>5. CASE RevokeCommit(a)
    BY <1>2, <1>5, MarkedTypes DEF RevokeCommit, Rewritten
  <1>6. CASE Join(a)
    <2>1. Accepting(a)
      BY <1>6 DEF Join, Accepting, Joining
    <2>2. InvitationOf(a) \in Invitations
      BY <2>1, InvitationFound
    <2>3. \A i \in Invitations : [i EXCEPT !.accepted = TRUE] \in Invitations
      BY DEF Invitations
    <2> QED
      BY <1>2, <1>6, <2>2, <2>3 DEF Join, Rewritten, Reject, tables, governance
  <1> QED
    BY <1>1, <1>2, <1>3, <1>4, <1>5, <1>6 DEF Effect, Changes

\* What commits to the resources is a resource.
LEMMA ResourcesType ==
    ASSUME TypesInv, NEW a \in Made, Step(a)
    PROVE  \A row \in resources' : IsResource(row)
  <1>1. Effect(a) /\ Staged(a) /\ Typed(a) /\ a \in Requests /\ a \in Ids
    BY StepKnown
  <1>2. \A row \in resources : IsResource(row)
    BY DEF TypesInv, TypeOK
  <1>3. CASE CreateCommit(a)
    BY <1>1, <1>2, <1>3 DEF CreateCommit, Reject, tables, Typed, RowSteps
  <1>4. CASE ImportCommit(a)
    <2>1. Call[a].op \in ImportOps
      BY <1>1, <1>4 DEF ImportCommit, Staged, ImportSteps, ImportOps
    <2>2. /\ Call[a].org \in Slugs /\ Call[a].parent \in ResourceIds
          /\ Call[a].artifact.name \in Names
      BY <1>1, <2>1, CallTypes
    <2>3. <<a, ResourceTable(a)>> \in ResourceIds
      BY <1>1 DEF ResourceTable, ResourceIds, Tables
    <2>4. IsResource(ImportedResource(a))
      BY <2>2, <2>3 DEF IsResource, ImportedResource, NewResource
    <2> QED
      BY <1>1, <1>2, <1>4, <2>4 DEF ImportCommit, Typed, RowSteps
  <1> QED
    BY <1>1, <1>2, <1>3, <1>4 DEF Effect, Changes

\* What the next statement relies on is of its type.
LEMMA OwnTyped ==
    ASSUME TypesInv, NEW a \in Made, Step(a)
    PROVE  Typed(a)'
  <1> DEFINE call == Call[a]
  <1>1. /\ Effect(a) /\ Outline(a) /\ Staged(a) /\ Staged(a)' /\ Typed(a)
        /\ a \in Requests /\ a \in Ids /\ Tidy /\ DOMAIN memo = Made
    BY StepKnown DEF TypesInv, UseInv, LocksInv, Tidy
  <1>2. users \subseteq Users /\ \A row \in resources : IsResource(row)
    BY DEF TypesInv, TypeOK
  <1>3. pc'[a] \in UserSteps => memo'[a].row \in Users
    <2> USE <1>1, <1>2 DEF Goto, Remember, Made, Tidy
    <2>1. CASE pc'[a] = "openSession"
      <3>1. Login(a)
        BY <2>1 DEF Effect, Follows
      <3> QED
        BY <2>1, <3>1 DEF Login, ReadInto, Reject, Answer, RequestedUser, UserOf
    <2>2. CASE pc'[a] \in {"createOrganization", "resend"}
      <3>1. Authenticate(a)
        BY <2>2 DEF Effect, Follows, Outline
      <3> QED
        BY <2>2, <3>1 DEF Authenticate, ReadInto, Reject, Answer
    <2>3. CASE pc'[a] = "organizationCommit"
      <3>1. CreateOrganization(a)
        BY <2>3 DEF Effect, Follows
      <3>2. pc[a] = "createOrganization" /\ memo'[a].row = memo[a].row
        BY <2>3, <3>1 DEF CreateOrganization, Insert, Reject, Answer
      <3> QED
        BY <3>2 DEF Typed, UserSteps
    <2>4. CASE pc'[a] = "insertUser"
      <3>1. CASE Bootstrap(a)
        <4>1. call.op = "bootstrap"
          BY <3>1 DEF Bootstrap, Staged, BootstrapSteps
        <4>2. NewUser(a, TRUE) \in Users
          BY <4>1, CallTypes DEF NewUser, Users
        <4> QED
          BY <2>4, <3>1, <4>2 DEF Bootstrap, ReadInto, Reject, Answer
      <3>2. CASE FindInvited(a)
        <4>1. call.op = "accept" /\ Accepting(a)
          BY <3>2 DEF FindInvited, Staged, AcceptSteps, Accepting, Joining
        <4>2. InvitedUser(a) \in Users
          BY <4>1, CallTypes, InvitationFound DEF InvitedUser, Users, Invitations
        <4> QED
          BY <2>4, <3>2, <4>2 DEF FindInvited, ReadInto, Reject, Answer, Match
      <3> QED
        BY <2>4, <3>1, <3>2 DEF Effect, Follows
    <2>5. CASE pc'[a] = "bootstrapMember"
      <3>1. CASE Bootstrap(a)
        BY <2>5, <3>1 DEF Bootstrap, ReadInto, Reject, Answer, RequestedUser, UserOf
      <3>2. CASE InsertUser(a)
        BY <2>5, <3>2 DEF InsertUser, Insert, Answer, Typed, UserSteps
      <3> QED
        BY <2>5, <3>1, <3>2 DEF Effect, Follows
    <2>6. CASE pc'[a] = "insertMember"
      <3>1. CASE AddMember(a)
        BY <2>6, <3>1 DEF AddMember, ReadInto, Reject, Answer, RequestedUser, UserOf
      <3>2. CASE BootstrapMember(a)
        BY <2>6, <3>2 DEF BootstrapMember, Read, Reject, Answer, Typed, UserSteps
      <3> QED
        BY <2>6, <3>1, <3>2 DEF Effect, Follows
    <2>9. CASE pc'[a] = "bootstrapCommit"
      <3>1. InsertMember(a)
        BY <2>9 DEF Effect, Follows
      <3> QED
        BY <2>9, <3>1 DEF InsertMember, Insert, Answer, Typed, UserSteps
    <2>7. CASE pc'[a] = "checkMember"
      <3>1. CASE LockInvited(a)
        <4>1. PICK u \in Invited(a) : memo'[a].row = [u EXCEPT !.verified = TRUE]
          BY <2>7, <3>1 DEF LockInvited, Reject, Answer
        <4>2. u \in Users
          BY <4>1 DEF Invited, UserOf
        <4> QED
          BY <4>1, <4>2 DEF Users
      <3>2. CASE InsertUser(a)
        BY <2>7, <3>2 DEF InsertUser, Insert, Answer, Typed, UserSteps
      <3> QED
        BY <2>7, <3>1, <3>2 DEF Effect, Follows
    <2>8. CASE pc'[a] = "join"
      <3>1. CheckMember(a)
        BY <2>8 DEF Effect, Follows
      <3> QED
        BY <2>8, <3>1 DEF CheckMember, Read, Reject, Answer, Typed, UserSteps
    <2> QED
      BY <2>1, <2>2, <2>3, <2>4, <2>5, <2>6, <2>7, <2>8, <2>9 DEF UserSteps
  <1>4. /\ pc'[a] = "forgot" => call.op = "forgot"
        /\ pc'[a] = "create" => call.op = "create"
        /\ pc'[a] = "resend" => call.op = "resend"
        /\ pc'[a] \in {"login", "openSession"} => call.op = "login"
    <2>1. pc'[a] = "resend" => Authenticate(a)
      BY <1>1 DEF Outline
    <2>2. pc'[a] = "openSession" => pc[a] = "login"
      BY <1>1 DEF Effect, Follows, Login
    <2>3. pc'[a] = "resend" => call.op = "resend"
      BY <1>1, <2>1 DEF Authenticate, ReadInto, Reject, Answer, Goto, Made
    <2> QED
      BY <1>1, <2>2, <2>3 DEF Outline, Typed
  <1>5. pc'[a] \in MailSteps =>
          /\ call.op \in {"register", "forgot", "resend"}
          /\ call.op = "resend" => memo'[a].row \in Users
    <2> SUFFICES ASSUME pc'[a] \in MailSteps
                 PROVE  /\ call.op \in {"register", "forgot", "resend"}
                        /\ call.op = "resend" => memo'[a].row \in Users
      OBVIOUS
    <2>1. CASE pc'[a] = "issue"
      <3>1. CASE RegisterCommit(a) \/ Forgot(a)
        BY <1>1, <3>1 DEF RegisterCommit, Forgot, Staged, Typed
      <3>2. CASE Resend(a)
        BY <1>1, <2>1, <3>2 DEF Resend, Read, Answer, Goto, Made, Typed, UserSteps
      <3> QED
        BY <1>1, <2>1, <3>1, <3>2 DEF Outline
    <2>2. CASE pc'[a] # "issue"
      <3>1. pc[a] \in MailSteps /\ memo'[a].row = memo[a].row
        BY <1>1, <2>2 DEF MailSteps, Outline
      <3> QED
        BY <1>1, <3>1 DEF Typed
    <2> QED
      BY <2>1, <2>2
  <1>6. pc'[a] \in RowSteps => IsResource(memo'[a].row)
    <2> USE DEF Goto, Remember, Made, Tidy
    <2>1. CASE pc'[a] = "createCommit"
      <3>1. PICK parent : /\ Creating(a, parent, TRUE) /\ pc[a] = "create"
                          /\ parent \in ResourceIds /\ call.table \in Tables
        <4>1. ResourceStep(a)
          BY <1>1, <2>1 DEF Effect, Changes
        <4>2. \/ CreateProject(a) \/ CreateResource(a) \/ CreateSystem(a)
              \/ CreateSystemVersion(a) \/ CreateReview(a)
          BY <1>1, <2>1, <4>1 DEF ResourceStep, CreateCommit, Scope, Ground, FindResource,
             InsertResource, FindVersion, InsertVersion, ImportCommit, Reject, Answer, Read,
             ReadInto, Insert
        <4>3. ~Reject(a)
          BY <1>1, <2>1 DEF Reject, Answer
        <4>4. pc[a] = "create" /\ call.table \in Tables
          BY <4>2 DEF CreateProject, CreateResource, CreateSystem, CreateSystemVersion,
             CreateReview, Tables
        <4>5. call.org \in Slugs
          BY <1>1, <4>4, CallTypes DEF Typed
        <4>6. <<call.org, "organization">> \in ResourceIds
          BY <4>5 DEF ResourceIds, Tables
        <4>7. \A table : ParentFound(a, table) => call.parent \in ResourceIds
          BY <1>2 DEF ParentFound, IsResource
        <4> QED
          BY <4>2, <4>3, <4>4, <4>6, <4>7 DEF CreateProject, CreateResource, CreateSystem,
             CreateSystemVersion, CreateReview, Creating
      <3>2. call.org \in Slugs /\ call.name \in Names \union {a}
        BY <1>1, <3>1, CallTypes DEF Typed
      <3>3. <<a, call.table>> \in ResourceIds
        BY <1>1, <3>1 DEF ResourceIds
      <3>4. IsResource(NewResource(<<a, call.table>>, call.org, parent, call.name))
        BY <1>1, <3>1, <3>2, <3>3 DEF IsResource, NewResource
      <3> QED
        BY <1>1, <2>1, <3>1, <3>4 DEF Creating, ReadInto, Reject, Answer
    <2>2. ASSUME pc'[a] \in {"insertResource", "findVersion"}, FindResource(a)
          PROVE  IsResource(memo'[a].row)
      <3>1. call.op \in ImportOps
        BY <1>1, <2>2 DEF FindResource, Staged, ImportSteps, ImportOps
      <3>2. IsResource(ImportedResource(a))
        BY <1>1, <3>1, CallTypes DEF IsResource, ImportedResource, NewResource, ResourceTable,
           ResourceIds, Tables
      <3> QED
        BY <1>1, <1>2, <2>2, <3>2 DEF FindResource, ReadInto
    <2>3. CASE pc'[a] = "insertResource"
      BY <1>1, <2>2, <2>3 DEF Effect, Follows
    <2>4. CASE pc'[a] = "findVersion"
      <3>1. CASE InsertResource(a)
        BY <1>1, <2>4, <3>1 DEF InsertResource, Insert, Answer, Typed, RowSteps
      <3> QED
        BY <1>1, <2>2, <2>4, <3>1 DEF Effect, Follows
    <2>5. CASE pc'[a] = "insertVersion"
      <3>1. FindVersion(a)
        BY <1>1, <2>5 DEF Effect, Follows
      <3>2. call.op \in ImportOps /\ memo[a].row.id \in ResourceIds
        BY <1>1, <3>1 DEF FindVersion, Staged, ImportSteps, ImportOps, Typed, RowSteps,
           IsResource
      <3>3. IsResource(ImportedVersion(a, memo[a].row.id))
        BY <1>1, <3>2, CallTypes DEF IsResource, ImportedVersion, NewResource, VersionTable,
           ResourceIds, Tables
      <3> QED
        BY <1>1, <2>5, <3>1, <3>3 DEF FindVersion, ReadInto, Reject, Answer
    <2>6. CASE pc'[a] = "importCommit"
      <3>1. InsertVersion(a)
        BY <1>1, <2>6 DEF Outline
      <3> QED
        BY <1>1, <2>6, <3>1 DEF InsertVersion, Insert, Answer, Typed, RowSteps
    <2> QED
      BY <2>1, <2>3, <2>4, <2>5, <2>6 DEF RowSteps
  <1> QED
    BY <1>3, <1>4, <1>5, <1>6 DEF Typed

LEMMA TwoOfThem ==
    ASSUME NEW x, NEW y, x # y
    PROVE  Cardinality({x, y}) = 2
  <1>1. IsFiniteSet({y}) /\ Cardinality({y}) = 1
    BY FS_Singleton
  <1>2. {x, y} = {y} \union {x} /\ x \notin {y}
    OBVIOUS
  <1> QED
    BY <1>1, <1>2, FS_AddElement

\* What is open at the same time are two.
LEMMA PairsType ==
    ASSUME TypesInv, NEW a \in Made, Step(a)
    PROVE  \A pair \in met' : pair \subseteq Made' /\ Cardinality(pair) = 2
  <1>1. Effect(a) /\ Made' = Made /\ \A pair \in met : pair \subseteq Made /\ Cardinality(pair) = 2
    BY StepKnown DEF TypesInv, TypeOK
  <1>2. CASE Begin(a)
    <2>1. \A q \in Made : Open(q) => Cardinality({a, q}) = 2
      BY <1>2, TwoOfThem DEF Begin, Open
    <2>2. met' = met \union {{a, q} : q \in {q \in Made : Open(q)}}
      BY <1>2 DEF Begin
    <2> QED
      BY <1>1, <2>1, <2>2
  <1> QED
    BY <1>1, <1>2 DEF Effect, Changes

\* The role that is remembered is one, and nothing is before the first statement and
\* after the last.
LEMMA MemoType ==
    ASSUME TypesInv, NEW a \in Made, Step(a)
    PROVE  \A r \in Made' : /\ memo'[r].role \in Roles \union {"NONE"}
                            /\ ~Open(r)' => memo'[r] = Blank /\ locks'[r] = {}
  <1>1. Outline(a) /\ Made' = Made /\ Tidy /\ DOMAIN memo = Made
    BY StepKnown DEF TypesInv, UseInv, LocksInv, Tidy
  <1>5. \A r \in Made : memo[r].role \in Roles \union {"NONE"}
    BY DEF TypesInv, TypeOK
  <1>6. \A r \in Made : pc[r] \in {"ready"} \union Answers => memo[r] = Blank /\ locks[r] = {}
    BY DEF TypesInv, TypeOK, Open
  <1>7. \A r \in Made \ {a} : pc'[r] = pc[r] /\ memo'[r] = memo[r] /\ locks'[r] = locks[r]
    BY StepKnown DEF Effect, Private
  <1>2. ASSUME NEW r \in Made, r # a
        PROVE  /\ memo'[r].role \in Roles \union {"NONE"}
               /\ ~Open(r)' => memo'[r] = Blank /\ locks'[r] = {}
    BY <1>2, <1>5, <1>6, <1>7 DEF Open
  <1>3. memo'[a].role \in Roles \union {"NONE"}
    <2>1. CASE Authorize(a)
      <3>1. CASE Reject(a)
        BY <1>1, <3>1 DEF Reject, Answer, Blank
      <3>2. CASE ~Reject(a)
        <4>1. PICK m \in memberships : memo' = [memo EXCEPT ![a] = [memo[a] EXCEPT !.role = m.role]]
          BY <2>1, <3>2 DEF Authorize, ReadInto, Remember, MemberOf
        <4>2. m.role \in Roles
          BY <4>1 DEF TypesInv, TypeOK, Memberships
        <4> QED
          BY <1>1, <4>1, <4>2 DEF Tidy
      <3> QED
        BY <3>1, <3>2
    <2> QED
      BY <1>1, <1>5, <2>1 DEF Outline
  <1>4. ~Open(a)' => memo'[a] = Blank /\ locks'[a] = {}
    BY <1>1 DEF Outline, Open
  <1> QED
    BY <1>1, <1>2, <1>3, <1>4

\* Every step keeps the tables and the requests well typed.
LEMMA StepTypes ==
    ASSUME TypesInv, NEW a \in Made, Step(a)
    PROVE  TypesInv'
  <1>1. UseInv' /\ Effect(a) /\ Made' = Made /\ Made \subseteq Requests
    BY StepKnown DEF TypesInv, TypeOK
  <1>2. ASSUME NEW r \in Made, r # a
        PROVE  Typed(r)'
    BY <1>1, <1>2 DEF Effect, Private, Typed, TypesInv
  <1>3. \A r \in Made' : Typed(r)'
    BY <1>1, <1>2, OwnTyped
  <1>4. TypeOK'
    BY <1>1, UsersType, SessionsType, MembershipsType, LinksType, InvitationsType, ResourcesType,
       PairsType, MemoType DEF TypeOK
  <1> QED
    BY <1>1, <1>3, <1>4 DEF TypesInv

\* So does doing nothing.
LEMMA TypesStutter ==
    ASSUME TypesInv, UNCHANGED vars
    PROVE  TypesInv'
  <1>1. UseInv'
    BY UseStutter DEF TypesInv
  <1>2. TypeOK' /\ Made' = Made
    BY DEF TypesInv, TypeOK, vars, Made, Open
  <1>3. \A r \in Made : Typed(r)'
    BY DEF TypesInv, Typed, vars
  <1> QED
    BY <1>1, <1>2, <1>3 DEF TypesInv

\* TypeOK: whatever the requests ask for and however they interleave, the tables hold
\* well typed rows, and a request remembers and holds nothing outside its transactions.
THEOREM TablesTyped == Spec => []TypeOK
  <1>1. TypesInv /\ [Next]_vars => TypesInv'
    <2> SUFFICES ASSUME TypesInv, [Next]_vars
                 PROVE  TypesInv'
      OBVIOUS
    <2>1. CASE Next
      <3>1. PICK a \in Made : Step(a)
        BY <2>1 DEF Next, Step
      <3> QED
        BY <3>1, StepTypes
    <2>2. CASE UNCHANGED vars
      BY <2>2, TypesStutter
    <2> QED
      BY <2>1, <2>2
  <1>2. TypesInv => TypeOK
    BY DEF TypesInv
  <1> QED
    BY <1>1, <1>2, InitTypes, PTL DEF Spec
=============================================================================
