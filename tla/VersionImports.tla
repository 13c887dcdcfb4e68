--------------------------- MODULE VersionImports ---------------------------
(***************************************************************************)
(* Projects and what is in them: catalogs, datasets, search systems and    *)
(* their versions, reviews, and the import of catalog and dataset versions *)
(* by the API and by the command import_versions.                          *)
(***************************************************************************)
EXTENDS ServiceTables

NewResource(id, org, parent, name) ==
    [id |-> id, org |-> org, parent |-> parent, name |-> name, external |-> FALSE,
     content |-> NoRow, artifact |-> NoRow, grounds |-> NoRow]

Stored(row) == \E other \in resources : ResourceKey(other) = ResourceKey(row)

-----------------------------------------------------------------------------
(* The endpoints that create one row under a parent *)

OrganizationFound(r) == Call[r].org \in organizations

\* Mutant: the parent may be anybody's.
ParentAnywhere(r, table) ==
    \E row \in resources : row.id = Call[r].parent /\ TableOf(row) = table

\* The parent has to belong to the organization of the header.
ParentFound(r, table) ==
    \E row \in resources :
        row.id = Call[r].parent /\ TableOf(row) = table /\ row.org = Call[r].org

Creating(r, parent, found) ==
    LET call == Call[r]
        new == NewResource(<<r, call.table>>, call.org, parent, call.name)
    IN  \/ found /\ ReadInto(r, "createCommit", [memo[r] EXCEPT !.row = new])
        \/ ~found /\ Reject(r)

CreateProject(r) ==
    /\ pc[r] = "create" /\ Call[r].table = "project"
    /\ Creating(r, <<Call[r].org, "organization">>, OrganizationFound(r))
CreateResource(r) ==
    /\ pc[r] = "create" /\ Call[r].table \in {"catalog", "dataset"}
    /\ Creating(r, Call[r].parent, ParentFound(r, "project"))
CreateSystem(r) ==
    /\ pc[r] = "create" /\ Call[r].table = "system"
    /\ Creating(r, Call[r].parent, ParentFound(r, "project"))
CreateSystemVersion(r) ==
    /\ pc[r] = "create" /\ Call[r].table = "systemVersion"
    /\ Creating(r, Call[r].parent, ParentFound(r, "system"))
CreateReview(r) ==
    /\ pc[r] = "create" /\ Call[r].table = "review"
    /\ Creating(r, Call[r].parent, ParentFound(r, "datasetVersion"))

\* Reviews have no unique key: their name is their own.
CreateCommit(r) ==
    /\ pc[r] = "createCommit"
    /\ \/ Stored(memo[r].row) /\ Reject(r)
       \/ /\ ~Stored(memo[r].row)
          /\ Answer(r, "done")
          /\ resources' = resources \union {memo[r].row}
          /\ UNCHANGED <<accounts, governance>>

-----------------------------------------------------------------------------
(* Imports *)

OfDataset(r) == Call[r].op = "importDataset"
ResourceTable(r) == IF OfDataset(r) THEN "dataset" ELSE "catalog"
VersionTable(r) == IF OfDataset(r) THEN "datasetVersion" ELSE "catalogVersion"
ThroughApi(r) == "cookie" \in DOMAIN Call[r]

\* The endpoint writes the JSON it parsed to a file of its own, without spaces;
\* the hash of the artifact is that of the file.
ArtifactHash(r) ==
    <<Call[r].artifact.content, IF ThroughApi(r) THEN "compact" ELSE Call[r].artifact.layout>>

\* What an artifact says of itself is verified before anything is read.
Scope(r) ==
    LET ok == Call[r].artifact.valid /\ OrganizationFound(r) /\ ParentFound(r, "project")
    IN  /\ pc[r] = "import"
        /\ \/ ok /\ Read(r, IF OfDataset(r) THEN "ground" ELSE "findResource")
           \/ ~ok /\ Reject(r)

\* The catalog version that a dataset names.
NamedVersions(r) ==
    LET artifact == Call[r].artifact
    IN  {v \in resources : \E c \in resources :
            /\ TableOf(c) = "catalog" /\ c.external
            /\ c.parent = Call[r].parent /\ c.name = artifact.catalog
            /\ TableOf(v) = "catalogVersion"
            /\ v.parent = c.id /\ v.name = artifact.catalogVersion}

\* Mutant: its products are not looked for.
GroundsOfAnyProducts(r) ==
    {v \in NamedVersions(r) : Call[r].artifact.source \in {NoRow, v.artifact}}

\* It has all the products of the cases, and is the artifact that a source-validated
\* dataset was validated against.
Grounds(r) ==
    {v \in NamedVersions(r) : /\ Call[r].artifact.source \in {NoRow, v.artifact}
                              /\ Call[r].artifact.content.expects \subseteq v.content.products}
Ground(r) ==
    /\ pc[r] = "ground"
    /\ \/ Grounds(r) # {} /\ Read(r, "findResource")
       \/ Grounds(r) = {} /\ Reject(r)

\* A resource is found by its external_id, which those the API created lack.
ImportedResource(r) ==
    [NewResource(<<r, ResourceTable(r)>>, Call[r].org, Call[r].parent, Call[r].artifact.name)
        EXCEPT !.external = TRUE]
FindResource(r) ==
    LET found == {c \in resources : /\ TableOf(c) = ResourceTable(r) /\ c.external
                                    /\ c.parent = Call[r].parent
                                    /\ c.name = Call[r].artifact.name}
    IN  /\ pc[r] = "findResource"
        /\ \/ \E c \in found : ReadInto(r, "findVersion", [memo[r] EXCEPT !.row = c])
           \/ /\ found = {}
              /\ ReadInto(r, "insertResource",
                          [memo[r] EXCEPT !.row = ImportedResource(r)])

\* INSERT of a resource or of a version: nobody handles its conflict.
InsertResource(r) ==
    /\ pc[r] = "insertResource"
    /\ Insert(r, "findVersion", ResourceKey(memo[r].row), Stored(memo[r].row),
              "error")

ImportedVersion(r, parent) ==
    [NewResource(<<r, VersionTable(r)>>, Call[r].org, parent, Call[r].artifact.version)
        EXCEPT !.content = Call[r].artifact.content, !.artifact = ArtifactHash(r),
               !.grounds = IF OfDataset(r) THEN The(Grounds(r)).id ELSE NoRow]

\* Mutant: an existing version is not compared.
SameName(v, w) == TRUE

\* _existing_summary compares an existing version.
SameVersion(v, w) == v.content = w.content /\ v.artifact = w.artifact

\* Mutant: the version is not looked for.
FindNoVersion(r) ==
    /\ pc[r] = "findVersion"
    /\ ReadInto(r, "insertVersion",
                [memo[r] EXCEPT !.row = ImportedVersion(r, memo[r].row.id)])

\* The version exists, with the same content and artifact, or is new.
FindVersion(r) ==
    LET new == ImportedVersion(r, memo[r].row.id)
        found == {v \in resources : ResourceKey(v) = ResourceKey(new)}
    IN  /\ pc[r] = "findVersion"
        /\ \/ \E v \in found :
                 \/ SameVersion(v, new) /\ Answer(r, "done") /\ UNCHANGED tables
                 \/ ~SameVersion(v, new) /\ Reject(r)
           \/ /\ found = {}
              /\ ReadInto(r, "insertVersion", [memo[r] EXCEPT !.row = new])
InsertVersion(r) ==
    /\ pc[r] = "insertVersion"
    /\ Insert(r, "importCommit", ResourceKey(memo[r].row), Stored(memo[r].row),
              "error")

\* With its products or cases, and the resource if it was new.
ImportCommit(r) ==
    /\ pc[r] = "importCommit"
    /\ Answer(r, "done")
    /\ resources' = resources \union {memo[r].row}
                    \union {c \in {ImportedResource(r)} : ResourceKey(c) \in locks[r]}
    /\ UNCHANGED <<accounts, governance>>

ResourceStep(r) ==
    \/ CreateProject(r) \/ CreateResource(r) \/ CreateSystem(r) \/ CreateSystemVersion(r)
    \/ CreateReview(r) \/ CreateCommit(r) \/ Scope(r) \/ Ground(r) \/ FindResource(r)
    \/ InsertResource(r) \/ FindVersion(r) \/ InsertVersion(r) \/ ImportCommit(r)
=============================================================================
