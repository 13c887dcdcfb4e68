\* Two importers race with every pair of imports.
SPECIFICATION FairSpec
CONSTANTS
    r1 = r1
    r2 = r2
    v = v
    p1 = p1
    p2 = p2
    x = x
    y = y
    z = z
    Importers = {a, b}
    Projects = {p1, p2}
    RunIds = {r1, r2}
    Versions = {v}
    Bytes = {x, y, z}
    RunIdOf <- TheRunId
    VersionOf <- TheVersion
    Imports <- TheImports
    NoBytes = NoBytes
    NoRun = NoRun
    NoImport = NoImport
    FileUri = FileUri
    Legacy = {r2}
    LegacyRun <- OldRun
    Damaged <- Doubtful
    NumEvidence = 2
    MaxFaults = 1
INVARIANTS TypeOK Consistency ArtifactStored EvidenceComplete ParentsStored DoneMeansStored
PROPERTIES RunImmutable EventuallyImported
