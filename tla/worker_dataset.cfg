\* Jobs with datasets of either kind, each on a worker of its own.
SPECIFICATION Spec
CONSTANTS
    Words = {"shoes", "bag", "acme", "nova", "red", "blue", "women", "large", "under50", "over50", "from20to50", "from50to20", "instock", "cheap", "soft"}
    Meaning <- TheMeaning
    CategoryOf <- TheCategories
    FieldWeights <- TheWeights
    CandidateLimit = 4
    Unset = Unset
    Discount <- TheDiscounts
    Catalogs <- TheCatalogs
    ModeOf <- TheModes
    Distribution <- TheDistribution
    Commands <- TheCommands
    Call <- TheCalls
    Imported <- TheImported
    SeedFiles <- TheSeedFiles
    Workloads <- JobWorkloads
    NoFile = NoFile
    MaxFaults = 1
    Sources <- TheSources
    Pinned = Pinned
    Corrupt = Corrupt
    Groups <- TheGroups
    Titles <- TheTitles
    KeyOf <- TheKeys
INVARIANT DatasetsReconstructed
CHECK_DEADLOCK FALSE
