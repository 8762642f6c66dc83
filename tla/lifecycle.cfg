SPECIFICATION Spec
CONSTANTS
    None = None
    r1 = r1  r2 = r2  f1 = f1  f2 = f2  f3 = f3  s1 = s1  v1 = v1  n1 = n1  d1 = d1
    UniqueHash = FALSE
    LocationRequired = FALSE
    Runs = {r1, r2}
    Files = {f1, f2, f3}
    SetupContents = {k1}
    Valid = {k1}
    Stores = {s1}
    Store = s1
    Commits = {m1}
    GitHub = GitHub
    ConfigFile <- OwnConfig
    ScriptFile <- OneScript
    LatestCommit <- OneCommit
    Length <- Lengths
    Inside <- ConfigsInside
    SizeofString = 32
    MaxTries = 2
    Products = {1}
    Versions = {v1}
    Namespaces = {n1}
    Contents = {c1}
    Descriptions = {d1}
    WriteConfig <- Writing
    ReadConfig <- Reading
    Public <- PublicRuns
    DataProductLiteral = 0
    MaxLinks = 1
    MaxFaults = 1
INVARIANTS
    Provenance
    IInv
PROPERTIES
    NothingLost
    ImplementsCatalogue
    ConstructionEnds
    ConstructionSucceeds
    FinaliseEnds
    FinaliseSucceeds
CHECK_DEADLOCK FALSE
