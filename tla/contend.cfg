SPECIFICATION Spec
CONSTANTS
    None = None
    r1 = r1
    r2 = r2
    v1 = v1
    n1 = n1
    d1 = d1
    d2 = d1
    p0 = p0
    c0 = c0
    Runs <- TwoRuns
    Products = {1, 2}
    Versions = {v1}
    Namespaces = {n1}
    Contents = {c1, c2}
    Descriptions = {d1}
    SetupPaths = {}
    SetupContents = {}
    SetupLocations = {}
    UniqueHash = TRUE
    LocationRequired = TRUE
    WriteConfig <- ContendWrites
    ReadConfig <- ContendReads
    Public <- SamePublic
    DataProductLiteral = 0
    MaxLinks = 1
    MaxFaults = 1
SYMMETRY AnyContent
INVARIANTS
    IInv
    Traceable
    OutputProvenance
    AnswersServeTheProduct
PROPERTIES
    NothingLost
    ImplementsCatalogue
