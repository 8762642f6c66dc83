SPECIFICATION Spec
CONSTANTS
    None = None
    r1 = r1
    r2 = r2
    v1 = v1
    n1 = n1
    d1 = d1
    d2 = d2
    p0 = p0
    c0 = c0
    Runs = {r1}
    Products = {1, 2}
    Versions = {v1}
    Namespaces = {n1}
    Contents = {c1, c2}
    Descriptions = {d1}
    SetupPaths = {}
    SetupContents = {}
    SetupLocations = {}
    UniqueHash = FALSE
    LocationRequired = FALSE
    WriteConfig <- AllWrites
    ReadConfig <- FirstReads
    Public <- SamePublic
    DataProductLiteral = 1
    MaxLinks = 3
    MaxFaults = 1
INVARIANTS
    TypeOK
    ReturnedMeansRecorded
PROPERTIES
    CountsDown
