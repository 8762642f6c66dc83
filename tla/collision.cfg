SPECIFICATION Spec
CONSTANTS
    None = None
    r1 = r1
    r2 = r2
    v1 = v1
    n1 = n1
    d1 = d1
    d2 = d2
    p0 = p0
    c0 = c0
    Runs = {r1}
    Products = {1}
    Versions = {v1}
    Namespaces = {n1}
    Contents = {c0}
    Descriptions = {d1}
    SetupPaths = {p0}
    SetupContents = {c0}
    SetupLocations <- ConfigRow
    UniqueHash = FALSE
    LocationRequired = FALSE
    WriteConfig <- AllWrites
    ReadConfig <- NoReads
    Public <- SamePublic
    DataProductLiteral = 0
    MaxLinks = 1
    MaxFaults = 0
PROPERTIES
    NothingLost
