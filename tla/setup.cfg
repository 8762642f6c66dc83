SPECIFICATION Spec
CONSTANTS
    None = None
    r1 = r1
    r2 = r2
    f1 = f1
    f2 = f2
    f3 = f3
    c1 = c1
    c2 = c2
    s1 = s1
    s2 = s2
    m1 = m1
    m2 = m2
    p1 = p1
    Runs = {r1, r2}
    Files = {f1, f2, f3}
    Contents = {c1, c2}
    Valid = {c1, c2}
    Stores = {s1, s2}
    Commits = {m1, m2}
    GitHub = GitHub
    OtherLocations <- OneProduct
    ConfigFile <- OwnConfig
    ScriptFile <- OneScript
    WriteStore <- StoreOf
    LatestCommit <- CommitOf
    Length <- Lengths
    Inside <- ConfigsInside
    SizeofString = 32
    UniqueHash = TRUE
    LocationRequired = TRUE
    MaxEdits = 1
    MaxTries = 2
    MaxFaults = 1
INVARIANTS
    TypeOK
    CodeRunsComplete
    ConfigAsUsed
    IInv
CHECK_DEADLOCK FALSE
