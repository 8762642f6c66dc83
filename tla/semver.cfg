SPECIFICATION Spec
CONSTANTS
    Wrap = 12
    Unnumbered = 4
    MetaData = {"", "build"}
    MaxPart = 2
INVARIANTS
    TypeOK
    Ranked
    ReadsBack
PROPERTIES
    MovesUp
