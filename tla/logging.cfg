SPECIFICATION Spec
CONSTANTS
    i1 = i1
    i2 = i2
    s1 = s1
    s2 = s2
    top = top
    nested = nested
    Streams = {s1, s2}
    Composites = {top, nested}
    Top = top
    Above <- Tree
    Settable = {2, 4}
    Messages = {i1, i2}
    MaxPieces = 2
    MaxTurns = 1
SYMMETRY MessageSymmetry
INVARIANTS
    TypeOK
    WrittenOnceWhole
CHECK_DEADLOCK FALSE
