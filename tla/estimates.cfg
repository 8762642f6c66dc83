SPECIFICATION Spec
CONSTANTS
    None = None
    p1 = p1  p2 = p2  p3 = p3  here = here  there = there  text = text
    Clients = {c1, c2}
    Products = {p1, p2, p3}
    Parent <- Parents
    Versions = {v1}
    Values = {1, 12, text}
    Numbers = {1, 12}
    Left <- Beginnings
    GivenFiles <- Some_files
    MaxCalls = 3
INVARIANTS
    TypeOK
    EstimateStands
    ReadsTell
CHECK_DEADLOCK FALSE
