SPECIFICATION Spec
CONSTANTS
    None = None
    c1 = c1  c2 = c2  a = a  ref = ref
    Clients = {c1, c2}
    Fields <- Two_fields
    Unique <- Key_field
    Values <- Hashed_values
    Tokens <- With_token
    Closings <- Open_and_shut
    MaxRows = 2
    MaxCalls = 3
    MaxFaults = 0
INVARIANTS
    AnswersMatch
CHECK_DEADLOCK FALSE
