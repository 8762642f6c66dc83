SPECIFICATION ConfigSpec
CONSTANTS
    None = None
    p1 = p1  p2 = p2  v1 = v1  v2 = v2  n1 = n1  n2 = n2
    u1 = u1  u2 = u2  u3 = u3  u4 = u4
    Products = {p1, p2}
    Versions = {v1, v2}
    FirstVersion = v1
    Namespaces = {n1, n2}
    InputNamespace = n1
    OutputNamespace = n2
    Uses = {u1, u2, u3, u4}
    Blocks <- Some_blocks
    GivenUses <- Given_uses
    GivenKeys <- Given_keys
INVARIANTS
    TypeOK
    AsTheFileSays
    KeysThere
CHECK_DEADLOCK FALSE
