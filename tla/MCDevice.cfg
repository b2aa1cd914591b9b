SPECIFICATION Spec
CONSTANTS
    Seeds = {s1, s2}
    Keys = {k1, k2}
    Pins = {p1, p2}
    Salts = {n1, n2}
    None = None
INVARIANTS
    KeysKept
    AlwaysOpens
    InSync
    SealedAtRest
