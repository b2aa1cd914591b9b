SPECIFICATION FairSpec
CONSTANTS
    Replica = {r1, r2}
    Op = {o1, o2, o3}
    NoPeer = NoPeer
    Window = 4
    MaxFrame = 3
    StoreErrors = TRUE
PROPERTIES
    Quiesces
