SPECIFICATION FairSpec
CONSTANTS
    Replica = {r1, r2}
    Op = {o1, o2}
    NoPeer = NoPeer
    Window = 1
    MaxFrame = 3
    StoreErrors = FALSE
PROPERTIES
    Quiesces
