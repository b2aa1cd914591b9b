SPECIFICATION Spec
CONSTANTS
    Replica = {r1, r2, r3}
    Op = {o1, o2, o3}
    NoPeer = NoPeer
    Window = 2
    MaxFrame = 3
    StoreErrors = FALSE
SYMMETRY Symmetry
INVARIANTS
    OkMeansCaughtUp
    FramesInStep
    OnlyDeltasJam
PROPERTIES
    MergesOpSets
    EveryStepCounts
