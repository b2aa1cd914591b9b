SPECIFICATION MCSpec
CONSTANTS
    NoGroup = NoGroup
    OpPool <- AllOps
INVARIANTS
    TypeOK
    ContextsAgree
    NoSelfAdmission
    OwnersNameThemselves
    ZeroSum
    PairwiseReconciles
    GroupsReconcile
    ScreensAgree
PROPERTIES
    RemovalPreservesPast
    MergesAddUp
