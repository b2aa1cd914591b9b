SPECIFICATION MCSpec
CONSTANTS
    NoGroup = NoGroup
    OpPool <- AllOps
INVARIANTS
    TypeOK
    RegistersHoldLastWrites
PROPERTIES
    ImplementsLedger
