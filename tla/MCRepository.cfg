SPECIFICATION Spec
CONSTANTS
    NoGroup = NoGroup
    OpPool <- Log
    Forged <- Tampered
INVARIANTS
    TypeOK
    NothingUnseen
    ReadYourWrites
PROPERTIES
    ImplementsLedger
