SPECIFICATION Spec
CONSTANTS
    UserLeq <- Leq
    Balances <- FiveUsers
    UserIds <- People
    Inputs <- Forms
    Members <- Remaining
    MaxAmount = 127
    RateScale = 10
INVARIANTS
    SettlesEverybody
    DivisionIsExact
    SharesAreFair
    NothingValidRefused
    ConvertedToNearest
    KeptByEditing
PROPERTIES
    Finishes
CHECK_DEADLOCK FALSE
