SPECIFICATION ClockSpec
CONSTANTS
    phone = phone
    tablet = tablet
    Sites <- Two
    MaxWall = 3
    MaxOps = 3
    SetBack = {}
    Restarted = {}
INVARIANTS
    RespectsCausality
CHECK_DEADLOCK FALSE
