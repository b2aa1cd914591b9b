SPECIFICATION MCSpec
CONSTANTS
    NoGroup = NoGroup
    Sites <- Devices
    Owner <- Owners
    Pasts <- StartingPoints
    Forms <- OneForm
    Names = {"x"}
    MemberLists <- Lists
    Currencies = {"USD", "EUR"}
    Closings = {0, 5}
    Guests <- GuestIds
    Keys <- Entered
    Invites <- Pasted
    Most <- MostOf
    Kinds <- KindsOf
    MaxWall = 1
    MaxOps = 5
    SetBack = {12}
    Restarted = {11}
INVARIANTS
    TypeOK
    OwnOpsInOrder
    OwnOpsAreMine
    FounderKeepsGroup
PROPERTIES
    AcceptedCounts
    ClosedBooksStay
CHECK_DEADLOCK FALSE
