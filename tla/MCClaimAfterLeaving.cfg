SPECIFICATION Spec
CONSTANTS
    NoGroup = NoGroup
    OpPool <- ClaimAfterLeaving
PROPERTIES
    ClaimKeepsBalances
