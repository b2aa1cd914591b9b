SPECIFICATION Spec
CONSTANTS
    NoGroup = NoGroup
    OpPool <- LateRemoval
PROPERTIES
    VoidIsTerminal
