SPECIFICATION Spec
CONSTANTS
    p1 = p1  p2 = p2  a = a  b = b
    Processes <- TwoProcesses
    Calls <- TwoProcesses
    HomeOf <- OneCallEach
    Files <- TwoFiles
    Values = {v1}
    Blank = blank
    Kinds = {"review"}
    None = none
    MaxOps = 2
    MaxTroubles = 1
SYMMETRY Symmetry
INVARIANTS
    TypeOK
PROPERTIES
    ImplementsSwitch
    NothingTypedIsLost
    ArchivedBeforeReplaced
    NeverStuckHalfway
CHECK_DEADLOCK FALSE
