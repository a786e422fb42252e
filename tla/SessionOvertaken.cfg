SPECIFICATION Spec
CONSTANTS
    w1 = w1  k1 = k1  u1 = u1  c1 = c1  c2 = c2
    Windows <- OneWindow
    Keys <- OneKey
    Consumers <- NoConsumers
    Calls <- TwoCalls
    CallsOf <- AnyCall
    Modes = {"writable"}
    File = file
    NoConsumer = none
    Lookups = {"ok"}
    Foreign = FALSE
    External = FALSE
    MaxText = 3
    MaxPhys = 3
    MaxGrants = 1
    MaxSessions = 1
    MaxHandles = 1
    MaxOps = 3
SYMMETRY CallSymmetry
PROPERTIES
    OvertakenSaveStaysOut
CHECK_DEADLOCK FALSE
