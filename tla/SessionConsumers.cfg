SPECIFICATION Spec
CONSTANTS
    w1 = w1  k1 = k1  u1 = u1  c1 = c1  c2 = c2
    Windows <- OneWindow
    Keys <- OneKey
    Consumers <- OneConsumer
    Calls <- OneCall
    CallsOf <- AnyCall
    Modes = {"writable", "readonly"}
    File = file
    NoConsumer = none
    Lookups = {"ok", "readonly", "changed"}
    Foreign = TRUE
    External = TRUE
    MaxText = 2
    MaxPhys = 1
    MaxGrants = 2
    MaxSessions = 2
    MaxHandles = 2
    MaxOps = 2
INVARIANTS
    TypeOK
PROPERTIES
    AuthoritySpec
CHECK_DEADLOCK FALSE
