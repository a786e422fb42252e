SPECIFICATION Spec
CONSTANTS
    Windows = {w1, w2}
    Keys = {k1, k2}
    Refs = {r1, r2}
    Paths = {p1, p2}
    MaxGrants = 3
    MaxRefs = 2
    MaxPhys = 1
SYMMETRY AdmissionSymmetry
INVARIANTS
    TypeOK
    OneWriterPerFile
PROPERTIES
    ProofsStayDead
CHECK_DEADLOCK FALSE
