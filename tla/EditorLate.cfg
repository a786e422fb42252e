SPECIFICATION Spec
CONSTANTS
    Editors <- TwoEditors
    Uses = {"close", "exit"}
    MaxGen = 1
    MaxWorks = 2
INVARIANTS ExitSettles PermitHasTimer PendingHasResolver SequenceAsks
CHECK_DEADLOCK FALSE
