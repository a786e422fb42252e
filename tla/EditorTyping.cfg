SPECIFICATION Spec
CONSTANTS
    Editors <- TwoEditors
    Uses = {"exit"}
    MaxGen = 1
    MaxWorks = 1
INVARIANTS ExitLosesNothing
CHECK_DEADLOCK FALSE
