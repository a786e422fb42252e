SPECIFICATION FairSpec
CONSTANTS
    Editors <- OneEditor
    Uses = {"close", "open", "exit", "route"}
    MaxGen = 2
    MaxWorks = 2
PROPERTIES DecisionsEnd
CHECK_DEADLOCK FALSE
