SPECIFICATION WalkSpec
CONSTANTS
    Dirs <- MCDirs
    Order <- MCOrder
    Concurrency = 2
    Limit = 2
    Faults = {"page", "total"}
    MaxFaults = 1
    MaxChanges = 2
CHECK_DEADLOCK FALSE
INVARIANTS
    MissedOnlyWhereShifted
    QuietWalkIsExact
PROPERTY WalkEnds
