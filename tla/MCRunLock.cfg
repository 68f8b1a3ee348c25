SPECIFICATION Spec
CONSTANTS
    Runs = {r1, r2, r3}
    NoRun = NoRun
    StaleAfter = 1
    MaxTime = 4
SYMMETRY Symmetry
CHECK_DEADLOCK FALSE
INVARIANTS
    OverlapOnlyWhenOverdue
    OneRunningRow
    OpenOperationsAreOwn
PROPERTY RepairSparesLiveRuns
