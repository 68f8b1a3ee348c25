SPECIFICATION FairSpec
CONSTANTS
    Runs = {r1, r2, r3}
    NoRun = NoRun
    MaxSkips = 1
CHECK_DEADLOCK FALSE
INVARIANTS
    TypeOK
    OneTaskAtATime
    StatusTellsActivity
    ShutdownTellsRuns
PROPERTY RunsEnd
