SPECIFICATION LoopSpec
CONSTANTS
    TicksPerSecond = 4
    Day = 40
    StartTime = 12
    MaxDelay = 5
    MaxTime = 130
CHECK_DEADLOCK FALSE
INVARIANTS
    EveryStartTimeServed
PROPERTY RequestsAreOnTime
