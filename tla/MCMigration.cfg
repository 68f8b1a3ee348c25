SPECIFICATION FairSpec
CONSTANTS
    Dirs <- MCDirs
    Files <- MCFiles
    Order <- MCOrder
    SizeOnly <- MCSizeOnly
    Large <- MCLarge
    LegacyRoots = 2
    Starts <- MCStarts
    Concurrency = 2
    Faults = {"crash", "database", "transient", "conflict", "stop", "quota", "cancel", "external", "unmount", "busy", "no_md5", "collision", "edit"}
    MaxVersion = 2
    MaxFaults = 1
INVARIANTS
    TypeOK
    AdoptedMeansEqual
PROPERTIES
    SuccessHandsOver
    DeletesOnlyReplaced
    RerunIsNoOp
    FreshRunCompletes
