SPECIFICATION Spec
CONSTANTS
    Dirs <- MCDirs
    Files <- MCFiles
    Lower <- MCLower
    LikeMatches <- NoMatches
    Concurrency = 2
    Faults = {"crash", "database", "transient", "conflict", "stop", "quota", "cancel", "external", "unmount"}
    MaxVersion = 2
    MaxEdits = 2
    MaxFaults = 1
INVARIANTS
    TypeOK
    RecordedMeansUploaded
    FreshSuccessMirrors
PROPERTIES
    DeletesOnlyWhatWasGone
    RefinesMirror
