SPECIFICATION Spec
CONSTANTS
    Dirs <- MCDirs
    Files <- CaseFiles
    Lower <- CaseLower
    LikeMatches <- NoMatches
    Concurrency = 2
    Faults = {"conflict", "stop", "quota", "cancel", "busy"}
    MaxVersion = 2
    MaxEdits = 3
    MaxFaults = 1
INVARIANT CacheNamesWhatExists
