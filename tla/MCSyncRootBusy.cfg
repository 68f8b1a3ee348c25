SPECIFICATION Spec
CONSTANTS
    Dirs <- MCDirs
    Files <- MCFiles
    Lower <- MCLower
    LikeMatches <- NoMatches
    Concurrency = 2
    Faults = {"busy"}
    MaxVersion = 2
    MaxEdits = 2
    MaxFaults = 1
PROPERTY DeletesOnlyWhatWasGone
