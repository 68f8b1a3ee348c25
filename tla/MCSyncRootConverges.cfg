SPECIFICATION FairSpec
CONSTANTS
    Dirs <- WildDirs
    Files <- WildFiles
    Lower <- MCLower
    LikeMatches <- WildMatches
    Concurrency = 2
    Faults = {"crash", "database", "transient", "conflict", "stop", "cancel", "external", "busy"}
    MaxVersion = 2
    MaxEdits = 1
    MaxFaults = 1
PROPERTY Converges
