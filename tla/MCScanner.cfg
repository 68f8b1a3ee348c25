SPECIFICATION Spec
CONSTANTS
    t1 = t1
    t2 = t2
    Threads <- MCThreads
    Dirs <- MCDirs
    Files <- MCFiles
    Excluded <- MCExcluded
    Oversized <- MCOversized
    Unhashed <- MCUnhashed
    Edited <- MCEdited
    Sqlite <- MCSqlite
    Pages = 3
    TotalTimeout = 4
    IdleTimeout = 2
    MaxWrites = 1
    Faults = {"unreadable", "busy", "staged", "sync_early", "migration_early", "stop", "upload", "unlink", "crash", "external"}
    MaxFaults = 1
INVARIANTS
    TypeOK
    NothingOverlooked
    FingerprintsAreCurrent
    UploadIsItsFingerprint
    StagingEmptied
PROPERTY ScanEnds
