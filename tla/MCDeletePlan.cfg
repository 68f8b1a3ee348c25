SPECIFICATION Spec
CONSTANTS
    Directories <- MCDirectories
    Files <- MCFiles
INVARIANTS
    TypeOK
    NeverCoversLive
    ComputesCoalescedDeletes
