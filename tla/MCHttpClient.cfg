SPECIFICATION Spec
CONSTANTS
    c1 = c1
    c2 = c2
    Calls <- MCCalls
    Wanted <- MCWanted
    Attempts = 2
    MaxPolls = 1
    MaxTokens = 4
    MaxExpiries = 1
    Faults = {"transient", "garbled", "conflict", "rejected", "forgotten", "quota", "source", "operation", "oauth", "bare_token", "keyring", "account"}
    MaxFaults = 1
CHECK_DEADLOCK FALSE
INVARIANTS
    OkMeansDone
    ExpiryCostsNoCall
PROPERTIES
    NotFoundMeansGone
    CallsReturn
