CONSTANTS
    a1 = a1
    Address = {a1}
    Route = {"register", "other"}
    Config <- MCConfig
    Decorated <- MCConfig
    Announced <- MCAnnounced
    Pace = 2
    Longest = 3
SPECIFICATION FairSpec
INVARIANTS TypeOK WindowBound PatientClientsServed
PROPERTIES RegisterRetryAfter NobodyShutOut
