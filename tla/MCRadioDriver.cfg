SPECIFICATION DriverSpec
CONSTANTS
    InboxCapacity = 2
    Prompt = TRUE
INVARIANTS
    NothingStale
    NeverDeaf
