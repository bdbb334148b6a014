SPECIFICATION FairSpec
CONSTANTS
    Life = 2
    MaxTime = 7
    MaxIssued = 5
    MaxCrashes = 2
    NoFile = NoFile
    Torn = Torn
    Nullopt = Nullopt
INVARIANTS
    TypeOK
    FileFollowsSession
    SessionSurvives
    UnsavedIsHeld
    TimerWatchesToken
PROPERTIES
    ImplementsSession
    StaleTokenIsReplaced
CHECK_DEADLOCK FALSE
