SPECIFICATION FairSpec
CONSTANTS
    MaxRequests = 4
INVARIANTS
    TypeOK
    NoLostUpdate
PROPERTIES
    ImplementsNotify
    ClientsCatchUp
CHECK_DEADLOCK FALSE
