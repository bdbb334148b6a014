SPECIFICATION FairSpec
CONSTANTS
    Dbus = "dbus"
    Players = {"player"}
    UiInputs <- MCUiInputs
    DbusInputs <- MCDbusInputs
    MaxRetries = 2
    CachedCredentials = TRUE
    MaxInputs = 3
INVARIANTS
    TypeOK
    UiWaitsForToken
    OneLogin
    DevicesGuard
PROPERTIES
    StopsForAReason
    ImplementsSession
    QuitStops
    StoppedExits
    LoginShowsMain
CHECK_DEADLOCK FALSE
