SPECIFICATION Spec
CONSTANTS
    Dbus = "dbus"
    Players = {"player"}
    UiInputs <- MCUiInputs
    DbusInputs <- MCDbusInputs
    MaxRetries = 2
    CachedCredentials = TRUE
    MaxInputs = 1
PROPERTIES
    ShuffleKeyShuffles
CHECK_DEADLOCK FALSE
