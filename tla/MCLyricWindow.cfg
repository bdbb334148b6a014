SPECIFICATION WindowSpec
CONSTANTS
    MaxLines = 5
    MaxTime = 3
    Offset = 1
INVARIANTS
    HighlightsLastStarted
    WindowShowsCurrent
PROPERTIES
    ScrollsForward
CHECK_DEADLOCK FALSE
