CONSTANTS
    Processes = {p1, p2}
    Keys = {artists, playlists}
    Answers = {v1, v2}
    Empty = empty
    Unreadable = unreadable
    Off = off
    Slots = {s1, s2}
    MaxFailures = 2
    MaxDeaths = 1
SPECIFICATION Spec
INVARIANTS TypeOK ShownIsKept
PROPERTY ImplementsStore
CHECK_DEADLOCK FALSE
