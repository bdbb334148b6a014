SPECIFICATION FairSpec
CONSTANTS
    Tracks = {t1, t2, t3}
    NoTrack = NoTrack
    Idle = Idle
    WithImage = {t1, t2}
    MaxChanges = 5
INVARIANTS
    LyricsMatchTrack
    ImageMatchesTrack
PROPERTIES
    LyricsArrive
CHECK_DEADLOCK FALSE
