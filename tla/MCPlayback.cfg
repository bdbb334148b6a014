SPECIFICATION Spec
CONSTANTS
    Tracks = {t1, t2}
    NoTrack = NoTrack
    Slots = {s1, s2, s3}
    MaxInputs = 3
    MaxFailures = 1
SYMMETRY SlotSymmetry
INVARIANTS
    ShowsServer
    SpaceToggles
CHECK_DEADLOCK FALSE
