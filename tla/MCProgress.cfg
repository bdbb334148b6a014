CONSTANTS
    Tracks = {a, b}
    NoTrack = none
    Duration = 2
    Linger = 2
    MaxLag = 1
    Slots = {s1, s2}
    MaxInputs = 1
    MaxFailures = 1
SPECIFICATION Spec
INVARIANTS TypeOK ShownIsLate AsksTwice
PROPERTY AsksAfterTheEnd
