CONSTANTS
    Top = 3
    None = none
    Slots = {s1, s2}
    MaxInputs = 2
    MaxChanges = 0
    MaxFailures = 0
SPECIFICATION Spec
PROPERTY VolumeUpRaises
CHECK_DEADLOCK FALSE
