SPECIFICATION Spec
CONSTANTS
    Durations = {180000, 2147483, 2147484, 3600000}
    Progresses = {0, 180000, 3000000}
    None = none
INVARIANT LengthInMicroseconds
