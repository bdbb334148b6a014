CONSTANTS
    Broken = {bad1, bad2}
    Missing = missing
    None = none
    Covers = {red, blue}
    MaxEdits = 4
    MaxTracks = 2
SPECIFICATION FairSpec
INVARIANTS TypeOK QuietFollowsFile SectionFollowsData NoOldCoversTheme
PROPERTY ReloadArrives
CHECK_DEADLOCK FALSE
