CONSTANTS
    Contents <- MCContents
    Missing = Missing
    NoName = NoName
    LongNames <- MCLongNames
    Editable <- Quiet
    ClockAdvances = TRUE
    MaxEdits = 2
    MaxReloads = 2
SPECIFICATION Spec
INVARIANT PointersAlwaysLive
