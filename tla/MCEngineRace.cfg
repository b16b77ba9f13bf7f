CONSTANTS
    Contents <- MCContents
    Missing = Missing
    NoName = NoName
    LongNames <- MCLongNames
    Editable <- EveryPoint
    ClockAdvances = TRUE
    MaxEdits = 2
    MaxReloads = 2
SPECIFICATION Spec
INVARIANT SnapshotIsFresh
