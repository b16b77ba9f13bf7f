CONSTANTS
    Entries <- MCEntries
    Times = {1, 2, 3}
    Enter = Enter
    DEFAULT_END = 2
    ChunkSize = 2
    HashKey <- MCHashKey
    CountBuckets = 2
    PageSize = 2
    TopSize = 2
    MaxEntries = 5
    None = None
SPECIFICATION Spec
INVARIANTS
    TypeOK
    ChunkRanges
    TimelinesComplete
PROPERTY ImplementsLog
