SPECIFICATION FairSpec
CONSTANTS
    Docs = {d1, d2}
    Initial = {d1}
    Handlers = {h1}
    Clis = {c1}
    BatchSize = 1
    Chunks = 2
    Filtered = TRUE
    None = None
INVARIANTS
    SkippedIsKept
    NothingSlips
    CountsAdd
    NewItemsCover
PROPERTIES
    EventuallyStored
CHECK_DEADLOCK FALSE
