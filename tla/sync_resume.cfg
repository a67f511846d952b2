SPECIFICATION Spec
CONSTANTS
    Docs = {d1, d2}
    Initial = {d1, d2}
    Handlers = {h1}
    Clis = {}
    BatchSize = 1
    Chunks = 1
    Filtered = TRUE
    None = None
INVARIANTS
    Resumable
CHECK_DEADLOCK FALSE
