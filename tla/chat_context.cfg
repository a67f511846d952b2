SPECIFICATION Spec
CONSTANTS
    MaxMessages = 2
    Slow = {}
    Starved = {}
    Agents = {"system"}
    Senders = {q}
    Patient = {}
    Nobody = Nobody
    Workers = 2
    MaxHistory = 3
INVARIANTS
    ContextExcludesOwn
CHECK_DEADLOCK FALSE
