SPECIFICATION FairSpec
CONSTANTS
    MaxMessages = 3
    Slow = {3}
    Starved = {3}
    Agents = {"research","system"}
    Senders = {p, q}
    Patient = {p}
    Nobody = Nobody
    Workers = 2
    MaxHistory = 2
INVARIANTS
    QueueCounted
    ConversationKept
    RestKept
    OneLateReminder
PROPERTIES
    Answered
CHECK_DEADLOCK FALSE
