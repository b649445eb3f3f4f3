SPECIFICATION Spec
CONSTANTS
    MaxConns = 2
    MaxLines = 2
    Habits = {"init", "line", "early", "hangup", "quit", "reset", "stall"}
    Staid = {0}
    None = None
    MAX_NR_OF_THREADS = 2
    MAX_CLIENTS_PER_THREAD = 1
    QUEUE_SIZE = 2
INVARIANTS
    StoryInOrder
    HandshakeFirst
CHECK_DEADLOCK FALSE
