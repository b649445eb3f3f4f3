SPECIFICATION Spec
CONSTANTS
    MaxConns = 4
    MaxLines = 0
    Habits = {"hangup"}
    Staid = {}
    None = None
    MAX_NR_OF_THREADS = 2
    MAX_CLIENTS_PER_THREAD = 1
    QUEUE_SIZE = 3
INVARIANT ThreadCapacityRespected
CHECK_DEADLOCK FALSE
