SPECIFICATION Spec
CONSTANTS
    MaxConns = 3
    MaxLines = 2
    Habits = {"init", "line", "odd", "hangup"}
    Staid = {}
    None = None
    MAX_NR_OF_THREADS = 2
    MAX_CLIENTS_PER_THREAD = 2
    QUEUE_SIZE = 2
INVARIANT ServerSurvives
CHECK_DEADLOCK FALSE
