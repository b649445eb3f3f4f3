SPECIFICATION Spec
CONSTANTS
    MaxConns = 5
    MaxLines = 0
    Habits = {"hangup"}
    Staid = {}
    None = None
    MAX_NR_OF_THREADS = 2
    MAX_CLIENTS_PER_THREAD = 2
    QUEUE_SIZE = 2
INVARIANTS
    TypeOK
    LaunchIndexInBounds
    JoinsAreSound
    SoleCustody
CHECK_DEADLOCK FALSE
