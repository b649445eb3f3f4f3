SPECIFICATION FairSpec
CONSTANTS
    MaxConns = 3
    MaxLines = 0
    Habits = {"hangup"}
    Staid = {}
    None = None
    MAX_NR_OF_THREADS = 2
    MAX_CLIENTS_PER_THREAD = 1
    QUEUE_SIZE = 2
PROPERTY ListenerResponsive
CHECK_DEADLOCK FALSE
