SPECIFICATION PFairSpec
CONSTANTS
    MaxConns = 3
    MaxLines = 0
    Habits = {"hangup", "stop", "fault"}
    Staid = {}
    None = None
    MAX_NR_OF_THREADS = 2
    MAX_CLIENTS_PER_THREAD = 2
    QUEUE_SIZE = 2
INVARIANT PublisherStops
PROPERTIES
    HangUpIsReported
    StopEndsListener
    LoopEndEndsProcess
CHECK_DEADLOCK FALSE
