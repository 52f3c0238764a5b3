CONSTANTS
    Producers = {p1}
    TASK_QUEUE_SIZE = 3
    MaxCalls = 1
    ThreadNum = 2
    Nobody = Nobody
SPECIFICATION PoolSpec
INVARIANTS
    ThreadsStarted
CHECK_DEADLOCK FALSE
