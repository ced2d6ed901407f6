SPECIFICATION FairSpec
CONSTANTS
    Tasks = {t1}
    Callbacks = {c1}
    Drains = {d1}
    DRAIN_BATCH = 2
    LOCK_TIMEOUT = 3
    LIFE = 2
    MAX_SETTLEMENT_ATTEMPTS = 3
    BASE_BACKOFF = 1
    MAX_BACKOFF = 1
    MAX_GRADING_ATTEMPTS = 2
    MaxRounds = 1
    MaxFaults = 1
CHECK_DEADLOCK FALSE
PROPERTY EveryRowIsClosed
