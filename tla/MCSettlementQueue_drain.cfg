SPECIFICATION Spec
CONSTANTS
    Tasks = {t1}
    Callbacks = {c1}
    Drains = {d1, d2}
    DRAIN_BATCH = 2
    LOCK_TIMEOUT = 2
    LIFE = 1
    MAX_SETTLEMENT_ATTEMPTS = 2
    BASE_BACKOFF = 1
    MAX_BACKOFF = 1
    MAX_GRADING_ATTEMPTS = 2
    MaxRounds = 1
    MaxFaults = 1
CHECK_DEADLOCK FALSE
SYMMETRY Symmetry
INVARIANT OneDrainPerTask
INVARIANT FirstSubmissionIsKept
