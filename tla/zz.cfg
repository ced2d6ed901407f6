SPECIFICATION FairSpec
CONSTANTS
    Sweeps = {s1}
    Resumes = {r1}
    Nobody = Nobody
    Listed = 2
    LEASE = 1
    INTERVAL = 1
    ORPHAN_AGE = 1
    WAIT = 1
    LIFE = 1
    BATCH = 1
    ATTEMPTS = 1
    Slow = FALSE
    Drops = {"post"}
    CrashAt <- Raising
    Moves <- Claimed
    MaxRows = 4
    MaxPosts = 4
    MaxPending = 1
    MaxFaults = 2
CHECK_DEADLOCK FALSE
PROPERTY EveryRaiseIsFinished
