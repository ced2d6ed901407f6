SPECIFICATION Spec
CONSTANTS
    Sweeps = {s1, s2}
    Resumes = {r1}
    Nobody = Nobody
    Listed = 1
    LEASE = 1
    INTERVAL = 1
    ORPHAN_AGE = 1
    WAIT = 1
    LIFE = 1
    BATCH = 3
    ATTEMPTS = 2
    Slow = TRUE
    Drops = {"cancel", "post"}
    CrashAt <- AroundCancel
    Moves <- Claimed
    MaxRows = 3
    MaxPosts = 3
    MaxPending = 2
    MaxFaults = 1
CHECK_DEADLOCK FALSE
SYMMETRY Symmetry
INVARIANT PostsOnlyAfterRefund
INVARIANT NeverBothStanding
