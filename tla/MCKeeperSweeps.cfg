SPECIFICATION FairSpec
CONSTANTS
    NumJobs = 2
    Cycles = {c1}
    MAX_RULINGS_PER_PASS = 2
    MAX_EXITS_PER_PASS = 2
    MAX_WITHDRAWALS_PER_PASS = 2
    MIN_WITHDRAW = 2
    Blocked = {1}
    Held = {1}
    RefundDue = {2}
    LEASE = 1
    LIFE = 2
    MaxFaults = 1
CHECK_DEADLOCK FALSE
INVARIANT RulingsWereSent
PROPERTY EveryDueExitIsCalled
PROPERTY EveryBalanceIsCollected
PROPERTY EveryRefundIsMade
