\* Jobs settle, balances are collected, and prompt keepers bound a job's life.
SPECIFICATION LiveSpec
CONSTANTS
    o = o  a = a  b = b  c = c
    Addr <- Trio
    NoAddr = NoAddr
    arbiter = o
    feeRecipient = o
    Blockable = {a}
    MaxJobs = 1
    MaxStray = 0
    Bounties = {5}
    Scores = {0}
    Windows = {1}
    feeBps = 0
    flatFee = 1
    bondBps = 0
    flatBond = 1
    SilenceForfeitBps = 2000
    MIN_BOUNTY = 5
    MIN_DELIVERY_WINDOW = 1
    MAX_DELIVERY_WINDOW = 1
    MAX_OPEN_WINDOW = 1
    REVIEW_WINDOW = 1
    DISPUTE_WINDOW = 1
CHECK_DEADLOCK FALSE
INVARIANT DiesOfOldAge
PROPERTIES EveryJobSettles EveryBalanceIsCollected
