\* Two jobs share one escrow.
SPECIFICATION MCSpec
CONSTANTS
    o = o  a = a  b = b  c = c
    Addr <- Pair
    NoAddr = NoAddr
    arbiter = o
    feeRecipient = o
    Blockable = {}
    MaxJobs = 2
    MaxStray = 0
    Bounties = {2}
    Scores = {0}
    Windows = {1}
    feeBps = 0
    flatFee = 1
    bondBps = 0
    flatBond = 1
    SilenceForfeitBps = 2000
    MIN_BOUNTY = 2
    MIN_DELIVERY_WINDOW = 1
    MAX_DELIVERY_WINDOW = 1
    MAX_OPEN_WINDOW = 1
    REVIEW_WINDOW = 1
    DISPUTE_WINDOW = 1
CHECK_DEADLOCK FALSE

INVARIANTS EscrowIsLocked NoPhantomJobs NoFrozenEscrow
PROPERTIES LedgerSpec
