\* Two advances against one job.
SPECIFICATION DeskSpec
CONSTANTS
    req = req  wrk = wrk  la = la  lb = lb
    Addr <- MCAddr
    NoAddr = NoAddr
    arbiter = req
    feeRecipient = req
    Blockable = {}
    MaxJobs = 1
    MaxStray = 0
    Bounties = {1000}
    Scores = {0}
    Windows = {3}
    feeBps = 0
    flatFee = 0
    bondBps = 0
    flatBond = 0
    SilenceForfeitBps = 2000
    MIN_BOUNTY = 1
    MIN_DELIVERY_WINDOW = 1
    MAX_DELIVERY_WINDOW = 3
    MAX_OPEN_WINDOW = 1
    REVIEW_WINDOW = 1
    DISPUTE_WINDOW = 1
    r1 = r1  r2 = r2
    Requests <- MCRequests
    Lenders <- MCLenders
    PURSE = 1500
    Records <- MCRecords
    Asked = {1000}
    MIN_RUNWAY = 2
    LIFE = 1
    MaxMishaps = 2
CHECK_DEADLOCK FALSE
CONSTRAINT MCRoles
SYMMETRY MCSymmetry
INVARIANTS LentIsRepaid RowsTellTheTruth
PROPERTY LienBeforeMoney
