\* One job of every kind, every party and every lien.
SPECIFICATION MCSpec
CONSTANTS
    o = o  a = a  b = b  c = c
    Addr <- Everyone
    NoAddr = NoAddr
    arbiter = o
    feeRecipient = o
    Blockable = {}
    MaxJobs = 1
    MaxStray = 1
    Bounties = {3, 4, 10}
    Scores = {0, 1}
    Windows = {0, 1, 2, 3}
    feeBps = 500
    flatFee = 1
    bondBps = 1000
    flatBond = 0
    SilenceForfeitBps = 2000
    MIN_BOUNTY = 4
    MIN_DELIVERY_WINDOW = 1
    MAX_DELIVERY_WINDOW = 2
    MAX_OPEN_WINDOW = 2
    REVIEW_WINDOW = 1
    DISPUTE_WINDOW = 1
SYMMETRY Users
CHECK_DEADLOCK FALSE
INVARIANTS TypeOK SettledInFull LienFirst BondAnswersForDelivery StallNeverPays SurplusExplained
PROPERTIES TermsAreFinal QuotesAreHonest
