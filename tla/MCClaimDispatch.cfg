SPECIFICATION MCSpec
CONSTANTS
    w1 = w1  w2 = w2
    p1 = p1  p2 = p2
    Workers <- MCWorkers
    Miners <- MCMiners
    NoWorker = NoWorker
    Procs <- MCProcs
    MAX_SLOTS = 2
    MAX_GRADING_ATTEMPTS = 2
    MaxTasks = 2
    MaxMishaps = 1
CHECK_DEADLOCK FALSE
INVARIANT OneClaimer
INVARIANT OneRunAtATime
INVARIANT GradesTheLinkedRun
INVARIANT SubmittedByItsMaker
INVARIANT SentBackIsNotSubmitted
PROPERTY AcceptedIsWorked
