SPECIFICATION FairSpec
CONSTANTS
    Callers = {c1, c2}
    Subtasks = {"research", "write"}
    DependsOn <- MCDependsOn
    Payer <- MCPayer
    MaxMishaps = 1
INVARIANT TwiceOnlyIfExcused
PROPERTY EveryEscrowIsFollowed
PROPERTY NeverRests
CHECK_DEADLOCK FALSE
