SPECIFICATION Spec
CONSTANTS
    Transfers = {f1}
    Bonds = {b1, b2}
    ToolCalls = {x1, x2}
    Amounts = {2}
    Envelopes <- OwnerChoices
    Platform <- Loose
    DAY = 2
    MaxTime = 2
    MaxFaults = 1
    MaxSpends = 3
CHECK_DEADLOCK FALSE
SYMMETRY Symmetry
INVARIANT ToolsStayInEnvelope
INVARIANT CeilingHolds
INVARIANT PaidIsCounted
