CONSTANTS
    a = a
    b = b
    c = c
    d = d
    b1 = b1
    b2 = b2
    Task = {a, b}
    Call = {1, 2}
    PoolCells = 6
    NULL = NULL
    WILD = WILD
    Policy <- MCPolicy
    Input <- AllFull
    Buffer = {b1, b2}
    Leftover <- MCLeftover
    Stops = {}
    Failures = {}
    MaxRunning = 2
    MaxInKernel = 1
    MaxInits <- Once
    MaxCalls = 2
SPECIFICATION Spec
PROPERTY KillOnlyOffPolicy
CHECK_DEADLOCK FALSE
