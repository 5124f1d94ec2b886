CONSTANTS
    a = a
    b = b
    c = c
    d = d
    b1 = b1
    b2 = b2
    Task = {a, b}
    Call = {1, 2}
    PoolCells = 4
    NULL = NULL
    WILD = WILD
    Policy <- MCSmall
    Input <- MixedInputs
    Buffer = {b1, b2}
    Leftover <- MCLeftover
    Stops = {0, 2}
    Failures = {"kmalloc", "copy", "pool"}
    MaxRunning = 2
    MaxInKernel = 2
    MaxInits <- Once
    MaxCalls = 1
SPECIFICATION Spec
INVARIANT TypeOK
PROPERTY SyscallsEnd
CHECK_DEADLOCK FALSE
