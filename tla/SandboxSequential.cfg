CONSTANTS
    a = a
    b = b
    c = c
    d = d
    b1 = b1
    b2 = b2
    Task = {a, b, c, d}
    Call = {1, 2}
    PoolCells = 6
    NULL = NULL
    WILD = WILD
    Policy <- MCMixed
    Input <- MixedInputs
    Buffer = {b1}
    Leftover <- MCLeftover
    Stops = {}
    Failures = {"kmalloc", "copy", "pool"}
    MaxRunning = 1
    MaxInKernel = 1
    MaxInits <- MCAgain
    MaxCalls = 2
SPECIFICATION Spec
INVARIANTS NoBufferLeak CursorOnOwnState SequentialInv
PROPERTY ImplementsMonitor
CHECK_DEADLOCK FALSE
