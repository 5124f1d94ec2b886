CONSTANTS
    main = main
    f = f
    syscall_log = syscall_log
    NULL = NULL
    Buckets = {13}
    Func = {main}
    Programs <- MCIfElse
SPECIFICATION Spec
INVARIANT EveryCallInGraph
CHECK_DEADLOCK FALSE
