CONSTANTS
    main = main
    f = f
    syscall_log = syscall_log
    NULL = NULL
    Buckets = {4}
    Func = {main, f, syscall_log}
    Programs <- MCAll
SPECIFICATION Spec
INVARIANTS TypeOK ConvertSimulates ExitTracked FinalSimulates InternalEdgesTrimmed PassInv
PROPERTY PassEnds
CHECK_DEADLOCK FALSE
