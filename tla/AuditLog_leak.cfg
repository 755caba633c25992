CONSTANTS
    app = app
    watchdog = watchdog
    t1 = t1
    t2 = t2
    w = w
    Nobody = Nobody
    Threads <- MCThreads
    Processes <- MCProcesses
    ProcessOf <- MCProcessOf
    UseFlock = TRUE
    Faults = {"write"}
    MaxFaults = 1
    MaxLines = 2
SPECIFICATION Spec
CHECK_DEADLOCK FALSE
INVARIANT FlockOnlyWhileLogging
