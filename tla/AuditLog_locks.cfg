CONSTANTS
    app = app
    watchdog = watchdog
    t1 = t1
    t2 = t2
    w = w
    Nobody = Nobody
    Threads <- MCThreads
    Processes <- MCProcesses
    ProcessOf <- MCProcessOf
    UseFlock = TRUE
    Faults = {"crash", "flock", "write"}
    MaxFaults = 2
    MaxLines = 2
SPECIFICATION FairSpec
CHECK_DEADLOCK FALSE
INVARIANTS TypeOK OneWriter ReadersBlameOnlyTheOpenLine DamageIsContained
PROPERTIES AppendsLookAtomic CallsReturn
