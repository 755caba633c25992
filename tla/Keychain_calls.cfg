CONSTANTS
    c1 = c1
    c2 = c2
    Nobody = Nobody
    NoSecret = NoSecret
    Callers <- MCCallers
    Secrets = {short, long}
    LongSecrets = {long}
    LargeSecrets = {long}
    Platforms = {"linux", "macos", "windows", "android", "ios"}
    Faults = {"spawn", "stdin", "wait", "helper", "service"}
    MaxFaults = 2
    MaxCalls <- MCMaxCalls
SPECIFICATION FairSpec
CHECK_DEADLOCK FALSE
INVARIANTS TypeOK JniCallsAreSerial
PROPERTIES ActsAsStore CallsReturn
