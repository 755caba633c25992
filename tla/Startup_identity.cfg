CONSTANTS
    Runs = {r1, r2}
    Edits = {"checklist", "env_vars", "top_key"}
    Typos = {"branch"}
    Absent = Absent
    Torn = Torn
    Threads = {t1, t2}
    NoRun = NoRun
    NoEngine = NoEngine
    Faults = {"crash", "install_crash", "disk", "keychain", "log_open", "log_write"}
    MaxFaults = 2
    MaxCalls = 3
SYMMETRY RunSymmetry
SPECIFICATION Spec
CHECK_DEADLOCK FALSE
INVARIANTS TypeOK LogHasOneKey InitSpeaksForEngine NoPlaceholderKey
