CONSTANTS
    Runs = {r1}
    Edits = {"checklist", "env_vars", "top_key", "no_reporting"}
    Typos = {"branch"}
    Absent = Absent
    Torn = Torn
    Threads = {t1}
    NoRun = NoRun
    NoEngine = NoEngine
    Faults = {}
    MaxFaults = 0
    MaxCalls = 1
SPECIFICATION Spec
CHECK_DEADLOCK FALSE
INVARIANT ChecklistSuffices
