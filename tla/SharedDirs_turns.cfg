CONSTANTS
    Procs = {p1, p2}
    Versions = {v1, v2}
    Payloads = {good, bad}
    Genuine = {good}
    NoFile = NoFile
    Torn = Torn
    NoVersion = NoVersion
    Faults = {"crash", "io", "blacklist_read"}
    MaxFaults = 1
    MaxRollbacks = 4
SYMMETRY Symmetry
SPECIFICATION Spec
INVARIANTS TypeOK CountsAreReal BlacklistJustified TurnsKeepBooks StagedAloneIsVerified
