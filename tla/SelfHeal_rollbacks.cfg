CONSTANTS
    Versions = {v1, v2}
    Files = {exe}
    Contents = {old, new}
    NoFile = NoFile
    Torn = Torn
    BadMac = BadMac
    Dirs = {app}
    AppDir = app
    RestoreDir = app
    Faults = {"crash", "io", "rot"}
    MaxFaults = 3
    MaxCount = 4
SPECIFICATION Spec
SYMMETRY Symmetry
INVARIANTS TypeOK SuccessMeansRestored OkRollbacksBlacklist BlacklistJustified FaultsHideOneRollbackEach
