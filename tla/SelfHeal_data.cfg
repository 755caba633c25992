CONSTANTS
    Versions = {v1}
    Files = {exe, lib}
    Contents = {old, new}
    NoFile = NoFile
    Torn = Torn
    BadMac = BadMac
    Dirs = {app, cwd}
    AppDir = app
    RestoreDir = cwd
    Faults = {"crash", "io", "blacklist_read"}
    MaxFaults = 3
    MaxCount = 3
SPECIFICATION Spec
SYMMETRY Symmetry
INVARIANTS LiveFilesWhole SealedSnapshotKept
PROPERTIES AlarmsAreReal KeepsPromise
