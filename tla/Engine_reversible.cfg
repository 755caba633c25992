CONSTANTS
    exe = exe
    r1 = r1
    r2 = r2
    r3 = r3
    b1 = b1
    b2 = b2
    b3 = b3
    other = other
    Versions = {r1, r2, r3}
    Files = {exe}
    Contents = {b1, b2, b3, other}
    NoFile = NoFile
    Torn = Torn
    BadMac = BadMac
    Dirs = {app}
    AppDir = app
    RestoreDir = app
    Faults = {"crash", "io"}
    MaxFaults = 1
    MaxCount = 2
    Exe = exe
    Build <- MCBuild
    ReleaseRank <- InOrder
    LexRank <- InOrder
    FirstVersion = r1
    PublishDown = FALSE
    MaxRetries = 0
    NotASig = NotASig
    NoOffer = NoOffer
    NetFaults = {}
    MaxNetFaults = 0
SPECIFICATION EngineSpec
INVARIANTS EngineTypeOK AppliedIsReversible RestoresLatestSnapshot AppliedIsStaged InstalledIsGenuine
