SPECIFICATION Spec
CONSTANTS
    v1 = v1  v2 = v2  v3 = v3  bad = bad
    Versions = {v1, v2, v3, bad}
    Broken = {bad}
    Installed = v1
    NoVersion = NoVersion
    Missing = Missing
    Platforms = {"unix", "windows"}
    SameDevice = TRUE
    KillPoints <- Anywhere
    MaxMessages = 3
    MaxCrashes = 2
    Faults = {"install", "disk", "store"}
INVARIANTS
    BinaryWorks
    RestartPending
    StoredWorks
    WorkingCopy
CHECK_DEADLOCK FALSE
