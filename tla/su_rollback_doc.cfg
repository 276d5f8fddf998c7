SPECIFICATION FairSpec
CONSTANTS
    v1 = v1  v2 = v2  v3 = v3  bad = bad
    Versions = {v1, v2, bad}
    Broken = {bad}
    Installed = v1
    NoVersion = NoVersion
    Missing = Missing
    Platforms = {"unix"}
    SameDevice = TRUE
    KillPoints <- NotExtracting
    MaxMessages = 1
    MaxCrashes = 2
    Faults = {}
PROPERTIES
    RollsBack
