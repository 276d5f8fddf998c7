SPECIFICATION FairSpec
CONSTANTS
    a = a  b = b  t1 = t1  t2 = t2  v1 = v1  v2 = v2  x = x  y = y
    Agents = {a, b}
    Types = {t1, t2}
    Versions = {v1, v2}
    LocalVersion = v1
    Names = {x, y}
    Manifest <- MCManifest
    Configs <- MCConfigs
    NoType = NoType  NoVersion = NoVersion  NoObj = NoObj
    Idents = {"fleet1", "fleet2"}
    MaxMessages = 2
    MaxFaults = 1
INVARIANTS
    NoZombies
PROPERTIES
    OnlyOutdatedDeleted
    IdentityKept
    Converges
