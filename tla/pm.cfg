SPECIFICATION Spec
CONSTANTS
    p = p  q = q  r = r  s = s
    Packages = {p, q, r, s}
    Configs <- UpToTwo
    Hooked = {p, r}
    NoPackage = NoPackage
    Faults = {"download", "extract", "delete", "hook", "spinUp", "crash"}
INVARIANTS
    RunningKept
    RunsComplete
    DiskBounded
