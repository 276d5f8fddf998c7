SPECIFICATION Spec
CONSTANTS
    p = p  q = q  r = r  s = s
    Packages = {p, q, r, s}
    Configs <- UpToTwo
    Hooked = {p, r}
    NoPackage = NoPackage
    Faults = {"hook"}
INVARIANTS
    HookFailureFails
