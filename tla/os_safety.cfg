SPECIFICATION Spec
CONSTANTS
    c1 = c1  c2 = c2  x = x  y = y  z = z
    Configs = {c1, c2}
    Executables <- MCExecutables
    Execs <- MCExecs
    Checker = Checker
    NoConfig = NoConfig
    MaxRetries = 1
    Faults = {"install", "write", "spawn", "wait", "kill"}
INVARIANTS
    NoOrphanProcess
    OneConfiguration
