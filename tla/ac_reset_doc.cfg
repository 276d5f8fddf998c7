SPECIFICATION FairSpec
CONSTANTS
    a = a  b = b  t1 = t1  t2 = t2  tUnknown = tUnknown
    both = both  changed = changed  reset = reset  broken = broken  unknown = unknown
    AgentIds = {a, b}
    AgentTypes = {t1, t2, tUnknown}
    Registry = {t1, t2}
    NoAgent = NoAgent
    Hashes = {both, changed, reset, broken, unknown}
    Content <- MCContent
    Reset = Reset
    Malformed = Malformed
    Local <- MCLocal
    NoRemote = NoRemote
    NoStatus = NoStatus
    Faults = {}
PROPERTIES
    ResetAnswered
