SPECIFICATION FairSpec
CONSTANTS
    good = good  better = better  unassemblable = unassemblable
    failed = failed  reset = reset
    Hashes = {good, better, unassemblable, failed, reset}
    Content <- MCContent
    Local = "config"
    LocalMark = LocalMark
    NoRemote = NoRemote
    NoStatus = NoStatus
    NoSup = NoSup
    MaxInbox = 1
    Faults = {"report", "store", "read", "build", "start", "crash"}
INVARIANTS
    RunsWhatIsStored
    AppliedIsStored
    ApplyingIsRetried
    LossIsUnhealthy
PROPERTIES
    MessageAnswered
    StopEnds
