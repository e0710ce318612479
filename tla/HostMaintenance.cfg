SPECIFICATION FairSpec
CONSTANTS
    None = None
    Hosts = {h1, h2}
    Operators = {o1}
    Releases = {A, B}
    MaxRequests = 2
INVARIANTS
    QuiescentBackup
    OneHost
    HostRunsExpectedRelease
    AbortIsKept
PROPERTIES
    LockIsReleased
    DrainEnds
CHECK_DEADLOCK FALSE
