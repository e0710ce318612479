SPECIFICATION LockSpec
CONSTANTS
    q = q
    r = r
    None = None
    Users = {q, r}
    QMBs = {q}
    Admins = {}
    Delegates = {r}
    VersionNumbers = {1}
    ControlClass = "CONTROLLED"
    Profiles <- MCLongRelease
    AssignmentChoices <- MCAssignments
    Contents = {c1}
    EventIds = {1, 2, 3, 4}
    Clients = {k1}
INVARIANTS
    NoLostUpdate
