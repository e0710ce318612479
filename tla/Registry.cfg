SPECIFICATION RegistrySpec
CONSTANTS
    q = q
    None = None
    Users = {q}
    QMBs = {q}
    Admins = {}
    Delegates = {}
    VersionNumbers = {1, 2}
    ControlClass = "CONTROLLED_SHORT"
    Profiles <- MCProfiles
    AssignmentChoices <- MCAssignments
    Contents = {c1}
    EventIds = {e1}
INVARIANTS
    ActiveIsApproved
    ArchivedNeverActive
