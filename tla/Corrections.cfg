SPECIFICATION Spec
CONSTANTS
    q = q
    r = r
    None = None
    Users = {q, r, admin}
    QMBs = {q}
    Admins = {admin}
    Delegates = {r}
    VersionNumbers = {1}
    ControlClass = "CONTROLLED"
    Profiles <- MCLongRelease
    AssignmentChoices <- MCAssignments
    Contents = {c1, c2}
    EventIds = {e1}
PROPERTIES
    CorrectionIsSigned
