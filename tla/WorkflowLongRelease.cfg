SPECIFICATION Spec
CONSTANTS
    q = q
    r = r
    None = None
    Users = {q, r}
    QMBs = {q}
    Admins = {}
    Delegates = {r}
    VersionNumbers = {1, 2}
    ControlClass = "CONTROLLED"
    Profiles <- MCLongRelease
    AssignmentChoices <- MCAssignments
    Contents = {c1}
    EventIds = {e1}
INVARIANTS
    FourEyes
    ReleaseEvidence
    AssignmentEvidence
    SignaturePossible
    SupersessionSound
PROPERTIES
    ReleaseIsFinal
