SPECIFICATION CommentsSpec
CONSTANTS
    q = q
    r = r
    c1 = c1
    c2 = c2
    t1 = t1
    t2 = t2
    None = None
    Users = {q, r}
    QMBs = {q}
    Admins = {}
    Delegates = {r}
    VersionNumbers = {1}
    ControlClass = "CONTROLLED"
    Profiles <- MCLongRelease
    AssignmentChoices <- MCAssignments
    Contents = {c1, c2}
    EventIds = {e1}
    DocxComments <- MCDocxComments
    MaxComments = 2
    MaxWrites = 3
INVARIANTS
    RefNosUnique
    TokenMeansSeen
PROPERTIES
    ReviewedIsReleased
    DecisionsSurviveSync
