SPECIFICATION Spec
CONSTANTS
    None = None
    Users = {"a", "b"}
    FirstAdmin = "a"
    MaxSessions = 2
    Requests = {r1, r2}
INVARIANTS
    LastAdminKept
PROPERTIES
    NoContextBeforePasswordChange
    RevocationIsFinal
