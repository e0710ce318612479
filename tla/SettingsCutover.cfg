SPECIFICATION Spec
CONSTANTS
    Programs = {"desktop", "update", "backend"}
    Backend = {"backend"}
    Registered <- MCRegistered
    UserManagement = 3
    LegacyFiles <- MCLegacyFiles
    None = None
    MaxTouches = 2
    MaxCrashes = 2
INVARIANTS
    ServesWholeSettings
    TakenFromOneFile
PROPERTIES
    CompletionIsFinal
    InterruptedCutoverCompletes
