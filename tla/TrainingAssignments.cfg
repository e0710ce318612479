SPECIFICATION Spec
CONSTANTS
    Users = {"u"}
    MaxVersion = 2
    Tags = {"t"}
    MaxManual = 1
    MaxExemptions = 2
    MaxCrashes = 1
INVARIANTS SnapshotsTrue
PROPERTIES ImplementsAssignmentView
CHECK_DEADLOCK FALSE
