SPECIFICATION Spec
CONSTANTS
    d1 = d1
    d2 = d2
    Procs = {p1, p2}
    NoProc = NoProc
    Specs <- MCSpecs
    Target = 2
    Work = {w1}
    MaxBackups = 3
    MaxCrashes = 1
    MaxFaults = 1
INVARIANTS
    RunsOnWholeSet
    HalfMigratedIsJournaled
    JournalLeadsBack
PROPERTIES
    AttemptEnds
