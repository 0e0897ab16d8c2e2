SPECIFICATION Spec
CONSTANTS
    Procs = {p1, p2}
    Scopes <- MCScopes
    Window = 1
    FeeParts = 3
    MaxStatements = 2
    MaxCrashes = 1
INVARIANTS
    OneLinePerEntry
    OneAnswer
    SettledInFull
    ClosedStatementsTie
SYMMETRY ProcSymmetry
CHECK_DEADLOCK FALSE
