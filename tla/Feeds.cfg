SPECIFICATION Spec
CONSTANTS
    Procs = {p1, p2}
    Scopes <- MCScopes
    MaxCrashes = 1
INVARIANTS
    PostedOnce
    RunsAsSaved
    ClearingNets
    NotOverApplied
    DecisionTells
SYMMETRY ProcSymmetry
CHECK_DEADLOCK FALSE
