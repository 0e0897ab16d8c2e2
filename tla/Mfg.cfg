SPECIFICATION Spec
CONSTANTS
    Procs = {p1, p2}
    Scopes <- MCScopes
    FeetPerSheet = 2
    MaxCrashes = 1
INVARIANTS
    AveragesHold
    OnHandTies
    FreightAllocated
    BuildRowBacked
    EveryBuildRecorded
SYMMETRY ProcSymmetry
CHECK_DEADLOCK FALSE
