SPECIFICATION Spec
CONSTANTS
    Procs = {p1}
    Scopes <- PalletScopes
    FeetPerSheet = 2
    MaxCrashes = 0
INVARIANTS
    AlwaysAgrees
CHECK_DEADLOCK FALSE
