SPECIFICATION Spec
CONSTANTS
    Procs = {p1}
    Scopes <- MoneyOutScopes
    Window = 1
    FeeParts = 3
    MaxStatements = 1
    MaxCrashes = 0
INVARIANTS
    ConfirmedAsStated
CHECK_DEADLOCK FALSE
