SPECIFICATION Spec
CONSTANTS
    Procs = {p1, p2}
    Debts = {inv}
    Credits = {cm}
    Payments = {pay}
    Scopes <- MCScopes
    MaxCrashes = 1
INVARIANTS
    BookAgrees
    ClosedBooksStand
    ApplicationsHold
    AgingTies
    EntriesTrace
PROPERTIES
    TrailKept
SYMMETRY ProcSymmetry
CHECK_DEADLOCK FALSE
