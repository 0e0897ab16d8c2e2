SPECIFICATION FairSpec
CONSTANTS
    MAX_ATTEMPTS = 1
    Names = {}
    NoName = NoName
    Operations = {"create", "update"}
    TickGated = TRUE
    Mirrored = {1}
    MaxRecords = 2
    MaxQboId = 1
    MaxToken = 1
    MaxCrashes = 1
    MaxIoErrors = 1
    MaxRenames = 0
INVARIANTS
    EntityOrder
    ConflictHasNotLanded
    AttemptsBounded
PROPERTIES
    SavedTransitionsAreLegal
    QueueDrains
