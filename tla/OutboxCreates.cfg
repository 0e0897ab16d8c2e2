SPECIFICATION Spec
CONSTANTS
    MAX_ATTEMPTS = 2
    Names = {n1, n2}
    NoName = NoName
    Operations = {"create"}
    TickGated = FALSE
    Mirrored = {}
    MaxRecords = 2
    MaxQboId = 2
    MaxToken = 1
    MaxCrashes = 1
    MaxIoErrors = 0
    MaxRenames = 1
INVARIANTS
    OneRecordPerWrite
    AppliedHasLanded
    ParentsFirst
    MappingFaithful
PROPERTIES
    SentOnlyInFlight
SYMMETRY NameSymmetry
