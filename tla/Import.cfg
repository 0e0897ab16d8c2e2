SPECIFICATION FairSpec
CONSTANTS
    Posting = {1}
    Contracts = {2, 3}
    Carried = {3}
    From = 2
    MaxDate = 2
    MaxAmount = 1
    MaxChanges = 3
    MaxCloses = 2
    MaxCrashes = 1
INVARIANTS
    RunTells
    NeverTwice
PROPERTIES
    Converges
CHECK_DEADLOCK FALSE
