SPECIFICATION Spec
CONSTANTS
    MaxId = 1
    PageSize = 2
    CdcCap = 2
    Overlap = 1
    MaxAge = 9
    Lookback = 10
    SweepInterval = 2
    CommitLag = 0
    ServerSkew = 0
    LocalSkew = 0
    MaxClock = 4
    MaxChanges = 2
    MaxFails = 0
PROPERTIES
    DeliveredDeletionsApply
