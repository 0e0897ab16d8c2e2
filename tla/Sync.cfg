SPECIFICATION FairSpec
CONSTANTS
    MaxId = 2
    PageSize = 1
    CdcCap = 2
    Overlap = 1
    MaxAge = 1
    Lookback = 3
    SweepInterval = 2
    CommitLag = 1
    ServerSkew = 1
    LocalSkew = 1
    MaxClock = 4
    MaxChanges = 1
    MaxFails = 1
INVARIANTS
    TypeOK
    SkippedOnlyBySlipping
PROPERTIES
    CatchesUp
