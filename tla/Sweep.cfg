SPECIFICATION FairSpec
CONSTANTS
    MaxId = 3
    PageSize = 2
    HealBatchSize = 2
    Overlap = 1
    MaxChanges = 2
    MaxFails = 1
INVARIANTS
    NoFalseTombstone
PROPERTIES
    HealsFromThisSweep
    QuarantineJustified
    Recovers
CHECK_DEADLOCK FALSE
