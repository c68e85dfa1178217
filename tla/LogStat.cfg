SPECIFICATION FairSpec
CONSTANTS
    IntMax = 4
    FileCount = 4
    ThreadCount = 3
    Capacity = 2
    Top = 1
    Nobody = Nobody
    NoUrl = NoUrl
    Logs <- MCLogs
INVARIANTS
    TypeOK
    CapacityRestored
    ContainersOrdered
    NeverOvercounts
    ExactWhenRoom
    TotalExact
    EachFileOnce
PROPERTY Terminates
CHECK_DEADLOCK FALSE
