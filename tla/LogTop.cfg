SPECIFICATION FairSpec
CONSTANTS
    IntMax = 4
    FileCount = 4
    ThreadCount = 3
    Capacity = 2
    Top = 1
    Nobody = Nobody
    NoUrl = NoUrl
    Logs <- MCLogs
INVARIANT PrintsTop
CHECK_DEADLOCK FALSE
