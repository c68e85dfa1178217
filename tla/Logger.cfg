SPECIFICATION FairSpec
CONSTANTS
    Threads = {t1, t2}
    NoThread = NoThread
    Frames = 2
    MaxCalls = 2
    MaxRuns = 2
INVARIANTS
    TypeOK
    Untorn
    AllThere
PROPERTY LogReturns
CHECK_DEADLOCK FALSE
