SPECIFICATION FairSpec
CONSTANTS
    Mbufs = {m1, m2, m3}
    RX_RING_SIZE = 3
    BURST_SIZE = 2
    Length <- MCLength
    MaxPackets = 3
INVARIANTS
    TypeOK
    MbufsConserved
    StatsExact
    LogComplete
PROPERTY SignalEnds
CHECK_DEADLOCK FALSE
