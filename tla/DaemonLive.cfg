SPECIFICATION FairSpec
CONSTANTS
    Instances = {i1, i2}
    Clients = {c1, c2}
    Nobody = Nobody
    Backlog = 5
PROPERTY ClientSettled
CHECK_DEADLOCK FALSE
