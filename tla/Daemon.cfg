SPECIFICATION Spec
CONSTANTS
    Instances = {i1, i2, i3}
    Clients = {c1, c2}
    Nobody = Nobody
    Backlog = 5
INVARIANTS
    TypeOK
    SingleServer
    StaleByKillOnly
SYMMETRY Symmetry
CHECK_DEADLOCK FALSE
