SPECIFICATION Spec
CONSTANTS
    Games = {g1, g2}
    LEN = 3
    Words <- MCWords
    Default <- MCDefault
    Names <- MCNames
    Results <- MCResults
    MaxGames = 4
INVARIANTS
    TypeOK
    OwnedOnce
    Ranked
    BestOfKnown
    SerialBest
SYMMETRY Symmetry
CHECK_DEADLOCK FALSE
