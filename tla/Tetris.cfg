SPECIFICATION FairSpec
CONSTANTS
    Width = 4
    Height = 5
    MaxPlaced = 6
    Tetrominoes <- MCTetrominoes
INVARIANTS
    TypeOK
    TetrominoFits
    CellsConserved
    LinesCollapsed
PROPERTY TetrominoLands
CHECK_DEADLOCK FALSE
