SPECIFICATION Spec
CONSTANTS
    Procs = {p1, p2}
    Uninit = Uninit
    Byte <- MCByte
    BufferSize <- MCBufferSize
    Sizes <- MCSizes
    XLines <- MCXLines
    YLines <- MCYLines
    Texts <- MCTexts
    Counts <- MCCounts
    Modes <- MCModes
SYMMETRY Symmetry
INVARIANTS
    TypeOK
    NoUseAfterFree
    OnlyWrittenBytes
PROPERTY FifoSpec
CHECK_DEADLOCK FALSE
