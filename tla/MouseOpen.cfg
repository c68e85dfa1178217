SPECIFICATION Spec
CONSTANTS
    Procs = {p1, p2}
    Uninit = Uninit
    Byte <- MCByte
    BufferSize <- MCBufferSize
    Sizes <- MCSizes
    XLines <- MCXLines
    YLines <- MCYLines
    Texts <- MCTexts
    Counts <- MCCounts
    Modes <- MCModes
PROPERTY OpenYieldsData
CHECK_DEADLOCK FALSE
