SPECIFICATION MCSpec
CONSTANTS
    WordBits = 12
    Hart = {0, 1}
    RamSize = 48
    Starts <- MCStarts
    Lines <- MCLines
    Compresseds <- MCCompresseds
    Irq = {0, 1, 2}
    MaxHardwareIrq = 1
    Device = 4064
    Halfwords <- MCHalfwords
    ThumbStarts <- MCThumbStarts
INVARIANTS
    EncodingsExact
    ProgramsCompute
    ThumbComputes
    InterruptsSound
CHECK_DEADLOCK FALSE
