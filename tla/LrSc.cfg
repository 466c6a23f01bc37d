SPECIFICATION MCSpec
CONSTANTS
    WordBits = 12
    Hart = {0, 1}
    RamSize = 48
    Starts <- MCReserve
    Lines = {}
    Compresseds = {}
    Irq = {0, 1, 2}
    MaxHardwareIrq = 1
    Device = 4064
    Halfwords <- MCHalfwords
    ThumbStarts = {}
INVARIANT CountsAll
CHECK_DEADLOCK FALSE
