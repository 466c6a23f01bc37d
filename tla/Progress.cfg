SPECIFICATION Spec
CONSTANTS
    MaxPacket = 3
    HeaderSize = 2
    DescriptorSizes = {4, 5, 6}
    TxSize = 2
    MaxBytes = 3
    Packet = 2
    Responses = {0, 1, 2, 3}
    MaxReports = 2
    MaxTransfers = 2
    MaxPlugs = 3
    None = None
    FifoSize = 2
    Watched = {"TX_EMPTY", "TX_ABRT"}
    MaxCommands = 2
    Sub = 2
    Wrap = 8
    Never = Never
    Loads = {1, 3}
    SysTickTop = 4
    CodeSize = 2
    Slice = 2
INVARIANTS
    DataIntact
    NobodyMisled
    CountdownAims
PROPERTIES
    SetupPacketKept
    I2cSound
    Progress
CHECK_DEADLOCK FALSE
