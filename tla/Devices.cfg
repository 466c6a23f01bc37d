SPECIFICATION Spec
CONSTANTS
    Alarms = {"A", "bottom"}
    Sub = 2
    Wrap = 5
    Word = {0, 1}
    Never = Never
    Slices = {1}
    Tops = {1, 3}
    Compares = {0, 2}
    ResetTop = 3
    Lock = {0}
    Bell = {0, 1}
    Sender <- MCSender
    Guard <- MCGuard
    Alarm = {0, 1}
    Half = 4
    Horizon = 12
    Depth = 2
    FifoDepth = 2
    MaxItems = 4
    Pin = {0, 1}
    Blocks = {"SIO", "PIO"}
    Overrides = {"normal", "invert"}
    Masks <- MCMasks
    WordBits = 8
    Dividends = {0, 1, 5, 127, 128, 251, 255}
INVARIANTS
    IrqWhileUnread
    IntercoreSound
    PwmTrue
    TimeReadTrue
    StreamsIntact
    SignalsRaised
    PinsTrue
    ArithmeticExact
PROPERTIES
    ImplementsMailbox
    FiresOnTime
CHECK_DEADLOCK FALSE
