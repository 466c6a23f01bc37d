\* One device and a software interrupt.
SPECIFICATION FairSpec
CONSTANTS
    Irq = {0, 46}
    Prio = {0, 1}
    Forceable = {}
    NOIRQ = NOIRQ
    MaskedWfi = TRUE
PROPERTY
    PendingWakes
