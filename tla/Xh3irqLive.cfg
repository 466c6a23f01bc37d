\* One device and a software interrupt.
SPECIFICATION FairSpec
CONSTANTS
    Irq = {0, 46}
    Prio = {0, 1}
    Forceable = {0, 46}
    NOIRQ = NOIRQ
    MaskedWfi = FALSE
PROPERTIES
    PendingWakes
    HandlersSettle
