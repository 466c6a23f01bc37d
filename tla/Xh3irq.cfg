\* Two devices whose priorities share a CSR word, and a software interrupt.
SPECIFICATION FairSpec
CONSTANTS
    Irq = {0, 1, 46}
    Prio = {0, 1, 2}
    Forceable = {46}
    NOIRQ = NOIRQ
    MaskedWfi = FALSE
INVARIANTS
    CandidatesExact
    NestingSound
    DeliverableIsSeen
