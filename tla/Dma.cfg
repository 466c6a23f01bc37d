SPECIFICATION Spec
CONSTANTS
    c0 = c0
    c1 = c1
    Channel = {c0, c1}
    Config <- MCConfig
    Counts <- MCCounts
    Block <- MCBlock
    Memory = Memory
    TxFifo = TxFifo
    Depth = 2
INVARIANTS
    NoStall
    NoOverrun
PROPERTIES
    ImplementsJobs
