SPECIFICATION FairSpec
CONSTANTS
    c0 = c0
    c1 = c1
    Channel = {c0, c1}
    Config <- MCPaced
    Counts <- MCTwo
    Block <- MCBlock
    Memory = Memory
    TxFifo = TxFifo
    Depth = 2
PROPERTIES
    Finishes
