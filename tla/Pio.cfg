SPECIFICATION Spec
CONSTANTS
    N = 2
    Word = {0, 1}
    Depth = 1
    Full = 2
    Programs <- MCPrograms
    Sources <- MCSources
INVARIANTS
    MachinesSound
    SourcesAnnounced
PROPERTIES
    FlagWakesOne
    ImplementsStreams
