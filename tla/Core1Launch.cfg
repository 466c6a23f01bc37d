SPECIFICATION FairSpec
CONSTANTS
    Depth = 3
    Word <- MCWord
    Params <- MCParams
    Early <- MCEarlyMost
    MaxEarly = 3
    Message <- MCMessage
    MaxMessages = 2
    None = None
INVARIANTS
    LaunchSound
PROPERTIES
    LaunchProgress
