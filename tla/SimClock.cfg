SPECIFICATION MCSpec
CONSTANTS
    Alarm = {a1, a2, a3}
    None = None
    Deltas <- MCDeltas
    TickDeltas <- MCTickDeltas
    MaxNanos = 2
INVARIANTS
    QueueSound
    WalksEnd
PROPERTIES
    TickReturns
    ImplementsAlarmClock
    ImplementsQueue
