CONSTANTS
    NEvents = 3
    MinTicks = 2
    First = 3
    Period = 4
    Requests = {1, 2, 3, 7}
    MaxCalls = 4
    MaxLag = 2
    Word = 64
SPECIFICATION Spec
INVARIANTS
    TimerAlive
    QueueExact
PROPERTIES
    
    Fires
