CONSTANTS
    IRQn_NUM = 2
    Thread = {h1, h2}
    Kernel = kernel
    Idle = idle
    NoThread = none
    Disciplined = TRUE
SPECIFICATION Spec
INVARIANTS
    QueueSound
PROPERTIES
    TakenByWaking
    Answered
    ImplementsFifo
