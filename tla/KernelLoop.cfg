CONSTANTS
    User = {u1, u2}
    Root = root
    Kernel = kernel
    Idle = idle
    None = none
SPECIFICATION Spec
INVARIANTS
    SoftirqsGoFirst
    TrappedIsCaller
    RequestsKept
PROPERTIES
    ExpiryHandled
    ImplementsService
