CONSTANTS
    User = {u1, u2}
    Root = root
    Kernel = kernel
    Idle = idle
    None = none
SPECIFICATION Spec
INVARIANTS
    NoRequestForgotten
