CONSTANTS
    Top = 22
    Smallest = 2
    Pools <- MCPools
    MaxFpages = 16
    MpuRegions = 3
    Root = "root"
    Users = {"t1", "t2"}
    Spaces = {1, 2, 3}
    Kip <- MCKip
    Utcb <- MCUtcb
    Stack <- MCStack
    Areas <- MCAreas
    Codes = {10}
    MaxOps = 5
SPECIFICATION Spec
CHECK_DEADLOCK FALSE
INVARIANTS
    WellFormed
    Accounted
    SwitchFits
PROPERTIES
    CallsExact
