CONSTANTS
    Booleans = {"C", "X", "MODULES"}
    Tristates = {"A", "B"}
    Chooser = {"X"}
    Optional = {}
    Deps <- MCDeps
    Selects = {"C"}
    Defaults <- MCDefaults
    MaxEntries = 3
    MaxConditions = 2
SPECIFICATION Spec
INVARIANTS
    TreeSound
    CyclesReported
PROPERTIES
    DepsPropagated
