CONSTANTS
    Booleans = {"MODULES", "C", "V", "W", "X"}
    Tristates = {"A", "B", "Z"}
    Chooser = {"X", "Z"}
    Optional = {"Z"}
    Numbers = {"I"}
    Sessions <- MCSessions
    Amounts = {1, 2, 3}
    Names = {".config"}
    MaxDepth = 2
SPECIFICATION Spec
CHECK_DEADLOCK FALSE
INVARIANTS
    ValuesTrue
    ScreenTrue
    FileTrue
    MinimalEnough
