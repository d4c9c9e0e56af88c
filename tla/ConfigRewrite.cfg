CONSTANTS
    Booleans = {"C", "MODULES"}
    Tristates = {"A", "B"}
    Parsed <- MCParsed
    Bases <- MCBases
SPECIFICATION Spec
INVARIANTS
    ValueKept
PROPERTIES
    TestsSound
