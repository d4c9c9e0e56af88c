CONSTANTS
    Probes = {"sampler", "other", "return"}
    Returning = {"return"}
    Function <- MCFunction
    Return = "back"
    Comparators = 3
    NULL = "null"
    Sampler = "sampler"
    MaxSamples = 3
    MaxKsym = 5
    Symbols <- MCSymbols
    Codes = {10, 25, 45, 55}
    MaxSteps = 13
SPECIFICATION Spec
CHECK_DEADLOCK FALSE
INVARIANTS
    ProbesWhole
    StatsExact
PROPERTIES
    NoneMissed
