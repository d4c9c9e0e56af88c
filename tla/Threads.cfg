CONSTANTS
    MaxThreads = 4
    Ids = {1, 2, 3, 4}
    Resident = {2}
    Careful = TRUE
    RootId = 2
SPECIFICATION ThreadsSpec
INVARIANTS
    MapSound
    TreeExact
PROPERTIES
    FindsEveryThread
    SelectExact
