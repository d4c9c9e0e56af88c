CONSTANTS
    Booleans = {"MODULES", "C", "V", "W", "X"}
    Tristates = {"A"}
    Chooser = {"X"}
    Optional = {}
    Numbers = {"I"}
    Versions <- MCVersions
    Modes = {"oldaskconfig", "oldconfig", "silentoldconfig", "listnewconfig", "olddefconfig", "savedefconfig", "defconfig", "allnoconfig", "allyesconfig", "randconfig"}
    Edits <- MCEdits
    Amounts = {2}
    Draws <- MCDraws
    MaxRuns = 2
    MaxChanges = 2
SPECIFICATION Spec
CHECK_DEADLOCK FALSE
INVARIANTS
    ConfigKept
    BuildTrue
PROPERTY
    AsksAndEnds
