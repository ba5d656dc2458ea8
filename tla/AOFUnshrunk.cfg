SPECIFICATION Spec
CONSTANTS
    Keys = {0, 1, 2}
    Ids = {1, 2}
    Fields = {"f"}
    Paths = {"p", "q"}
    ShapePaths = {"p"}
    h1 = h1
    d1 = d1
    d2 = d2
    m1 = m1
    HookNames <- MCHookNames
    HookDefs <- MCHookDefs
    Metas = {m1}
    NoMeta = NoMeta
    NoArea = NoArea
    Absent = Absent
    EmptyKey = 0
    Commands <- LoggedCommands
    InitialFiles <- MCInitialFiles
    maxkeys = 1
    maxids = 1
    LateExpiry = TRUE
    CrashInSwap = FALSE
    MaxWrites = 3
    MaxShrinks = 0
    MaxCrashes = 1
INVARIANTS Durable LoadsCleanly
CHECK_DEADLOCK FALSE
