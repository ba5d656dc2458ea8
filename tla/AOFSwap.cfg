SPECIFICATION Spec
CONSTANTS
    Keys = {1, 2}
    Ids = {1, 2}
    Fields = {"f"}
    Paths = {"p", "q"}
    ShapePaths = {}
    h1 = h1
    d1 = d1
    d2 = d2
    m1 = m1
    HookNames <- MCHookNames
    HookDefs <- MCHookDefs
    Metas = {m1}
    NoMeta = NoMeta
    NoArea = NoArea
    Absent = Absent
    EmptyKey = 0
    Commands <- ExpireCommand
    InitialFiles <- MCInitialFiles
    maxkeys = 1
    maxids = 1
    LateExpiry = FALSE
    CrashInSwap = TRUE
    MaxWrites = 1
    MaxShrinks = 1
    MaxCrashes = 1
INVARIANT Durable
CHECK_DEADLOCK FALSE
