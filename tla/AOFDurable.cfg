SPECIFICATION Spec
CONSTANTS
    Keys = {1, 2}
    Ids = {1, 2}
    Fields = {"f"}
    Paths = {"p", "q"}
    ShapePaths = {}
    h1 = h1
    d1 = d1
    d2 = d2
    m1 = m1
    HookNames <- MCHookNames
    HookDefs <- MCHookDefs
    Metas = {m1}
    NoMeta = NoMeta
    NoArea = NoArea
    Absent = Absent
    EmptyKey = 0
    Commands <- AllCommands
    InitialFiles <- MCInitialFiles
    maxkeys = 1
    maxids = 1
    LateExpiry = FALSE
    CrashInSwap = FALSE
    MaxWrites = 2
    MaxShrinks = 1
    MaxCrashes = 1
INVARIANTS TypeOK Durable ShrunkInSync 
CHECK_DEADLOCK FALSE
