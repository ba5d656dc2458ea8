SPECIFICATION Spec
CONSTANTS
    Keys = {1, 2}
    Ids = {1, 2}
    Fields = {"f"}
    Paths = {"p", "q"}
    ShapePaths = {}
    h1 = h1
    d1 = d1
    d2 = d2
    m1 = m1
    HookNames <- MCHookNames
    HookDefs <- MCHookDefs
    Metas = {m1}
    NoMeta = NoMeta
    NoArea = NoArea
    Absent = Absent
    EmptyKey = 0
    Commands <- FewCommands
    InitialFiles <- MCInitialFiles
    maxkeys = 2
    maxids = 1
    LateExpiry = FALSE
    CrashInSwap = FALSE
    MaxWrites = 2
    MaxShrinks = 2
    MaxCrashes = 1
PROPERTIES ImplementsStore ShrinkEnds
CHECK_DEADLOCK FALSE
