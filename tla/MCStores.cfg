SPECIFICATION StoresSpec
SYMMETRY Symmetric
VIEW Distinguished

CONSTANTS
    Clients = {x1, x2}
    Origin = Origin
    Nothing = Nothing
    Starts = {"absent", "plain", "chain"}
    MaxCalls = 2
    Faults = {"io", "crash"}
    Threads = {th}
    Messages = {msg}
    Spans = {}
    Vectors = {vec}
    Groups = {th, g}
    None = None
    Callers = {x1, x2}
    MaxWork = 3
    MaxClock = 2
    Tools = {x1, x2}
    Calls = {c1, c2}
    Ext = Ext
    NoSession = NoSession
    Caps = {1, 3}
    ByteCap = 2
    ResultBytes = {0, 5}
    RowBytes = 2
    MaxTotal = 4
    Watchdog = FALSE
    Gated = FALSE
    Overrides = TRUE

INVARIANTS
    UpdatesAccumulate
    FlagIsExact

PROPERTIES
    ImplementsRegister

CHECK_DEADLOCK FALSE
