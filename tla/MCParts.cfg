SPECIFICATION PartsSpec

CONSTANTS
    MaxChunk = 3
    MaxRow = 4
    StallTimeout = TRUE
    MaxPull = 3
    MaxBytes = 8
    Tests <- MCTests
    MaxCalls = 3
    Databases <- MCDatabases
    Schemas <- MCSchemas
    TableNames <- MCTableNames
    Users = {u1}
    Passwords = {p1}
    Unset = Unset
    Engines <- MCEngines
    Missing = Missing
    Unparsed = Unparsed
    Heads <- MCHeads
    Crews <- MCCrews
    MaxWrites = 5
    Tools = {t1, t2}
    Calls = {c1, c2}
    Ext = Ext
    NoSession = NoSession
    Caps = {1}
    ByteCap = 1
    ResultBytes = {0}
    RowBytes = 1
    MaxTotal = 2
    Watchdog = TRUE
    Gated = TRUE
    Overrides = FALSE

INVARIANTS
    RowsStayWhole
    LandsAsCounted
    SuccessIsWhole
    FailedRowIsAbsolute
    BufferIsBounded
    StatementMeansWhatWasAsked
    FederatedNamesRoundTrip
    FloorCoversTheBytes
    NothingLeaks
    ReadOnlyHolds

PROPERTIES
    AlwaysSettles
    AbandonedIsClosed

CHECK_DEADLOCK FALSE
