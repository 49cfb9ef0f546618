CONSTANTS
    i1 = i1
    i2 = i2
    Instances = {i1, i2}
    Forcing = {i1, i2}
    Readers = {}
    Beating = {}
    Nobody = Nobody
    NoBase = NoBase
    ColdStart = FALSE
    Faults = {"lost", "error", "unreadable", "upload", "engine"}
    Ahead = i2
    Offset <- NoOffset
    LeaseTtl = 1
    SkewAllowance = 0
    MaxAttempts = 2
    SegmentLimit = 2
    MaxStatements = 1
    MaxUploads = 1
    MaxLate = 1
    MaxTime = 0
SPECIFICATION Spec
SYMMETRY Symmetric
VIEW Distinguished
CHECK_DEADLOCK FALSE
INVARIANTS
    NothingNamedIsMissing
PROPERTIES
    OnlyTheHolderCommits
