CONSTANTS
    i1 = i1
    i2 = i2
    Instances = {i1, i2}
    Forcing = {}
    Readers = {}
    Beating = {}
    Nobody = Nobody
    NoBase = NoBase
    ColdStart = TRUE
    Faults = {"lost", "upload"}
    Ahead = i2
    Offset <- NoOffset
    LeaseTtl = 1
    SkewAllowance = 0
    MaxAttempts = 2
    SegmentLimit = 2
    MaxStatements = 2
    MaxUploads = 2
    MaxLate = 1
    MaxTime = 0
SPECIFICATION Spec
SYMMETRY Symmetric
VIEW Distinguished
CHECK_DEADLOCK FALSE
INVARIANTS
    WatermarkAccounts
    CloseIsABarrier
