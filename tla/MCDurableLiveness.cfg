CONSTANTS
    i1 = i1
    i2 = i2
    Instances = {i1, i2}
    Forcing = {i2}
    Readers = {}
    Beating = {i1}
    Nobody = Nobody
    NoBase = NoBase
    ColdStart = FALSE
    Faults = {"lost"}
    Ahead = i2
    Offset <- NoOffset
    LeaseTtl = 1
    SkewAllowance = 0
    MaxAttempts = 1
    SegmentLimit = 2
    MaxStatements = 1
    MaxUploads = 1
    MaxLate = 1
    MaxTime = 0
SPECIFICATION FairSpec
CHECK_DEADLOCK FALSE
PROPERTIES
    OpenReturns
    CloseReturns
