CONSTANTS
    i1 = i1
    i2 = i2
    Instances = {i1, i2}
    Forcing = {i2}
    Readers = {}
    Beating = {}
    Nobody = Nobody
    NoBase = NoBase
    ColdStart = TRUE
    Faults = {}
    Ahead = i2
    Offset <- NoOffset
    LeaseTtl = 1
    SkewAllowance = 0
    MaxAttempts = 2
    SegmentLimit = 2
    MaxStatements = 1
    MaxUploads = 0
    MaxLate = 1
    MaxTime = 0
SPECIFICATION Spec
CHECK_DEADLOCK FALSE
PROPERTIES
    OpensAsHolder
