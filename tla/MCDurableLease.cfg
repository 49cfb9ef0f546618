CONSTANTS
    i1 = i1
    i2 = i2
    Instances = {i1, i2}
    Forcing = {}
    Readers = {i2}
    Beating = {i1}
    Nobody = Nobody
    NoBase = NoBase
    ColdStart = FALSE
    Faults = {"lost"}
    Ahead = i2
    Offset <- OneAhead
    LeaseTtl = 2
    SkewAllowance = 1
    MaxAttempts = 1
    SegmentLimit = 2
    MaxStatements = 1
    MaxUploads = 1
    MaxLate = 1
    MaxTime = 4
SPECIFICATION Spec
VIEW Distinguished
CHECK_DEADLOCK FALSE
INVARIANTS
    OneBeliever
PROPERTIES
    TakeoverIsLegal
