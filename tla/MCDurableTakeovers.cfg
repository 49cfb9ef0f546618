CONSTANTS
    i1 = i1
    i2 = i2
    Instances = {i1, i2}
    Forcing = {i1, i2}
    Readers = {}
    Beating = {}
    Nobody = Nobody
    NoBase = NoBase
    ColdStart = FALSE
    Faults = {"late"}
    Ahead = i2
    Offset <- NoOffset
    LeaseTtl = 1
    SkewAllowance = 0
    MaxAttempts = 1
    SegmentLimit = 2
    MaxStatements = 1
    MaxUploads = 2
    MaxLate = 1
    MaxTime = 0
SPECIFICATION Spec
SYMMETRY Symmetric
VIEW Distinguished
CHECK_DEADLOCK FALSE
INVARIANTS
    AckedIsDurable
    TimeoutMeansNotCommitted
    ReplayIsExact
    ReplayTakesTurns
PROPERTIES
    OpensAsHolder
    KeepsTheLog
