SPECIFICATION WSpec

CONSTANTS
    Conns = {h1, h2}
    NoConn = NoConn
    InMemory = InMemory
    Slots = {s1, s2}
    Calls = {c1, c2}
    Streams = {t1}
    Dirs = {d1}
    Default = Default
    NoSession = NoSession
    MemDirs = {m1}
    EngineCalls = {e1}
    EngineDir = scratch
    Workers = {c1, c2, t1, e1}

PROPERTIES
    WorkerLeavesConnections

CHECK_DEADLOCK FALSE
