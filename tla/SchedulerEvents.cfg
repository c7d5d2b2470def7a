CONSTANTS
    Requests = {q1, q2}
    Models = {1, 2}
    None = None
    Asks <- MixedAsks
    MaxQueue = 3
    DefaultKeepAlive = 1
    RefModulus = 8
    Events = {"crash", "stop", "stopAll", "expire", "oom", "noBatchConfig", "shutdown"}
    MaxEvents = 1
SYMMETRY RequestSymmetry
SPECIFICATION Spec
INVARIANTS
    TypeOK
    NoOrphanProcess
    GpuLoadAlone
PROPERTY ImplementsService
CHECK_DEADLOCK FALSE
