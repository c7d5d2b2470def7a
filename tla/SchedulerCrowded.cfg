CONSTANTS
    Requests = {q1, q2, q3}
    Models = {1, 2, 3}
    None = None
    Asks <- CrowdedAsks
    MaxQueue = 3
    DefaultKeepAlive = 1
    RefModulus = 8
    Events = {}
    MaxEvents = 0
SYMMETRY RequestSymmetry
SPECIFICATION Spec
INVARIANTS
    NoLostWakeup
    OneAnswer
    IdleRunnerWillExpire
    SlotReserved
    SchedulerInv
    ServiceInv
PROPERTY ImplementsService
CHECK_DEADLOCK FALSE
