CONSTANTS
    Requests = {q1, q2, q3}
    Models = {1}
    None = None
    Asks <- ZeroAsks
    MaxQueue = 3
    DefaultKeepAlive = 1
    RefModulus = 8
    Events = {}
    MaxEvents = 0
SPECIFICATION Spec
PROPERTIES
    BusyRunnerNotUnloaded
CHECK_DEADLOCK FALSE
