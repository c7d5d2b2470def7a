CONSTANTS
    Requests = {q1, q2}
    Models = {1, 2}
    None = None
    Asks <- SwapAsks
    MaxQueue = 3
    DefaultKeepAlive = 1
    RefModulus = 8
    Events = {"crash", "stop", "shutdown"}
    MaxEvents = 1
SPECIFICATION FairSpec
PROPERTIES
    EveryRequestAnswered
    MemoryReclaimed
    LoopsStop
CHECK_DEADLOCK FALSE
