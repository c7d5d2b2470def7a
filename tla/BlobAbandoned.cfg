CONSTANTS
    Pulls = {q1, q2}
    None = None
    NumParts = 2
    PartSize = 1
    maxRetries = 2
    Faults = {"stall", "prune"}
    MaxFaults = 0
SPECIFICATION FairSpec
PROPERTY AbandonedDownloadStops
CHECK_DEADLOCK FALSE
