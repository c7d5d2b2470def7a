CONSTANTS
    Pulls = {q1, q2}
    None = None
    NumParts = 2
    PartSize = 2
    maxRetries = 2
    Faults = {"crash", "net", "stall", "noSpace", "noLength"}
    MaxFaults = 1
SPECIFICATION Spec
SYMMETRY PullSymmetry
INVARIANTS TypeOK OneWriter PullOkMeansBlob BlobInv BlobNotHoled
CHECK_DEADLOCK FALSE
