SPECIFICATION Spec
CONSTANTS
    Slots = {p1, p2}
    Models = {m1, m2}
    Files = {f1, f2}
    ShardsOf <- SameNames
    Absent = Absent
    Torn = Torn
    Mixed = Mixed
    MaxPulls = 3
    MaxCrashes = 1
SYMMETRY Symmetry
INVARIANTS TypeOK PulledAlone StageRemoved ShardInv
PROPERTY BlobKept
CHECK_DEADLOCK FALSE
