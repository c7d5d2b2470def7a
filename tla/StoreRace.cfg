CONSTANTS
    s1 = s1
    s2 = s2
    n1 = n1
    n2 = n2
    m1 = m1
    m2 = m2
    t = t
    c = c
    Slots = {s1, s2}
    Names = {n1, n2}
    Layers = {m1, m2, t, c}
    ModelLayers = {m1, m2}
    Configs = {c}
    Contents <- StoreContents
    None = None
    Absent = Absent
    Torn = Torn
    Aux = FALSE
    NoPrune = FALSE
    MaxRequests = 2
    MaxOverlapping = 2
    MaxCrashes = 0
SPECIFICATION Spec
SYMMETRY StoreSymmetry
INVARIANT RemovesUnused
CHECK_DEADLOCK FALSE
