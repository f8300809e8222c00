CONSTANTS
    j1 = j1  j2 = j2  j3 = j3
    k1 = k1  k2 = k2
    w1 = w1  w2 = w2
    p1 = p1  p2 = p2
    Jobs = {j1, j2}
    Keys = {k1}
    NoKey = NoKey
    NoJob = NoJob
    NoClaim = NoClaim
    PENDING = PENDING
    MaxRows = 2
    TTL = 2
    MaxAge = 1
    s1 = s1
    Shas = {s1}
    ShaOf <- OneSha
    Workers = {w1, w2}
    Procs = {p1}
    Host <- OneProc
    Handled = {j1, j2}
    Demos = {}
    KeyOf <- Duplicates
    Faults = {"llm"}
SPECIFICATION Spec
PROPERTIES
    FailedDoesNotBlock
SYMMETRY WorkerSymmetry
CHECK_DEADLOCK FALSE
