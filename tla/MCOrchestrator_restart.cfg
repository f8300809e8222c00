CONSTANTS
    j1 = j1  j2 = j2  j3 = j3
    k1 = k1  k2 = k2
    w1 = w1  w2 = w2
    p1 = p1  p2 = p2
    Jobs = {j1, j2, j3}
    Keys = {k1, k2}
    NoKey = NoKey
    NoJob = NoJob
    NoClaim = NoClaim
    PENDING = PENDING
    MaxRows = 2
    TTL = 1
    MaxAge = 0
    s1 = s1
    Shas = {s1}
    ShaOf <- OneSha
    Workers = {w1, w2}
    Procs = {p1}
    Host <- OneProc
    Handled = {j1, j2, j3}
    Demos = {}
    KeyOf <- TwoCommits
    Faults = {"crash", "stop", "api"}
SPECIFICATION Spec
INVARIANTS
    NothingLost
    ClaimNamesItsRow
    SkipNamesSameCommit
    JobConservation
    TerminalIsQuiet
PROPERTIES
    ImplementsLedger
SYMMETRY WorkerSymmetry
CHECK_DEADLOCK FALSE
