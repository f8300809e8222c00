SPECIFICATION FairReport

CONSTANTS
    p1 = p1
    p2 = p2
    c1 = c1
    x1 = x1
    Procs = {p1}
    Day = 3
    Hour = 1
    Late = 1
    Calls = {c1}
    Items = {x1}
    Never = Never
    MaxNow = 5
    Faults = {"db", "crash"}

INVARIANT ReportIInv
INVARIANT OneSummaryPerDate
INVARIANT CountedOnceUpToLateness
INVARIANT TroubleIsSaid
PROPERTY EveryDaySummarised

CHECK_DEADLOCK FALSE
