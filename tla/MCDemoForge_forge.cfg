SPECIFICATION Spec

CONSTANTS
    r1 = r1
    r2 = r2
    r3 = r3
    s1 = s1
    bad = bad
    NoRun = NoRun
    Runs = {r1, r2, r3}
    Scenarios = {s1}
    ScenarioOf <- BadPayload
    SkipRender = {r2}
    Faults = {"make", "db", "crash"}

INVARIANT ManifestIsOwn
INVARIANT CompletedDemoIsComplete
INVARIANT FailedDemoIsClosed
PROPERTY ClosedStaysClosed

CHECK_DEADLOCK FALSE
