SPECIFICATION FairSpec

CONSTANTS
    h1 = h1
    h2 = h2
    r1 = r1
    r2 = r2
    n1 = n1
    s1 = s1
    s2 = s2
    Heads = {h1, h2}
    NoHead = NoHead
    MaxChecks = 2
    Shown = 1
    Repos <- TwoRepos
    Names = {n1}
    Commits = {s1, s2}
    MaxRuns = 2

INVARIANT IntegrityViewIsTrue
INVARIANT ReportIsRight
PROPERTY TamperSurfaces
PROPERTY EveryRepoPolled

CHECK_DEADLOCK FALSE
