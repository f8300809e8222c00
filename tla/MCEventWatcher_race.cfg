CONSTANTS
    c1 = c1  c2 = c2  c3 = c3
    Shas = {c1, c2, c3}
    NoSha = NoSha
    MaxMoves = 3
    Faults = {"git", "redis"}
SPECIFICATION FairSpec
INVARIANTS
    WatcherIInv
    HeadCovered
PROPERTIES
    TipGetsQueued
