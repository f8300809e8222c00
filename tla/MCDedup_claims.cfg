CONSTANTS
    k1 = k1  k2 = k2
    Keys = {k1, k2}
    NoKey = NoKey
    NoClaim = NoClaim
    PENDING = PENDING
    MaxRows = 3
    TTL = 3
    MayRelease = TRUE
SPECIFICATION FairSpec
INVARIANTS
    DedupIInv
PROPERTIES
    WinsApart
    ClaimsExpire
