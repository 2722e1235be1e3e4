\* Two zc processes over one cache file, one of them killed.
SPECIFICATION FairSpec
CONSTANTS
    Processes = {p1, p2}
    Commands = {"call", "refresh"}
    MaxMints = 2
    MaxKills = 1
INVARIANTS
    FileWhole
    RejectedGone
    CacheInv
PROPERTIES
    LaterRunsReuse
    RevokedHeals
