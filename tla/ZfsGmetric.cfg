\* Two pools that come and go, runs that are killed.
CONSTANTS
    p1 = p1
    p2 = p2
    Pools = {p1, p2}
    None  = None
    Peak    = 0
    MaxTime = 1
    MaxKills = 2
    MaxErrors = 1
    MaxSetbacks = 0

SPECIFICATION FairSpec

INVARIANT TypeOK
INVARIANT ReportsInOrder
PROPERTY FileIsCurrent
PROPERTY FileConverges
