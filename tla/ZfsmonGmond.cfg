\* Pools that come and go, failing updates, a clock that is set back.
CONSTANTS
    p1 = p1
    p2 = p2
    Names   <- TwoNames
    Indices <- SomeIndices
    None    = None
    ZFS_STALE_DATA = 2
    ZFSMON_MAX_POOLS = 512
    MaxFaults = 1
    MaxSetbacks = 1
    MaxBack   = 1
    MaxSlow   = 1

SPECIFICATION FairSpec

INVARIANT TypeOK
INVARIANT FreedOnCleanup
PROPERTY ReplyIsRight
PROPERTY AnswersForPoolsThere
PROPERTY FreshUnlessMishap
PROPERTY HandlerReturns
PROPERTY PoolComesBack
