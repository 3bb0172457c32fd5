\* An update fails.
CONSTANTS
    p1 = p1
    p2 = p2
    Names   <- TwoNames
    Indices <- SomeIndices
    None    = None
    ZFS_STALE_DATA = 2
    ZFSMON_MAX_POOLS = 512
    MaxFaults = 1
    MaxSetbacks = 0
    MaxBack   = 1
    MaxSlow   = 0

SPECIFICATION Spec

PROPERTY FreshWhenServed
