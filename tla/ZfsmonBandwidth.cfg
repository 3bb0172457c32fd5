\* Uint64 counters of 4 bits; the pool is imported again and again.
CONSTANTS
    p1 = p1
    Pools   = {p1}
    None    = None
    Word    = 8
    NANOSEC = 2
    Peak    <- OneUnit
    MaxTime = 4
    MaxNow  = 2

SPECIFICATION Spec

INVARIANT TypeOK
INVARIANT BandwidthIsReal
