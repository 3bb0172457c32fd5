\* The pool is imported again.
CONSTANTS
    p1 = p1
    Pools   = {p1}
    None    = None
    Word    = 8
    NANOSEC = 2
    Peak    <- OneUnit
    MaxTime = 4
    MaxNow  = 2

SPECIFICATION Spec

INVARIANT BandwidthIsPossible
