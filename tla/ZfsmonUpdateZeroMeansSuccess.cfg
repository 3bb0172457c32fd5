\* Two pools that come, go and change; one call into libzfs may fail.
CONSTANTS
    Pools  = {p1, p2}
    Props  = {q1}
    None   = None
    MaxGen  = 2
    MaxTime = 1
    MaxFaults = 1

SPECIFICATION Spec
SYMMETRY Symmetry

INVARIANT ZeroMeansSuccess
