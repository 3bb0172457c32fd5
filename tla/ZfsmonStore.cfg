\* The wall clock only advances.
CONSTANTS
    Pools  = {p1, p2}
    Props  = {q1}
    Values = {v1, v2}
    Stats  = {s1, s2}
    None   = None
    MaxTime = 3
    ClockStepsBack = FALSE

SPECIFICATION Spec
SYMMETRY Symmetry

INVARIANT IInv
PROPERTY SavedSampleIsCurrent
PROPERTY ImplementsView
