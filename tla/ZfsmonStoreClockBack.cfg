\* The wall clock may be set back.
CONSTANTS
    Pools  = {p1, p2}
    Props  = {q1}
    Values = {v1, v2}
    Stats  = {s1, s2}
    None   = None
    MaxTime = 3
    ClockStepsBack = TRUE

SPECIFICATION Spec
SYMMETRY Symmetry

INVARIANT TypeOK
INVARIANT IostatBounded
PROPERTY PropsChangeOnlyWhenSet
