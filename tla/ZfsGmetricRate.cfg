\* One pool that moves data, comes and goes; a run that is killed, a clock that
\* is set back.
CONSTANTS
    p1 = p1
    p2 = p2
    Pools = {p1}
    None  = None
    Peak    = 1
    MaxTime = 4
    MaxKills = 1
    MaxErrors = 1
    MaxSetbacks = 1

SPECIFICATION Spec

INVARIANT RateIsPossible
