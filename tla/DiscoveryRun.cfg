SPECIFICATION Spec
CONSTANTS
    r1 = r1
    r2 = r2
    Run = {r1, r2}
    MaxAttempts = 2
    d1 = d1
    d2 = d2
    Object = {d1, d2}
    Contents <- MCContents
    MaxVersion = 2
    MaxDrift = 1
    MaxHits = 1
CHECK_DEADLOCK FALSE
SYMMETRY RunSymmetry
INVARIANT NewestRunIsCurrent
INVARIANT RunEndsWithItsJob
