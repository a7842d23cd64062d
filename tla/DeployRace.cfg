\* Two servers started at the same time.
CONSTANTS
    i1 = i1
    i2 = i2
    Instances <- Two
    MaxBuilds = 1
    MaxInstalls = 0
    MaxKills = 0
SPECIFICATION Spec
CHECK_DEADLOCK FALSE
INVARIANTS
    OriginalKept
