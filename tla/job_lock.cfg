CONSTANTS
    i1 = i1  i2 = i2  i3 = i3
    Instances = {i1, i2}
    Timeout = 2
    MaxRun = 1
    HasRun = TRUE
    TimePasses = TRUE
SPECIFICATION FairSpec
INVARIANTS LockReleasable ExclusiveUnlessRaced
PROPERTIES Recovery
