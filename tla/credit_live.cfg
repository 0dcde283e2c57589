CONSTANTS
    p1 = p1  p2 = p2  p3 = p3
    r1 = r1  r2 = r2
    NoProc = NoProc
    NoRef = NoRef
    Procs = {p1, p2}
    Refs = {r1, r2}
    Price <- MCPrice
    TopUps = {3}
    Thresholds = {1}
    CallsPerRef = 2
    MaxTopUps = 1
    Faults = FALSE
SPECIFICATION FairSpec
INVARIANTS EachFailureRefunded
PROPERTIES DriftOnlyByStaleConfigure InvocationsEnd
