CONSTANTS
    p1 = p1  p2 = p2  p3 = p3
    r1 = r1  r2 = r2
    NoProc = NoProc
    NoRef = NoRef
    Procs = {p1, p2, p3}
    Refs = {r1, r2}
    Price <- MCPrice
    TopUps = {1, 3}
    Thresholds = {}
    CallsPerRef = 2
    MaxTopUps = 2
    Faults = TRUE
SPECIFICATION Spec
SYMMETRY Symmetry
INVARIANTS BalanceIsLedger OncePerReference
PROPERTIES ImplementsLedger
