CONSTANTS
    f1 = f1  f2 = f2  s1 = s1  c1 = c1
    Files = {f1, f2}
    Sessions = {s1}
    SessionOf <- MCSessionOf
    Cid <- MCCid
    Enders = {1, 2}
    Workers = {1, 2}
    BatchSize = 1
    Quota = 3
    Limits <- MCLimits
    MaxRuns = 2
    MaxFaults = 1
SPECIFICATION FairSpec
CHECK_DEADLOCK FALSE
INVARIANTS TypeOK CompletedPinned SizeAccounted
PROPERTIES SessionsFinish PinsSettle
