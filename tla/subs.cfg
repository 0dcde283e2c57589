CONSTANTS
    s1 = s1
    s2 = s2
    Checkouts = {s1, s2}
    Packages <- MCPackages
    Rpc = 3
    Hooks = {1, 2}
    Levels <- MCLevels
    Window = 3
    Period = 1
    Limits <- MCLimits
SPECIFICATION FairSpec
INVARIANTS TypeOK CreditsOnce OneRowPerPurchase UpToDate EarlyOnlyIfExtended
PROPERTIES PaidBooked
CHECK_DEADLOCK FALSE
