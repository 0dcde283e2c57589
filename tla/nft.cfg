CONSTANTS
    d1 = d1  d2 = d2  c1 = c1  c2 = c2  t1 = t1  t2 = t2  w1 = w1
    Creator = Creator  Uuid = Uuid  Id = Id
    Preparations = {d1}
    Calls = {c1}
    DeployTxs = {t1, t2}
    Workers = {w1}
    Evm = TRUE
    MaxFaults = 2
SPECIFICATION FairSpec
CHECK_DEADLOCK FALSE
INVARIANTS TypeOK StatusBacked SingleDeployment BaseUriKnown
PROPERTIES OutcomesHandled DeploymentMoves
